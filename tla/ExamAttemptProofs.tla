------------------------- MODULE ExamAttemptProofs -------------------------
(***************************************************************************)
(* What ExamAttempt guarantees for any number of phones, device sessions,  *)
(* questions and values, any times and any set of interventions.           *)
(*                                                                         *)
(* The inductive invariant is the conjunction of the type invariant, of    *)
(* OneActiveDevice and of TokenBoundToDevice: an unused token must be held *)
(* by no phone for the token of a new device session to be bound to one.   *)
(***************************************************************************)
EXTENDS ExamAttempt, TLAPS

Inv == TypeOK /\ OneActiveDevice /\ TokenBoundToDevice

-----------------------------------------------------------------------------
(* The device_sessions table.                                              *)

\* Taking the ACTIVE session away leaves a table the unique index admits a
\* new ACTIVE row in.
LEMMA ActiveBecomesType ==
  ASSUME TypeOK, NEW s \in {"BLOCKED", "INVALIDATED"}
  PROVE  /\ ActiveBecomes(s) \in [Tokens -> {"ABSENT", "ACTIVE", "BLOCKED", "INVALIDATED"}]
         /\ IndexAdmits(ActiveBecomes(s))
         /\ \A t \in Tokens : ActiveBecomes(s)[t] = "ABSENT" <=> devStatus[t] = "ABSENT"
  BY DEF TypeOK, ActiveBecomes, IndexAdmits

\* InsertDevice keeps the three parts of the invariant about devices.
LEMMA InsertDeviceInv ==
  ASSUME Inv, NEW d \in Devices, NEW t \in Unused,
         NEW table \in [Tokens -> {"ABSENT", "ACTIVE", "BLOCKED", "INVALIDATED"}],
         \A u \in Tokens : table[u] = "ABSENT" <=> devStatus[u] = "ABSENT",
         InsertDevice(table, t, d)
  PROVE  /\ devStatus' \in [Tokens -> {"ABSENT", "ACTIVE", "BLOCKED", "INVALIDATED"}]
         /\ devOwner' \in [Tokens -> Devices \cup {Null}]
         /\ held' \in [Devices -> Tokens \cup {Null}]
         /\ OneActiveDevice' /\ TokenBoundToDevice'
<1>1. t \in Tokens /\ devStatus[t] = "ABSENT"
  BY DEF Unused
<1>2. \A u \in Tokens : devStatus'[u] = "ACTIVE" <=> u = t
  BY <1>1 DEF InsertDevice, IndexAdmits
<1>3. OneActiveDevice'
  BY <1>2 DEF OneActiveDevice, Active
<1>4. \A e \in Devices : held[e] # Null => held[e] \in Tokens /\ held[e] # t
  BY <1>1 DEF Inv, TypeOK, TokenBoundToDevice
<1>5. TokenBoundToDevice'
  BY <1>1, <1>4 DEF InsertDevice, TokenBoundToDevice, Inv, TypeOK
<1> QED
  BY <1>1, <1>3, <1>5 DEF InsertDevice, Inv, TypeOK

\* A step that leaves the devices and the tokens alone, or brings no session to
\* life, keeps the parts of the invariant about devices.
LEMMA DevicesKept ==
  ASSUME Inv, UNCHANGED <<devOwner, held>>,
         \/ UNCHANGED devStatus
         \/ devStatus' = ActiveBecomes("BLOCKED")
         \/ devStatus' = ActiveBecomes("INVALIDATED")
         \/ devStatus' = AllInvalid
  PROVE  OneActiveDevice' /\ TokenBoundToDevice'
  BY ActiveBecomesType
  DEF Inv, OneActiveDevice, TokenBoundToDevice, Active, ActiveBecomes, AllInvalid,
      IndexAdmits, TypeOK

-----------------------------------------------------------------------------
(* The invariant.                                                          *)

\* No phone holds a token and no device session exists at first.
LEMMA InitInv == Init => Inv
<1> SUFFICES ASSUME Init PROVE Inv
  OBVIOUS
<1>1. TypeOK
  BY DEF Init, TypeOK, Idle, Time
<1>2. OneActiveDevice
  BY DEF Init, OneActiveDevice, Active
<1>3. TokenBoundToDevice
  BY DEF Init, TokenBoundToDevice
<1> QED
  BY <1>1, <1>2, <1>3 DEF Inv

\* The steps of start_attempt keep the invariant.
LEMMA StartStepInv ==
  ASSUME Inv, NEW d \in Devices, BeginStart(d) \/ StartStep(d)
  PROVE  Inv'
<1> USE TimeAssumption, RowAssumption
<1>1. CASE BeginStart(d)
  <2>1. Branch \in [pc : {"idle", "bind", "create", "device"}, remaining : {Null}]
                  \cup [pc : {"resume"}, remaining : Int]
    BY DEF Inv, TypeOK, Branch, Idle, Time
  <2>2. TypeOK'
    BY <1>1, <2>1 DEF Inv, TypeOK, BeginStart, attemptRow, devices
  <2> QED
    BY <1>1, <2>2, DevicesKept DEF Inv, BeginStart, devices
<1>2. ASSUME NEW t \in Unused, StartResume(d, t)
      PROVE  Inv'
  <2>1. InsertDevice(ActiveBecomes("INVALIDATED"), t, d)
    BY <1>2 DEF StartResume
  <2>2. /\ devStatus' \in [Tokens -> {"ABSENT", "ACTIVE", "BLOCKED", "INVALIDATED"}]
        /\ devOwner' \in [Tokens -> Devices \cup {Null}]
        /\ held' \in [Devices -> Tokens \cup {Null}]
        /\ OneActiveDevice' /\ TokenBoundToDevice'
    BY <2>1, ActiveBecomesType, InsertDeviceInv DEF Inv
  <2>3. start[d].remaining \in Int
    BY <1>2 DEF StartResume, Inv, TypeOK
  <2>4. deadline' \in Time /\ remaining' \in Time
    BY <1>2, <2>3 DEF StartResume, Inv, TypeOK, Time
  <2>5. start' \in [Devices ->
                     [pc : {"idle", "bind", "create", "device"}, remaining : {Null}]
                       \cup [pc : {"resume"}, remaining : Int]]
    BY <1>2 DEF StartResume, Idle, Inv, TypeOK
  <2>6. TypeOK'
    BY <1>2, <2>2, <2>4, <2>5 DEF Inv, TypeOK, StartResume, Open
  <2> QED
    BY <2>2, <2>6 DEF Inv
<1>3. ASSUME NEW t \in Unused, StartBind(d, t)
      PROVE  Inv'
  <2>1. InsertDevice(devStatus, t, d)
    BY <1>3 DEF StartBind
  <2>2. /\ devStatus' \in [Tokens -> {"ABSENT", "ACTIVE", "BLOCKED", "INVALIDATED"}]
        /\ devOwner' \in [Tokens -> Devices \cup {Null}]
        /\ held' \in [Devices -> Tokens \cup {Null}]
        /\ OneActiveDevice' /\ TokenBoundToDevice'
    BY <2>1, InsertDeviceInv DEF Inv, TypeOK
  <2>3. TypeOK'
    BY <1>3, <2>2 DEF Inv, TypeOK, StartBind, Idle, attemptRow
  <2> QED
    BY <2>2, <2>3 DEF Inv
<1>4. ASSUME NEW t \in Unused, StartDevice(d, t)
      PROVE  Inv'
  <2>1. InsertDevice(devStatus, t, d)
    BY <1>4 DEF StartDevice
  <2>2. /\ devStatus' \in [Tokens -> {"ABSENT", "ACTIVE", "BLOCKED", "INVALIDATED"}]
        /\ devOwner' \in [Tokens -> Devices \cup {Null}]
        /\ held' \in [Devices -> Tokens \cup {Null}]
        /\ OneActiveDevice' /\ TokenBoundToDevice'
    BY <2>1, InsertDeviceInv DEF Inv, TypeOK
  <2>3. TypeOK'
    BY <1>4, <2>2 DEF Inv, TypeOK, StartDevice, Idle, attemptRow
  <2> QED
    BY <2>2, <2>3 DEF Inv
<1>5. CASE StartRebind(d)
  <2>1. PICK t \in Active :
          held' = IF devOwner[t] = d THEN [held EXCEPT ![d] = t] ELSE held
    BY <1>5 DEF StartRebind
  <2>2. t \in Tokens /\ devStatus[t] = "ACTIVE"
    BY DEF Active
  <2>3. TypeOK'
    BY <1>5, <2>1, <2>2 DEF Inv, TypeOK, StartRebind, Idle, attemptRow, devices
  <2>4. TokenBoundToDevice'
    BY <1>5, <2>1, <2>2 DEF Inv, TypeOK, TokenBoundToDevice, StartRebind, devices
  <2>5. OneActiveDevice'
    BY <1>5 DEF Inv, OneActiveDevice, Active, StartRebind, devices
  <2> QED
    BY <2>3, <2>4, <2>5 DEF Inv
<1>6. CASE StartCreate(d)
  <2>1. NewDeadline \in Time
    BY DEF NewDeadline, Least, Time, Inv, TypeOK
  <2>2. TypeOK'
    BY <1>6, <2>1 DEF Inv, TypeOK, StartCreate, Idle, devices, Open
  <2> QED
    BY <1>6, <2>2, DevicesKept DEF Inv, StartCreate, devices
<1>7. CASE StartFails(d)
  <2>1. TypeOK'
    BY <1>7 DEF Inv, TypeOK, StartFails, Idle, attemptRow, devices
  <2> QED
    BY <1>7, <2>1, DevicesKept DEF Inv, StartFails, devices
<1> QED
  BY <1>1, <1>2, <1>3, <1>4, <1>5, <1>6, <1>7 DEF StartStep

\* Check-in, autosave, submission and the poll keep the invariant.
LEMMA StudentInv ==
  ASSUME Inv, CheckIn \/ SubmitAttempt \/ PollStep
              \/ (\E d \in Devices : AutosaveLate(d))
              \/ (\E d \in Devices, q \in Questions, v \in Values \cup {Null} :
                    AutosaveAnswer(d, q, v))
  PROVE  Inv'
<1>1. CASE CheckIn
  <2>1. TypeOK'
    BY <1>1 DEF Inv, TypeOK, CheckIn, attemptRow, devices, requests
  <2> QED
    BY <1>1, <2>1, DevicesKept DEF Inv, CheckIn, devices
<1>2. ASSUME Close, UNCHANGED <<now, session, checkedIn, answers, held, start,
                                broadcast, broadcasts>>,
             poll' \in {"idle", "submit", "activate"}
      PROVE  Inv'
  <2>1. TypeOK'
    BY <1>2, ActiveBecomesType DEF Inv, TypeOK, Close, Closed
  <2> QED
    BY <1>2, <2>1, DevicesKept DEF Inv, Close
<1>3. CASE SubmitAttempt
  BY <1>2, <1>3 DEF SubmitAttempt, requests, Inv, TypeOK
<1>4. CASE \E d \in Devices : AutosaveLate(d)
  BY <1>2, <1>4 DEF AutosaveLate, requests, Inv, TypeOK
<1>5. CASE PollSubmit
  BY <1>2, <1>5 DEF PollSubmit
<1>6. ASSUME NEW d \in Devices, NEW q \in Questions, NEW v \in Values \cup {Null},
             AutosaveAnswer(d, q, v)
      PROVE  Inv'
  <2>1. TypeOK'
    BY <1>6 DEF Inv, TypeOK, AutosaveAnswer, attemptRow, devices, requests
  <2> QED
    BY <1>6, <2>1, DevicesKept DEF Inv, AutosaveAnswer, devices
<1>7. CASE PollSweep
  <2>1. TypeOK'
    BY <1>7 DEF Inv, TypeOK, PollSweep, attemptRow, devices
  <2> QED
    BY <1>7, <2>1, DevicesKept DEF Inv, PollSweep, devices
<1>8. CASE PollActivate
  <2>1. TypeOK'
    BY <1>8 DEF Inv, TypeOK, PollActivate, attemptRow, devices
  <2> QED
    BY <1>8, <2>1, DevicesKept DEF Inv, PollActivate, devices
<1> QED
  BY <1>1, <1>3, <1>4, <1>5, <1>6, <1>7, <1>8 DEF PollStep

\* Activation, interventions, broadcasts and grading keep the invariant.
LEMMA StaffInv ==
  ASSUME Inv, Staff \/ BroadcastWrite
  PROVE  Inv'
<1> USE TimeAssumption
<1>1. CASE ActivateSession
  <2>1. TypeOK'
    BY <1>1 DEF Inv, TypeOK, ActivateSession, attemptRow, devices, requests
  <2> QED
    BY <1>1, <2>1, DevicesKept DEF Inv, ActivateSession, devices
<1>2. CASE ProctorLock
  <2>1. TypeOK'
    BY <1>2, ActiveBecomesType
    DEF Inv, TypeOK, ProctorLock, requests, Open, Time
  <2> QED
    BY <1>2, <2>1, DevicesKept DEF Inv, ProctorLock
<1>3. CASE ProctorUnlock
  <2>1. CASE UNCHANGED devStatus
    <3>1. TypeOK'
      BY <1>3, <2>1 DEF Inv, TypeOK, ProctorUnlock, requests, Open
    <3> QED
      BY <1>3, <2>1, <3>1, DevicesKept DEF Inv, ProctorUnlock
  <2>2. ASSUME NEW t \in Tokens, devStatus[t] = "BLOCKED", IndexAdmits(devStatus),
               devStatus' = [devStatus EXCEPT ![t] = "ACTIVE"]
        PROVE  Inv'
    <3>1. TypeOK'
      BY <1>3, <2>2 DEF Inv, TypeOK, ProctorUnlock, requests, Open
    <3>2. OneActiveDevice'
      BY <2>2 DEF Inv, TypeOK, IndexAdmits, OneActiveDevice, Active
    <3>3. TokenBoundToDevice'
      BY <1>3, <2>2 DEF Inv, TypeOK, TokenBoundToDevice, ProctorUnlock
    <3> QED
      BY <3>1, <3>2, <3>3 DEF Inv
  <2> QED
    BY <1>3, <2>1, <2>2 DEF ProctorUnlock
<1>4. CASE ProctorResetDevice
  <2>1. deadline' \in Time /\ remaining' \in Time
    BY <1>4 DEF ProctorResetDevice, Inv, TypeOK, Time
  <2>2. TypeOK'
    BY <1>4, <2>1, ActiveBecomesType
    DEF Inv, TypeOK, ProctorResetDevice, requests, Open
  <2> QED
    BY <1>4, <2>2, DevicesKept DEF Inv, ProctorResetDevice
<1>5. CASE TelemetryViolation
  <2>1. TypeOK'
    BY <1>5 DEF Inv, TypeOK, TelemetryViolation, devices, requests, Open
  <2> QED
    BY <1>5, <2>1, DevicesKept DEF Inv, TelemetryViolation, devices
<1>6. CASE BroadcastRead
  <2>1. PICK x \in ExtraTimes :
          broadcast' = [extra |-> x, deadline |-> deadline, remaining |-> remaining]
    BY <1>6 DEF BroadcastRead
  <2>2. broadcast' \in [extra : Nat, deadline : Time, remaining : Time]
    BY <2>1 DEF Inv, TypeOK
  <2>3. TypeOK'
    BY <1>6, <2>2 DEF Inv, TypeOK, BroadcastRead, attemptRow, devices
  <2> QED
    BY <1>6, <2>3, DevicesKept DEF Inv, BroadcastRead, devices
<1>7. CASE MarkGraded
  <2>1. TypeOK'
    BY <1>7 DEF Inv, TypeOK, MarkGraded, devices, requests, Closed
  <2> QED
    BY <1>7, <2>1, DevicesKept DEF Inv, MarkGraded, devices
<1>8. CASE BroadcastWrite
  <2>1. deadline' \in Time /\ remaining' \in Time
    BY <1>8 DEF BroadcastWrite, Inv, TypeOK, Time
  <2>2. TypeOK'
    BY <1>8, <2>1 DEF Inv, TypeOK, BroadcastWrite, devices
  <2> QED
    BY <1>8, <2>2, DevicesKept DEF Inv, BroadcastWrite, devices
<1>9. CASE ClearSessions
  <2>1. TypeOK'
    BY <1>9 DEF Inv, TypeOK, ClearSessions, AllInvalid, attemptRow, requests
  <2> QED
    BY <1>9, <2>1, DevicesKept DEF Inv, ClearSessions
<1> QED
  BY <1>1, <1>2, <1>3, <1>4, <1>5, <1>6, <1>7, <1>8, <1>9 DEF Staff

\* Every step keeps the invariant: one case per group of actions.
LEMMA NextInv == Inv /\ [Next]_vars => Inv'
<1> SUFFICES ASSUME Inv, [Next]_vars PROVE Inv'
  OBVIOUS
<1>1. CASE Tick
  <2>1. TypeOK'
    BY <1>1 DEF Inv, TypeOK, Tick, attemptRow, devices, requests
  <2> QED
    BY <1>1, <2>1, DevicesKept DEF Inv, Tick, devices
<1>2. CASE UNCHANGED vars
  <2>1. TypeOK'
    BY <1>2 DEF Inv, TypeOK, vars, attemptRow, devices, requests
  <2> QED
    BY <1>2, <2>1, DevicesKept DEF Inv, vars, devices
<1> QED
  BY <1>1, <1>2, StartStepInv, StudentInv, StaffInv DEF Next, Student

\* The type invariant, the single writer and the binding of tokens to phones
\* hold in every reachable state.
THEOREM Invariance == Spec => []Inv
  BY InitInv, NextInv, PTL DEF Spec

\* Every value a handler stores is one its column and its readers admit.
THEOREM TypeCorrect == Spec => []TypeOK
  BY Invariance, PTL DEF Inv

\* At most one device session of an attempt is ACTIVE, whatever start_attempt,
\* lock, unlock, reset, sweep and broadcast do and however they interleave.
THEOREM SingleWriter == Spec => []OneActiveDevice
  BY Invariance, PTL DEF Inv

\* No phone ever holds a token that is bound to another one.
THEOREM TokensStayBound == Spec => []TokenBoundToDevice
  BY Invariance, PTL DEF Inv

-----------------------------------------------------------------------------
(* ExamAttempt implements AnswerSheet: the pen is held by the ACTIVE        *)
(* device session.                                                          *)

LEMMA HolderIsActive ==
  ASSUME OneActiveDevice
  PROVE  /\ \A t \in Active : Holder = t
         /\ Active = {} => Holder = Null
  BY DEF OneActiveDevice, Holder

\* A step that writes no answer passes the pen on as AnswerSheet allows, if it
\* never brings an INVALIDATED session back and replaces the ACTIVE session
\* only by invalidating it.
LEMMA PassOnStep ==
  ASSUME Inv, Inv', UNCHANGED answers,
         \A t \in Tokens : devStatus[t] = "INVALIDATED" => devStatus'[t] = "INVALIDATED",
         \A t, u \in Tokens :
           devStatus[t] = "ACTIVE" /\ devStatus'[u] = "ACTIVE" /\ t # u
             => devStatus'[t] = "INVALIDATED"
  PROVE  Sheet!PassOn
<1>1. Revoked \subseteq Revoked' /\ Revoked' \subseteq Tokens
  BY DEF Revoked
<1>2. \/ Holder = Null
      \/ Holder \in Tokens /\ devStatus[Holder] = "ACTIVE"
  BY DEF Holder, Active
<1>3. \/ Holder' = Null
      \/ Holder' \in Tokens /\ devStatus'[Holder'] = "ACTIVE"
  BY DEF Holder, Active
<1>4. Null \notin Tokens
  BY RowAssumption
<1>5. Holder' \in (Tokens \cup {Null}) \ Revoked'
  BY <1>3, <1>4 DEF Revoked
<1>6. Holder # Null /\ Holder' # Null /\ Holder' # Holder => Holder \in Revoked'
  BY <1>2, <1>3 DEF Revoked
<1> QED
  BY <1>1, <1>5, <1>6 DEF Sheet!PassOn

\* Of the devices, a step only changes the table in one of five ways.
LEMMA DeviceSteps ==
  ASSUME Inv, [Next]_vars
  PROVE  \/ UNCHANGED devStatus
         \/ devStatus' = ActiveBecomes("BLOCKED")
         \/ devStatus' = ActiveBecomes("INVALIDATED")
         \/ devStatus' = AllInvalid
         \/ \E t \in Tokens : /\ devStatus[t] \in {"ABSENT", "BLOCKED"}
                              /\ \/ devStatus' = [devStatus EXCEPT ![t] = "ACTIVE"]
                                    /\ IndexAdmits(devStatus)
                                 \/ devStatus' = [ActiveBecomes("INVALIDATED")
                                                    EXCEPT ![t] = "ACTIVE"]
<1>1. CASE Tick \/ CheckIn \/ ActivateSession \/ TelemetryViolation \/ BroadcastRead
           \/ MarkGraded \/ BroadcastWrite \/ PollSweep \/ PollActivate
           \/ UNCHANGED vars
  BY <1>1 DEF Tick, CheckIn, ActivateSession, TelemetryViolation, BroadcastRead,
              MarkGraded, BroadcastWrite, PollSweep, PollActivate, vars, devices
<1>2. CASE SubmitAttempt \/ PollSubmit \/ (\E d \in Devices : AutosaveLate(d))
  BY <1>2 DEF SubmitAttempt, PollSubmit, AutosaveLate, Close
<1>3. CASE ProctorLock \/ ProctorResetDevice \/ ClearSessions
  BY <1>3 DEF ProctorLock, ProctorResetDevice, ClearSessions
<1>4. CASE ProctorUnlock
  BY <1>4 DEF ProctorUnlock
<1>5. CASE \E d \in Devices : BeginStart(d) \/ StartRebind(d) \/ StartCreate(d)
                              \/ StartFails(d)
  BY <1>5 DEF BeginStart, StartRebind, StartCreate, StartFails, devices
<1>6. ASSUME NEW d \in Devices, NEW t \in Unused,
             StartResume(d, t) \/ StartBind(d, t) \/ StartDevice(d, t)
      PROVE  \E u \in Tokens :
               /\ devStatus[u] \in {"ABSENT", "BLOCKED"}
               /\ \/ devStatus' = [devStatus EXCEPT ![u] = "ACTIVE"]
                     /\ IndexAdmits(devStatus)
                  \/ devStatus' = [ActiveBecomes("INVALIDATED") EXCEPT ![u] = "ACTIVE"]
  BY <1>6 DEF StartResume, StartBind, StartDevice, InsertDevice, Unused
<1>7. CASE \E d \in Devices, q \in Questions, v \in Values \cup {Null} : AutosaveAnswer(d, q, v)
  BY <1>7 DEF AutosaveAnswer, devices
<1> QED
  BY <1>1, <1>2, <1>3, <1>4, <1>5, <1>6, <1>7
  DEF Next, Student, Staff, StartStep, PollStep

\* Only an autosave changes an answer, and it does so as AnswerSheet's Write.
LEMMA AnswerSteps ==
  ASSUME Inv, [Next]_vars
  PROVE  \/ UNCHANGED answers
         \/ \E d \in Devices, q \in Questions, v \in Values \cup {Null} : AutosaveAnswer(d, q, v)
<1>1. CASE Tick \/ CheckIn \/ SubmitAttempt \/ Staff \/ BroadcastWrite \/ PollStep
           \/ UNCHANGED vars
  BY <1>1 DEF Tick, CheckIn, SubmitAttempt, Staff, ActivateSession, ProctorLock,
       ProctorUnlock, ProctorResetDevice, ClearSessions, TelemetryViolation,
       BroadcastRead, MarkGraded, BroadcastWrite, PollStep, PollSweep, PollSubmit, PollActivate, vars
<1>2. CASE \E d \in Devices : BeginStart(d) \/ StartStep(d) \/ AutosaveLate(d)
  BY <1>2 DEF BeginStart, StartStep, StartResume, StartBind, StartDevice,
       StartRebind, StartCreate, StartFails, AutosaveLate
<1> QED
  BY <1>1, <1>2 DEF Next, Student

\* An attempt that does not exist yet is an empty sheet nobody holds.
LEMMA SheetInit == Init => Sheet!Init
  BY DEF Init, Sheet!Init, Holder, Active, Revoked

\* Every step is a step of AnswerSheet: a write, or the pen passed on.
LEMMA SheetNext == Inv /\ Inv' /\ [Next]_vars => [Sheet!Next]_(Sheet!vars)
<1> SUFFICES ASSUME Inv, Inv', [Next]_vars PROVE [Sheet!Next]_(Sheet!vars)
  OBVIOUS
<1>1. ASSUME NEW d \in Devices, NEW q \in Questions, NEW v \in Values \cup {Null},
             AutosaveAnswer(d, q, v)
      PROVE  Sheet!Write(q, v)
  <2>1. Holder # Null
    BY <1>1, HolderIsActive, RowAssumption DEF AutosaveAnswer, Inv
  <2>2. UNCHANGED <<Holder, Revoked>>
    BY <1>1 DEF AutosaveAnswer, Holder, Active, Revoked, devices
  <2> QED
    BY <1>1, <2>1, <2>2 DEF AutosaveAnswer, Sheet!Write, attemptRow
<1>2. ASSUME UNCHANGED answers
      PROVE  Sheet!PassOn
  <2>1. \A t \in Tokens :
          devStatus[t] = "INVALIDATED" => devStatus'[t] = "INVALIDATED"
    BY DeviceSteps DEF ActiveBecomes, AllInvalid, Inv, TypeOK
  <2>2. \A t, u \in Tokens :
          devStatus[t] = "ACTIVE" /\ devStatus'[u] = "ACTIVE" /\ t # u
            => devStatus'[t] = "INVALIDATED"
    BY DeviceSteps
    DEF ActiveBecomes, AllInvalid, IndexAdmits, Inv, TypeOK, OneActiveDevice, Active
  <2> QED
    BY <1>2, <2>1, <2>2, PassOnStep
<1> QED
  BY <1>1, <1>2, AnswerSteps DEF Sheet!Next

\* The answers of an attempt are written with a single pen that passes only
\* from a session that is gone, for every interleaving of the handlers.
THEOREM Implementation == Spec => OnePen
  BY InitInv, NextInv, SheetInit, SheetNext, PTL DEF Spec, OnePen, Sheet!Spec

-----------------------------------------------------------------------------
(* The two clocks.  They are set by different handlers, some of which never *)
(* look at the other clock; the argument rests on the lock of the session   *)
(* row: a start request that is about to create the attempt is alone, so it *)
(* sets the deadline of an attempt that nobody has paused before.           *)

CreatesAlone ==
  \A d \in Devices : start[d].pc = "create" =>
    /\ status = "ABSENT"
    /\ \A e \in Devices \ {d} : start[e].pc \in {"idle", "device"}

ClockInv ==
  /\ Inv
  /\ OneClock
  /\ CreatesAlone
  /\ broadcast # Null => broadcasts > 0
  /\ poll = "submit" \/ evaluated # Null \/ broadcast # Null => status # "ABSENT"
  /\ status = "ABSENT" => remaining = Null

\* There is no attempt, no request and no saved time at first.
LEMMA ClockInit == Init => ClockInv
  BY InitInv DEF Init, ClockInv, OneClock, Idle, CreatesAlone

\* start_attempt keeps the clocks apart.
LEMMA ClockStart ==
  ASSUME ClockInv, Inv', NEW d \in Devices, BeginStart(d) \/ StartStep(d)
  PROVE  ClockInv'
<1>1. CASE BeginStart(d)
  <2>1. Branch.pc = "create" => status = "ABSENT"
    BY DEF Branch, Idle
  <2>2. \A e \in Devices : start'[e] = IF e = d THEN Branch ELSE start[e]
    BY <1>1 DEF BeginStart, ClockInv, Inv, TypeOK
  <2>3. CreatesAlone'
    BY <1>1, <2>1, <2>2 DEF BeginStart, CreatesAlone, SessionFree, attemptRow
  <2> QED
    BY <1>1, <2>3 DEF BeginStart, ClockInv, OneClock, attemptRow
<1>2. ASSUME NEW t \in Unused, StartResume(d, t)
      PROVE  ClockInv'
  <2>1. \A e \in Devices : start'[e] = IF e = d THEN Idle("idle") ELSE start[e]
    BY <1>2 DEF StartResume, ClockInv, Inv, TypeOK
  <2>2. \A e \in Devices : start[e].pc # "create"
    BY <1>2 DEF StartResume, ClockInv, CreatesAlone
  <2>3. CreatesAlone'
    BY <2>1, <2>2 DEF CreatesAlone, Idle
  <2> QED
    BY <1>2, <2>3 DEF StartResume, ClockInv, OneClock
<1>3. CASE StartCreate(d)
  <2>1. status = "ABSENT" /\ remaining = Null
    BY <1>3 DEF StartCreate, ClockInv, CreatesAlone
  <2>2. \A e \in Devices : start'[e].pc \in {"idle", "device"}
    BY <1>3 DEF StartCreate, ClockInv, CreatesAlone, Idle, Inv, TypeOK
  <2> QED
    BY <1>3, <2>1, <2>2 DEF StartCreate, ClockInv, CreatesAlone, OneClock
<1>4. ASSUME start' = [start EXCEPT ![d] = Idle("idle")],
             UNCHANGED <<attemptRow, evaluated, broadcast, broadcasts, poll>>
      PROVE  ClockInv'
  <2>1. \A e \in Devices : start'[e] = IF e = d THEN Idle("idle") ELSE start[e]
    BY <1>4 DEF ClockInv, Inv, TypeOK
  <2>2. CreatesAlone'
    BY <1>4, <2>1 DEF ClockInv, CreatesAlone, Idle, attemptRow
  <2> QED
    BY <1>4, <2>2 DEF ClockInv, OneClock, attemptRow
<1> QED
  BY <1>1, <1>2, <1>3, <1>4
  DEF StartStep, StartBind, StartDevice, StartRebind, StartFails

\* So do all other steps: one case per group of actions.
LEMMA ClockNext == ClockInv /\ [Next]_vars => ClockInv'
<1> SUFFICES ASSUME ClockInv, [Next]_vars PROVE ClockInv'
  OBVIOUS
<1>1. Inv'
  BY NextInv DEF ClockInv
<1>2. CASE \E d \in Devices : BeginStart(d) \/ StartStep(d)
  BY <1>1, <1>2, ClockStart
<1>3. ASSUME Close, status # "ABSENT", UNCHANGED <<start, broadcast, broadcasts>>
      PROVE  ClockInv'
  BY <1>1, <1>3 DEF Close, ClockInv, OneClock, CreatesAlone
<1>4. CASE SubmitAttempt \/ (\E d \in Devices : AutosaveLate(d))
  BY <1>3, <1>4 DEF SubmitAttempt, AutosaveLate, requests, Open
<1>5. CASE PollSubmit
  BY <1>3, <1>5 DEF PollSubmit, ClockInv
<1>6. CASE PollSweep \/ PollActivate
  BY <1>1, <1>6
  DEF PollSweep, PollActivate, ClockInv, OneClock, CreatesAlone, attemptRow, Open
<1>7. CASE Tick \/ CheckIn \/ ActivateSession \/ UNCHANGED vars
           \/ (\E d \in Devices, q \in Questions, v \in Values \cup {Null} :
                 AutosaveAnswer(d, q, v))
  BY <1>1, <1>7
  DEF Tick, CheckIn, ActivateSession, AutosaveAnswer, vars, attemptRow, requests,
      ClockInv, OneClock, CreatesAlone
<1>8. CASE ProctorLock \/ ProctorUnlock \/ ClearSessions \/ TelemetryViolation
           \/ MarkGraded
  BY <1>1, <1>8
  DEF ProctorLock, ProctorUnlock, ClearSessions, TelemetryViolation, MarkGraded,
      attemptRow, requests, ClockInv, OneClock, CreatesAlone
<1>9. CASE ProctorResetDevice
  BY <1>1, <1>9
  DEF ProctorResetDevice, requests, ClockInv, OneClock, CreatesAlone
<1>10. CASE BroadcastRead
  <2>1. broadcasts' > 0
    BY <1>10 DEF BroadcastRead, ClockInv, Inv, TypeOK
  <2> QED
    BY <1>1, <1>10, <2>1
    DEF BroadcastRead, ClockInv, OneClock, CreatesAlone, attemptRow, Open
<1>11. CASE BroadcastWrite
  BY <1>1, <1>11 DEF BroadcastWrite, ClockInv, OneClock, CreatesAlone
<1> QED
  BY <1>2, <1>4, <1>5, <1>6, <1>7, <1>8, <1>9, <1>10, <1>11
  DEF Next, Student, Staff, PollStep

\* Before the first broadcast of extra time no attempt ever has two clocks, and
\* so no resume can add a saved time to a deadline that is still running.
THEOREM ClocksStayApart == Spec => []OneClock
  BY ClockInit, ClockNext, PTL DEF Spec, ClockInv

-----------------------------------------------------------------------------
(* Where nobody resets a device and no telemetry pauses an attempt, answers *)
(* are frozen by the submission.  No attempt is ever timed by saved seconds *)
(* there, so no start request resumes one; a start request that is about to *)
(* create the attempt is alone, as above; and evaluation rows exist only    *)
(* for a closed attempt.                                                    *)

NoReset == Commands \subseteq {"lock", "unlock", "clear"}

FrozenInv ==
  /\ Inv
  /\ remaining = Null
  /\ broadcast # Null => broadcast.remaining = Null
  /\ \A d \in Devices : start[d].pc # "resume"
  /\ CreatesAlone
  /\ poll = "submit" => status # "ABSENT"
  /\ evaluated # Null => status \in Closed

\* Nothing is evaluated and nothing saved at first.
LEMMA FrozenInit == Init => FrozenInv
  BY InitInv DEF Init, FrozenInv, Idle, CreatesAlone

\* The part of the invariant that no step other than those of start_attempt
\* touches.
LEMMA FrozenStart ==
  ASSUME NoReset, FrozenInv, Inv', NEW d \in Devices, BeginStart(d) \/ StartStep(d)
  PROVE  FrozenInv'
<1>1. CASE BeginStart(d)
  <2>1. Branch.pc \in {"bind", "create"} /\ (Branch.pc = "create" => status = "ABSENT")
    BY DEF Branch, Idle, FrozenInv
  <2>2. \A e \in Devices : start'[e] = IF e = d THEN Branch ELSE start[e]
    BY <1>1 DEF BeginStart, FrozenInv, Inv, TypeOK
  <2>3. CreatesAlone'
    BY <1>1, <2>1, <2>2 DEF BeginStart, CreatesAlone, SessionFree, attemptRow
  <2> QED
    BY <1>1, <2>1, <2>2, <2>3 DEF BeginStart, FrozenInv, attemptRow
<1>2. CASE \E t \in Unused : StartResume(d, t)
  BY <1>2 DEF StartResume, FrozenInv
<1>3. CASE StartCreate(d)
  <2>1. status = "ABSENT" /\ evaluated = Null
    BY <1>3 DEF StartCreate, FrozenInv, CreatesAlone, Closed
  <2>2. \A e \in Devices : start'[e].pc \in {"idle", "device"}
    BY <1>3 DEF StartCreate, FrozenInv, CreatesAlone, Idle, Inv, TypeOK
  <2> QED
    BY <1>3, <2>1, <2>2 DEF StartCreate, FrozenInv, CreatesAlone
<1>4. ASSUME start' = [start EXCEPT ![d] = Idle("idle")],
             UNCHANGED <<attemptRow, evaluated, broadcast, poll>>
      PROVE  FrozenInv'
  <2>1. \A e \in Devices : start'[e] = IF e = d THEN Idle("idle") ELSE start[e]
    BY <1>4 DEF FrozenInv, Inv, TypeOK
  <2>2. CreatesAlone'
    BY <1>4, <2>1 DEF FrozenInv, CreatesAlone, Idle, attemptRow
  <2> QED
    BY <1>4, <2>1, <2>2 DEF FrozenInv, Idle, attemptRow
<1> QED
  BY <1>1, <1>2, <1>3, <1>4
  DEF StartStep, StartBind, StartDevice, StartRebind, StartFails

\* Every step keeps the invariant where nobody resets a device.
LEMMA FrozenNext ==
  ASSUME NoReset, FrozenInv, [Next]_vars
  PROVE  FrozenInv'
<1>1. Inv'
  BY NextInv DEF FrozenInv
<1>2. CASE \E d \in Devices : BeginStart(d) \/ StartStep(d)
  BY <1>1, <1>2, FrozenStart
<1>3. ASSUME Close, status \in Open \cup Closed, UNCHANGED <<start, broadcast>>
      PROVE  FrozenInv'
  BY <1>1, <1>3 DEF Close, FrozenInv, CreatesAlone, Closed, Open
<1>4. CASE SubmitAttempt \/ (\E d \in Devices : AutosaveLate(d))
  BY <1>3, <1>4 DEF SubmitAttempt, AutosaveLate, requests, Open
<1>5. CASE PollSubmit
  BY <1>3, <1>5 DEF PollSubmit, FrozenInv, Inv, TypeOK
<1>6. CASE PollSweep \/ PollActivate
  BY <1>1, <1>6 DEF PollSweep, PollActivate, FrozenInv, CreatesAlone, attemptRow, Open
<1>7. CASE ProctorLock \/ ProctorUnlock \/ ClearSessions
  BY <1>1, <1>7
  DEF ProctorLock, ProctorUnlock, ClearSessions, FrozenInv, CreatesAlone, attemptRow,
      requests, Closed
<1>8. CASE ProctorResetDevice \/ TelemetryViolation
  BY <1>8 DEF ProctorResetDevice, TelemetryViolation, NoReset
<1>9. CASE MarkGraded
  BY <1>1, <1>9 DEF MarkGraded, FrozenInv, CreatesAlone, requests, Closed
<1>10. CASE BroadcastRead
  <2>1. broadcast'.remaining = Null
    BY <1>10 DEF BroadcastRead, FrozenInv
  <2> QED
    BY <1>1, <1>10, <2>1 DEF BroadcastRead, FrozenInv, CreatesAlone, attemptRow
<1>11. CASE BroadcastWrite
  BY <1>1, <1>11 DEF BroadcastWrite, FrozenInv, CreatesAlone
<1>12. CASE Tick \/ CheckIn \/ ActivateSession \/ UNCHANGED vars
            \/ (\E d \in Devices, q \in Questions, v \in Values \cup {Null} : AutosaveAnswer(d, q, v))
  BY <1>1, <1>12 DEF Tick, CheckIn, ActivateSession, AutosaveAnswer, vars, FrozenInv,
       CreatesAlone, attemptRow, requests
<1> QED
  BY <1>2, <1>4, <1>5, <1>6, <1>7, <1>8, <1>9, <1>10, <1>11, <1>12
  DEF Next, Student, Staff, PollStep

\* With locks, unlocks and cleared sessions as the only interventions, what was
\* evaluated is what the student handed in: the sweep that acts on a stale read,
\* a late autosave and a second start request change nothing.
THEOREM SubmissionIsFinal ==
  ASSUME NoReset
  PROVE  Spec => AnswersFrozenUponSubmit
<1>1. FrozenInv /\ [Next]_vars => FrozenInv'
  BY FrozenNext
<1>2. FrozenInv /\ [Next]_vars => [evaluated # Null => answers' = answers]_vars
  <2> SUFFICES ASSUME FrozenInv, [Next]_vars, evaluated # Null
               PROVE  answers' = answers
    OBVIOUS
  <2>1. status \in Closed
    BY DEF FrozenInv
  <2> QED
    BY <2>1, AnswerSteps DEF FrozenInv, AutosaveAnswer, Closed
<1> QED
  BY FrozenInit, <1>1, <1>2, PTL DEF Spec, AnswersFrozenUponSubmit

-----------------------------------------------------------------------------
(* No time is gained by changing phones, for any number of phones and any  *)
(* times, in a room without unlocks and extra time.                        *)
(*                                                                         *)
(* A start request resumes an attempt with the seconds it has read without *)
(* a lock.  They are still the saved ones when it writes: an attempt with  *)
(* saved seconds has no deadline and so is not in progress, and every      *)
(* handler that saves or clears seconds asks for an attempt in progress,   *)
(* except another start request, which waits for the session row.          *)

Undisturbed == "unlock" \notin Commands /\ MaxBroadcasts = 0

ResumesAlone ==
  \A d \in Devices : start[d].pc = "resume" =>
    /\ remaining = start[d].remaining
    /\ \A e \in Devices \ {d} : start[e].pc \in {"idle", "device"}

TimedInv ==
  /\ ClockInv
  /\ TimerArmed
  /\ status # "ABSENT" => deadline # Null \/ remaining # Null
  /\ ResumesAlone
  /\ broadcast = Null /\ broadcasts = 0

\* There is no attempt and no request at first.
LEMMA TimedInit == Init => TimedInv
  BY ClockInit DEF Init, TimedInv, TimerArmed, ResumesAlone, Idle

\* Where nothing is broadcast, no clock is extended and an attempt with saved
\* seconds is not in progress.
LEMMA SavedIsStopped ==
  ASSUME TimedInv
  PROVE  /\ deadline = Null \/ remaining = Null
         /\ remaining # Null => status # "IN_PROGRESS"
         /\ status # "ABSENT" => \/ remaining = Null /\ deadline \in Int
                                 \/ deadline = Null /\ remaining \in Int
  BY DEF TimedInv, TimerArmed, ClockInv, OneClock, Inv, TypeOK, Time

\* start_attempt resumes with the seconds that are saved now.
LEMMA TimedStart ==
  ASSUME TimedInv, ClockInv', NEW d \in Devices, BeginStart(d) \/ StartStep(d)
  PROVE  TimedInv'
<1>1. CASE BeginStart(d)
  <2>1. Branch.pc = "resume" => remaining = Branch.remaining
    BY DEF Branch, Idle
  <2>2. \A e \in Devices : start'[e] = IF e = d THEN Branch ELSE start[e]
    BY <1>1 DEF BeginStart, TimedInv, ClockInv, Inv, TypeOK
  <2>3. ResumesAlone'
    BY <1>1, <2>1, <2>2 DEF BeginStart, ResumesAlone, SessionFree, attemptRow
  <2> QED
    BY <1>1, <2>3 DEF BeginStart, TimedInv, TimerArmed, attemptRow
<1>2. ASSUME NEW t \in Unused, StartResume(d, t)
      PROVE  TimedInv'
  <2>1. \A e \in Devices : start'[e] = IF e = d THEN Idle("idle") ELSE start[e]
    BY <1>2 DEF StartResume, TimedInv, ClockInv, Inv, TypeOK
  <2>2. ResumesAlone'
    BY <1>2, <2>1 DEF StartResume, TimedInv, ResumesAlone, Idle
  <2>3. start[d].remaining \in Int
    BY <1>2 DEF StartResume, TimedInv, ClockInv, Inv, TypeOK
  <2>4. deadline' # Null
    BY <1>2, <2>3, RowAssumption DEF StartResume, TimedInv, ClockInv, Inv, TypeOK
  <2> QED
    BY <1>2, <2>2, <2>4 DEF StartResume, TimedInv, TimerArmed
<1>3. CASE StartCreate(d)
  <2>1. \A e \in Devices : start'[e].pc \in {"idle", "device"}
    BY <1>3 DEF StartCreate, TimedInv, ClockInv, CreatesAlone, Idle, Inv, TypeOK
  <2>2. deadline' # Null
    BY <1>3, TimeAssumption, RowAssumption
    DEF StartCreate, NewDeadline, Least, TimedInv, ClockInv, Inv, TypeOK
  <2> QED
    BY <1>3, <2>1, <2>2 DEF StartCreate, TimedInv, TimerArmed, ResumesAlone
<1>4. ASSUME start' = [start EXCEPT ![d] = Idle("idle")],
             UNCHANGED <<attemptRow, broadcast, broadcasts>>
      PROVE  TimedInv'
  <2>1. \A e \in Devices : start'[e] = IF e = d THEN Idle("idle") ELSE start[e]
    BY <1>4 DEF TimedInv, ClockInv, Inv, TypeOK
  <2>2. ResumesAlone'
    BY <1>4, <2>1 DEF TimedInv, ResumesAlone, Idle, attemptRow
  <2> QED
    BY <1>4, <2>2 DEF TimedInv, TimerArmed, attemptRow
<1> QED
  BY <1>1, <1>2, <1>3, <1>4
  DEF StartStep, StartBind, StartDevice, StartRebind, StartFails

\* Every other step keeps the invariant: the ones that touch a clock ask for an
\* attempt in progress, which has no saved seconds.
LEMMA TimedNext ==
  ASSUME Undisturbed, TimedInv, [Next]_vars
  PROVE  TimedInv'
<1>1. ClockInv'
  BY ClockNext DEF TimedInv
<1>2. CASE \E d \in Devices : BeginStart(d) \/ StartStep(d)
  BY <1>1, <1>2, TimedStart
<1>3. ASSUME Close, status # "ABSENT", UNCHANGED <<start, broadcast, broadcasts>>
      PROVE  TimedInv'
  BY <1>1, <1>3 DEF Close, TimedInv, TimerArmed, ResumesAlone
<1>4. CASE SubmitAttempt \/ (\E d \in Devices : AutosaveLate(d))
  BY <1>3, <1>4 DEF SubmitAttempt, AutosaveLate, requests, Open
<1>5. CASE PollSubmit
  BY <1>3, <1>5 DEF PollSubmit, TimedInv, ClockInv
<1>6. CASE PollSweep \/ PollActivate \/ Tick \/ CheckIn \/ ActivateSession
           \/ UNCHANGED vars
           \/ (\E d \in Devices, q \in Questions, v \in Values \cup {Null} :
                 AutosaveAnswer(d, q, v))
  BY <1>1, <1>6
  DEF PollSweep, PollActivate, Tick, CheckIn, ActivateSession, AutosaveAnswer, vars,
      attemptRow, requests, TimedInv, TimerArmed, ResumesAlone
<1>7. CASE TelemetryViolation \/ MarkGraded \/ ClearSessions
  BY <1>1, <1>7
  DEF TelemetryViolation, MarkGraded, ClearSessions, attemptRow, requests, TimedInv,
      TimerArmed, ResumesAlone, ClockInv
<1>8. CASE ProctorLock
  <2>1. remaining = Null
    BY <1>8, SavedIsStopped DEF ProctorLock
  <2> QED
    BY <1>1, <1>8, <2>1 DEF ProctorLock, requests, TimedInv, TimerArmed, ResumesAlone
<1>9. CASE ProctorResetDevice
  <2>1. CASE remaining' = deadline - now /\ deadline' = Null
             /\ status = "IN_PROGRESS" /\ deadline # Null
    <3>1. remaining = Null /\ deadline \in Int
      BY <2>1, SavedIsStopped
    <3>2. \A d \in Devices : start[d].pc # "resume"
      BY <3>1, RowAssumption DEF TimedInv, ResumesAlone, ClockInv, Inv, TypeOK
    <3>3. remaining' # Null
      BY <2>1, <3>1, RowAssumption DEF TimedInv, ClockInv, Inv, TypeOK
    <3> QED
      BY <1>1, <1>9, <3>2, <3>3
      DEF ProctorResetDevice, requests, TimedInv, TimerArmed, ResumesAlone
  <2>2. CASE UNCHANGED <<remaining, deadline>>
    BY <1>1, <1>9, <2>2
    DEF ProctorResetDevice, requests, TimedInv, TimerArmed, ResumesAlone
  <2> QED
    BY <1>9, <2>1, <2>2 DEF ProctorResetDevice
<1>10. CASE ProctorUnlock \/ BroadcastRead \/ BroadcastWrite
  BY <1>10 DEF ProctorUnlock, BroadcastRead, BroadcastWrite, Undisturbed, TimedInv
<1> QED
  BY <1>2, <1>4, <1>5, <1>6, <1>7, <1>8, <1>9, <1>10
  DEF Next, Student, Staff, PollStep

\* An attempt in progress always runs against a deadline, although resets and
\* telemetry pause it and start requests act on what they have read.
THEOREM TimerStaysArmed ==
  ASSUME Undisturbed
  PROVE  Spec => []TimerArmed
<1>1. TimedInv /\ [Next]_vars => TimedInv'
  BY TimedNext
<1> QED
  BY TimedInit, <1>1, PTL DEF Spec, TimedInv

\* Once the attempt exists, no step gives more time than was left.
LEMMA TimeShrinks ==
  ASSUME Undisturbed, TimedInv, [Next]_vars, status # "ABSENT"
  PROVE  TimeLeft' <= TimeLeft
<1>0. now \in Nat
  BY DEF TimedInv, ClockInv, Inv, TypeOK
<1>1. CASE UNCHANGED <<now, deadline, remaining>>
  BY <1>0, <1>1, SavedIsStopped DEF TimeLeft
<1>2. CASE Tick
  BY <1>0, <1>2, SavedIsStopped DEF Tick, attemptRow, TimeLeft
<1>3. ASSUME NEW d \in Devices, NEW t \in Unused, StartResume(d, t)
      PROVE  TimeLeft' <= TimeLeft
  <2>1. remaining = start[d].remaining /\ remaining \in Int
    BY <1>3 DEF StartResume, TimedInv, ResumesAlone, ClockInv, Inv, TypeOK
  <2>2. remaining # Null
    BY <2>1, RowAssumption
  <2> QED
    BY <1>0, <1>3, <2>1, <2>2 DEF StartResume, TimeLeft
<1>4. ASSUME NEW d \in Devices, StartCreate(d)
      PROVE  TimeLeft' <= TimeLeft
  BY <1>4 DEF StartCreate, TimedInv, ClockInv, CreatesAlone
<1>5. CASE ProctorLock
  BY <1>0, <1>5, SavedIsStopped DEF ProctorLock, TimeLeft
<1>6. CASE ProctorResetDevice
  <2>1. CASE remaining' = deadline - now /\ deadline' = Null
             /\ status = "IN_PROGRESS" /\ deadline # Null
    <3>1. remaining = Null /\ deadline \in Int
      BY <2>1, SavedIsStopped
    <3>2. remaining' # Null
      BY <1>0, <2>1, <3>1, RowAssumption
    <3> QED
      BY <1>0, <2>1, <3>1, <3>2 DEF TimeLeft
  <2>2. CASE UNCHANGED <<remaining, deadline>>
    BY <1>1, <1>6, <2>2 DEF ProctorResetDevice
  <2> QED
    BY <1>6, <2>1, <2>2 DEF ProctorResetDevice
<1>7. CASE ProctorUnlock \/ BroadcastRead \/ BroadcastWrite
  BY <1>7 DEF ProctorUnlock, BroadcastRead, BroadcastWrite, Undisturbed, TimedInv
<1> QED
  BY <1>1, <1>2, <1>3, <1>4, <1>5, <1>6, <1>7
  DEF Next, Student, Staff, StartStep, PollStep, CheckIn, BeginStart, AutosaveAnswer,
      AutosaveLate, SubmitAttempt, Close, ActivateSession, ClearSessions,
      TelemetryViolation, MarkGraded, StartBind, StartDevice, StartRebind, StartFails, PollSweep,
      PollSubmit, PollActivate, attemptRow, vars

\* Without unlocks and extra time, changing phones never gives a student more
\* time than was left.
THEOREM NoTimeIsGained ==
  ASSUME Undisturbed
  PROVE  Spec => NoTimeGained
<1>1. TimedInv /\ [Next]_vars => TimedInv'
  BY TimedNext
<1>2. TimedInv /\ [Next]_vars => [status # "ABSENT" => TimeLeft' <= TimeLeft]_vars
  BY TimeShrinks
<1> QED
  BY TimedInit, <1>1, <1>2, PTL DEF Spec, NoTimeGained
=============================================================================

------------------------- MODULE SchoolExamsProofs --------------------------
(***************************************************************************)
(* What the services keep of the exams, for every school and every         *)
(* argument: one session a schedule, questions for the exams that are      *)
(* ready, exams that have begun, no new clash, packages of questions in    *)
(* order and complete, and what is locked in a report.  A part of the      *)
(* school whose tables a service leaves alone it keeps by that; the others *)
(* have a lemma each.                                                      *)
(***************************************************************************)
EXTENDS SchoolServicesProofs

\* The tables of T are in v as they are in d.
Alone(d, v, T) == v \in Database /\ \A t \in T : v[t] = d[t]

-----------------------------------------------------------------------------
(* The plan of the exams: rooms, questions, clashes.                       *)

\* The package of a schedule, if it names one, is there.
Filed(d, e) == d.schedules[e].package # Null => d.packages[d.schedules[e].package] # Null

\* No service deletes an exam that has begun, nor what is frozen for it, nor
\* takes the package from under it (a cascade would follow).
HeldKept(d, v) ==
  \A e \in Rows(d, "schedules") : Held(d, e) =>
    /\ e \in Rows(v, "schedules") /\ SnapshotsOf(d, e) \subseteq Rows(v, "snapshots")
    /\ Filed(d, e) => Filed(v, e)

\* Two exams that overlap in v did so in d, or one had been called off.
ClashKept(d, v) ==
  \A e, f : Clash(v, e, f) => \/ Clash(d, e, f)
                              \/ {e, f} \cap InStatus(d, "schedules", {"CANCELLED"}) # {}

\* An exam that is ready in v without its questions was there in d without
\* them.
ReadyKept(d, v) ==
  \A e : Bare(v, e) => e \in Rows(d, "schedules") /\ SnapshotsOf(d, e) = {}

\* What services on schedules keep.
PlanKept(d, v) ==
  /\ RoomsFit(d) => RoomsFit(v)
  /\ ReadyKept(d, v)
  /\ HeldKept(d, v)
  /\ ClashKept(d, v)

\* The exams of v are exams of d that were not moved.
Unmoved(d, v) ==
  \A e \in Rows(v, "schedules") :
    /\ e \in Rows(d, "schedules")
    /\ v.schedules[e].class = d.schedules[e].class /\ v.schedules[e].slot = d.schedules[e].slot

\* Exams that were not moved clash as they did.
LEMMA UnmovedClash ==
  ASSUME NEW d, NEW v, Unmoved(d, v)
  PROVE  ClashKept(d, v)
<1> SUFFICES ASSUME NEW e, NEW f, Clash(v, e, f),
                    {e, f} \cap InStatus(d, "schedules", {"CANCELLED"}) = {}
             PROVE  Clash(d, e, f)
  BY DEF ClashKept
<1>1. e \in Rows(v, "schedules") /\ f \in Rows(v, "schedules") /\ e # f
  BY DEF Clash
<1>2. /\ e \in Rows(d, "schedules") /\ f \in Rows(d, "schedules")
      /\ v.schedules[e].class = d.schedules[e].class /\ v.schedules[e].slot = d.schedules[e].slot
      /\ v.schedules[f].class = d.schedules[f].class /\ v.schedules[f].slot = d.schedules[f].slot
  BY <1>1 DEF Unmoved
<1>3. v.schedules[e].class = v.schedules[f].class /\ Overlap(v.schedules[e].slot, v.schedules[f].slot)
  BY DEF Clash
<1> QED  BY <1>1, <1>2, <1>3 DEF Clash

\* Sessions fit as long as nobody writes them.
LEMMA RoomsFrame ==
  ASSUME NEW d, NEW v, v.sessions = d.sessions, RoomsFit(d)
  PROVE  RoomsFit(v)
  BY DEF RoomsFit, Rows

\* Exams that are ready are left with their questions as long as none is
\* added as ready and nobody writes the snapshots.
LEMMA ReadyFrame ==
  ASSUME NEW d, NEW v, v.snapshots = d.snapshots, Startable(v) \subseteq Rows(d, "schedules")
  PROVE  ReadyKept(d, v)
<1>1. \A e : SnapshotsOf(v, e) = SnapshotsOf(d, e)
  BY DEF SnapshotsOf, Rows
<1> QED  BY <1>1 DEF ReadyKept, Bare

\* Whoever leaves the tables of schedules alone keeps all of it.
LEMMA PlanFrame ==
  ASSUME NEW d \in Database, NEW v, Alone(d, v, PlanTables)
  PROVE  PlanKept(d, v)
<1>1. /\ v.packages = d.packages /\ v.schedules = d.schedules /\ v.snapshots = d.snapshots
      /\ v.sessions = d.sessions
  BY DEF Alone, PlanTables
<1>2. Unmoved(d, v)
  BY <1>1 DEF Unmoved, Rows
<1>3. HeldKept(d, v)
  BY <1>1 DEF HeldKept, Filed, SnapshotsOf, Rows
<1>4. Startable(v) \subseteq Rows(d, "schedules")
  BY <1>1 DEF Startable, InStatus, Rows
<1> QED  BY <1>1, <1>2, <1>3, <1>4, UnmovedClash, RoomsFrame, ReadyFrame DEF PlanKept

\* Nothing but the status, the package and the proctor of exams is written.
Restated(d, v, hit, st, loose) ==
  /\ v \in Database /\ Rows(v, "schedules") = Rows(d, "schedules")
  /\ \A e \in Rows(d, "schedules") :
       /\ v.schedules[e].class = d.schedules[e].class /\ v.schedules[e].slot = d.schedules[e].slot
       /\ v.schedules[e].status = IF e \in hit THEN st ELSE d.schedules[e].status
       /\ v.schedules[e].package = IF loose /\ e \in hit THEN Null ELSE d.schedules[e].package

\* What Set leaves, row by row.
SetTo(d, v, t, hit, col, x) ==
  /\ v \in Database /\ SameBut(d, v, {t}) /\ Rows(v, t) = Rows(d, t)
  /\ \A i \in Rows(d, t) : v[t][i] = IF i \in hit THEN [d[t][i] EXCEPT ![col] = x] ELSE d[t][i]

\* What Set leaves, if it leaves rows of the table.
LEMMA SetValues ==
  ASSUME NEW d \in Database, NEW t \in Tables, NEW hit \in SUBSET Rows(d, t), NEW col, NEW x,
         \A i \in hit : [d[t][i] EXCEPT ![col] = x] \in Rowset[t]
  PROVE  SetTo(d, Set(d, t, hit, col, x), t, hit, col, x)
<1> DEFINE v == Set(d, t, hit, col, x)
<1>0. \A i \in hit \cap Ids[t] : [d[t][i] EXCEPT ![col] = x] \in Opt(Rowset[t])
  BY DEF Opt
<1>1. v \in Database
  BY <1>0, SetTyped
<1>2. SameBut(d, v, {t})
  BY SetSame
<1>3. Rows(v, t) = Rows(d, t)
  BY SetRows
<1>4. v[t] = [i \in Ids[t] |-> IF i \in hit THEN [d[t][i] EXCEPT ![col] = x] ELSE d[t][i]]
  BY SetIs
<1>5. Rows(d, t) \subseteq Ids[t]
  BY DatabaseIs DEF Rows, Table
<1> HIDE DEF v
<1>6. SetTo(d, v, t, hit, col, x)
  BY <1>1, <1>2, <1>3, <1>4, <1>5 DEF SetTo
<1> QED  BY <1>6 DEF v

\* A status set is a restatement.
LEMMA StatusRestates ==
  ASSUME NEW d \in Database, NEW hit \in SUBSET Rows(d, "schedules"), NEW x \in ScheduleStatus
  PROVE  LET v == Set(d, "schedules", hit, "status", x)
         IN Restated(d, v, hit, x, FALSE) /\ SameBut(d, v, {"schedules"})
<1> DEFINE v == Set(d, "schedules", hit, "status", x)
<1>1. \A i \in Rows(d, "schedules") : d.schedules[i] \in Schedule
  BY RowsAre
<1>2. \A i \in hit : [d["schedules"][i] EXCEPT !["status"] = x] \in Rowset["schedules"]
  BY <1>1, RowsetIs DEF Schedule
<1>3. SetTo(d, v, "schedules", hit, "status", x)
  BY <1>2, SetValues, TableNames
<1> HIDE DEF v
<1>4. Restated(d, v, hit, x, FALSE)
  BY <1>1, <1>3 DEF Restated, Schedule, SetTo
<1> QED  BY <1>3, <1>4 DEF v, SetTo

\* So is calling exams off, which takes them out of their package.
LEMMA CancelRestates ==
  ASSUME NEW d \in Database, NEW hit \in SUBSET Rows(d, "schedules")
  PROVE  LET v == Set2(d, hit, "status", "CANCELLED", "package", Null)
         IN Restated(d, v, hit, "CANCELLED", TRUE) /\ SameBut(d, v, {"schedules"})
<1> DEFINE w == Set(d, "schedules", hit, "status", "CANCELLED")
           v == Set(w, "schedules", hit, "package", Null)
<1>1. Restated(d, w, hit, "CANCELLED", FALSE) /\ SameBut(d, w, {"schedules"})
  BY StatusRestates DEF ScheduleStatus
<1> HIDE DEF w
<1>2. w \in Database /\ hit \in SUBSET Rows(w, "schedules") /\ \A i \in Rows(w, "schedules") : w.schedules[i] \in Schedule
  BY <1>1, RowsAre DEF Restated
<1>3. \A i \in hit : [w["schedules"][i] EXCEPT !["package"] = Null] \in Rowset["schedules"]
  BY <1>2, RowsetIs DEF Schedule, Opt
<1>4. SetTo(w, v, "schedules", hit, "package", Null)
  BY <1>2, <1>3, SetValues, TableNames
<1> HIDE DEF v
<1>5. Restated(w, v, hit, "CANCELLED", TRUE)
  <2>1. \A i \in hit : w.schedules[i].status = "CANCELLED"
    BY <1>1 DEF Restated
  <2> QED  BY <1>2, <1>4, <2>1 DEF Restated, Schedule, SetTo
<1>6. Restated(d, v, hit, "CANCELLED", TRUE) /\ SameBut(d, v, {"schedules"})
  BY <1>1, <1>4, <1>5 DEF Restated, SameBut, SetTo
<1> QED  BY <1>6 DEF v, w, Set2

\* Restated exams were not moved.
LEMMA RestatedUnmoved ==
  ASSUME NEW d, NEW v, NEW hit, NEW st, NEW loose, Restated(d, v, hit, st, loose)
  PROVE  Unmoved(d, v)
  BY DEF Restated, Unmoved

\* Exams are restated.
LEMMA RestatedKept ==
  ASSUME NEW d \in Database, NEW v, NEW hit, NEW st, NEW loose \in BOOLEAN,
         Restated(d, v, hit, st, loose), v.snapshots = d.snapshots, v.sessions = d.sessions,
         \A p \in Opt(Ids.packages) : p # Null /\ d.packages[p] # Null => v.packages[p] # Null
  PROVE  PlanKept(d, v)
<1>1. Startable(v) \subseteq Rows(d, "schedules")
  BY DEF Restated, Startable, InStatus
<1>2. \A e \in Rows(d, "schedules") : d.schedules[e].package \in Opt(Ids.packages)
  BY RowsAre DEF Schedule
<1>3. HeldKept(d, v)
  BY <1>2 DEF HeldKept, Filed, Restated, SnapshotsOf, Rows
<1> QED  BY <1>1, <1>3, RestatedUnmoved, UnmovedClash, RoomsFrame, ReadyFrame DEF PlanKept

\* What writes schedules alone leaves the rest of the plan.
LEMMA ScheduleTables ==
  ASSUME NEW d, NEW v, SameBut(d, v, {"schedules"})
  PROVE  v.packages = d.packages /\ v.snapshots = d.snapshots /\ v.sessions = d.sessions
  BY TableNames DEF SameBut

\* Restating exams alone keeps the plan.
LEMMA ScheduleSteps ==
  ASSUME NEW d \in Database, NEW v, NEW hit, NEW st, NEW loose \in BOOLEAN,
         Restated(d, v, hit, st, loose), SameBut(d, v, {"schedules"})
  PROVE  PlanKept(d, v)
  BY ScheduleTables, RestatedKept

\* What planning does: exams are added, as drafts, that clash with none.
Planned(d, v) ==
  /\ v \in Database /\ SameBut(d, v, {"schedules"})
  /\ \A e \in Rows(d, "schedules") : e \in Rows(v, "schedules") /\ v.schedules[e] = d.schedules[e]
  /\ \A e \in Rows(v, "schedules") \ Rows(d, "schedules") : v.schedules[e].status = "DRAFT"
  /\ \A e, f : Clash(v, e, f) => Clash(d, e, f)

\* Nothing planned is planning.
LEMMA PlannedStays ==
  ASSUME NEW d \in Database
  PROVE  Planned(d, d)
  BY DEF Planned, SameBut

\* Plans go on from plans.
LEMMA PlannedTrans ==
  ASSUME NEW d, NEW v, NEW w, Planned(d, v), Planned(v, w)
  PROVE  Planned(d, w)
<1>1. w \in Database /\ SameBut(d, w, {"schedules"}) /\ \A e, f : Clash(w, e, f) => Clash(d, e, f)
  BY DEF Planned, SameBut
<1>2. \A e \in Rows(d, "schedules") : e \in Rows(w, "schedules") /\ w.schedules[e] = d.schedules[e]
  BY DEF Planned
<1>3. \A e \in Rows(w, "schedules") \ Rows(d, "schedules") : w.schedules[e].status = "DRAFT"
  BY DEF Planned
<1> QED  BY <1>1, <1>2, <1>3 DEF Planned

\* Planning keeps the plan: what is added is a draft.
LEMMA PlannedKept ==
  ASSUME NEW d, NEW v, Planned(d, v)
  PROVE  PlanKept(d, v)
<1>1. v.packages = d.packages /\ v.snapshots = d.snapshots /\ v.sessions = d.sessions
  BY ScheduleTables DEF Planned
<1>2. Startable(v) \subseteq Rows(d, "schedules")
  BY DEF Planned, Startable, InStatus
<1>3. HeldKept(d, v)
  BY <1>1 DEF HeldKept, Planned, Filed, SnapshotsOf, Rows
<1> QED  BY <1>1, <1>2, <1>3, RoomsFrame, ReadyFrame DEF PlanKept, ClashKept, Planned

\* Overlapping is mutual.
LEMMA OverlapTurns ==
  ASSUME NEW p \in Slot, NEW q \in Slot, Overlap(p, q)
  PROVE  Overlap(q, p)
  BY DEF Overlap, Slot

\* create_schedule looks for a clash before it adds an exam.
LEMMA CreateSchedulePlans ==
  ASSUME NEW d \in Database, NEW p \in Opt(Ids.packages), NEW y, NEW m, NEW k, NEW s,
         NEW slot \in Nat \X Nat, NEW proctor,
         NEW v \in CreateSchedule(d, p, y, m, k, s, slot, proctor)
  PROVE  Planned(d, v)
<1> DEFINE row == [package |-> p, year |-> y, semester |-> m, class |-> k, subject |-> s,
                   teacher |-> d.teaching[<<k, s>>].teacher, proctor |-> proctor, slot |-> slot,
                   status |-> "DRAFT"]
           n == New(d, "schedules")
<1>1. /\ Ordered(slot) /\ y \in Rows(d, "years") /\ m \in SemestersOf(d, y)
      /\ k \in Rows(d, "classes") /\ s \in Rows(d, "subjects")
      /\ d.teaching[<<k, s>>] # Null
      /\ proctor # Null => proctor \in Rows(d, "accounts")
      /\ ClassClashes(d, k, slot) = {} /\ Free(d, "schedules") # {}
      /\ v = Insert(d, "schedules", row)
  BY DEF CreateSchedule, Given
<1>2. /\ y \in Ids.years /\ m \in Ids.semesters /\ k \in Ids.classes /\ s \in Ids.subjects
      /\ proctor \in Opt(Ids.accounts) /\ slot \in Slot
  BY <1>1, RowsAre DEF SemestersOf, Opt, Ordered, Slot
<1>3. d.teaching[<<k, s>>].teacher \in Ids.accounts
  BY <1>1, <1>2, TaughtRow
<1>4. row \in Schedule /\ row.status = "DRAFT" /\ row.class = k /\ row.slot = slot
  BY <1>2, <1>3 DEF Schedule, ScheduleStatus
<1> HIDE DEF row
<1>5. v \in Database /\ SameBut(d, v, {"schedules"})
  BY <1>1, <1>4, RowsetIs, InsertTyped, InsertSame, TableNames
<1>6. /\ n \notin Rows(d, "schedules") /\ Rows(v, "schedules") = Rows(d, "schedules") \cup {n}
      /\ v["schedules"][n] = row /\ \A i \in Rows(d, "schedules") : v["schedules"][i] = d["schedules"][i]
  BY <1>1, <1>4, RowsetIs, IdsAre, TableNames, NewRow
<1> HIDE DEF n
<1>7. \A e \in Rows(v, "schedules") : v.schedules[e].slot \in Slot
  BY <1>5, RowsAre DEF Schedule
<1>8. ASSUME NEW e, NEW f, Clash(v, e, f) PROVE Clash(d, e, f)
  <2>1. /\ e \in Rows(v, "schedules") /\ f \in Rows(v, "schedules") /\ e # f
        /\ v.schedules[e].status # "CANCELLED" /\ v.schedules[f].status # "CANCELLED"
        /\ v.schedules[e].class = v.schedules[f].class
        /\ Overlap(v.schedules[e].slot, v.schedules[f].slot)
        /\ Overlap(v.schedules[f].slot, v.schedules[e].slot)
    BY <1>7, <1>8, OverlapTurns DEF Clash, InStatus
  <2>2. e # n /\ f # n
    BY <1>1, <1>4, <1>6, <2>1 DEF ClassClashes
  <2> QED  BY <1>6, <1>8, <2>1, <2>2 DEF Clash, InStatus
<1>9. \A e \in Rows(v, "schedules") \ Rows(d, "schedules") : v.schedules[e].status = "DRAFT"
  BY <1>4, <1>6
<1> QED  BY <1>5, <1>6, <1>8, <1>9 DEF Planned

\* update_schedule looks for a clash with the others of the class first.
LEMMA UpdateSchedulePlans ==
  ASSUME NEW d \in Database, NEW e, NEW m, NEW k \in Opt(Ids.classes), NEW s \in Opt(Ids.subjects),
         NEW slot \in Opt(Nat \X Nat), NEW proctor \in Opt(Ids.accounts),
         NEW status \in Opt(ScheduleStatus),
         NEW v \in UpdateSchedule(d, e, m, k, s, slot, proctor, status)
  PROVE  PlanKept(d, v)
<1> DEFINE old == d.schedules[e]
           Keep(x, col) == IF x = Null THEN old[col] ELSE x
           pair == <<Keep(k, "class"), Keep(s, "subject")>>
           placed == k # Null \/ s # Null
           row == [old EXCEPT !.semester = Keep(m, "semester"), !.class = pair[1],
                                !.subject = pair[2], !.slot = Keep(slot, "slot"),
                                !.proctor = Keep(proctor, "proctor"),
                                !.status = Keep(status, "status"),
                                !.teacher = IF placed THEN d.teaching[pair].teacher ELSE @]
<1>1. /\ e \in Rows(d, "schedules") /\ Ordered(Keep(slot, "slot"))
      /\ ClassClashes(d, Keep(k, "class"), Keep(slot, "slot")) \subseteq {e}
      /\ m # Null => m \in SemestersOf(d, old.year)
      /\ placed => d.teaching[pair] # Null
      /\ v = Put(d, "schedules", e, row)
  BY DEF UpdateSchedule, Given
<1>2. old \in Schedule /\ e \in Ids["schedules"]
  BY <1>1, RowsAre
<1>3. v \in Database
  BY UpdateScheduleServed, LeavingServes
<1>4. row.package = old.package /\ row.class = Keep(k, "class") /\ row.slot = Keep(slot, "slot")
  BY <1>2 DEF Schedule
<1>15. row \in Schedule
  <2>1. /\ Keep(m, "semester") \in Ids.semesters /\ Keep(k, "class") \in Ids.classes
        /\ Keep(s, "subject") \in Ids.subjects /\ Keep(proctor, "proctor") \in Opt(Ids.accounts)
        /\ Keep(status, "status") \in ScheduleStatus
    BY <1>1, <1>2, RowsAre DEF SemestersOf, Opt, Schedule, ScheduleStatus
  <2>2. Keep(slot, "slot") \in Slot
    BY <1>1, <1>2 DEF Opt, Schedule, Slot, Ordered
  <2>3. placed => d.teaching[pair].teacher \in Ids.accounts
    BY <1>1, <2>1, TaughtRow
  <2> HIDE DEF Keep, placed
  <2> QED  BY <1>2, <2>1, <2>2, <2>3 DEF Schedule
<1> HIDE DEF row
<1>6. SameBut(d, v, {"schedules"}) /\ v["schedules"] = [j \in Ids["schedules"] |-> IF j = e THEN row ELSE d["schedules"][j]]
  BY <1>1, PutSame, PutIs, TableNames
<1>7. d["schedules"] \in [Ids["schedules"] -> Opt(Rowset["schedules"])]
  BY DatabaseIs, TableNames DEF Table
<1>8. /\ v.schedules[e] = row
      /\ \A f \in Rows(v, "schedules") : f \in Rows(d, "schedules") /\ (f # e => v.schedules[f] = d.schedules[f])
      /\ \A f \in Rows(d, "schedules") : f # e => f \in Rows(v, "schedules") /\ v.schedules[f] = d.schedules[f]
  BY <1>1, <1>2, <1>6, <1>7 DEF Rows
<1>9. e \in Rows(v, "schedules")
  BY <1>1, <1>2, <1>15, PutRows, RowsetIs, TableNames
<1>10. \A f \in Rows(v, "schedules") : v.schedules[f].slot \in Slot
  BY <1>3, RowsAre DEF Schedule
<1> HIDE DEF Keep
<1>11. ASSUME NEW f, NEW g, Clash(v, f, g), {f, g} \cap InStatus(d, "schedules", {"CANCELLED"}) = {}
       PROVE  Clash(d, f, g)
  <2>1. /\ f \in Rows(v, "schedules") /\ g \in Rows(v, "schedules") /\ f # g
        /\ v.schedules[f].status # "CANCELLED" /\ v.schedules[g].status # "CANCELLED"
        /\ v.schedules[f].class = v.schedules[g].class
        /\ Overlap(v.schedules[f].slot, v.schedules[g].slot)
        /\ Overlap(v.schedules[g].slot, v.schedules[f].slot)
    BY <1>10, <1>11, OverlapTurns DEF Clash, InStatus
  <2>2. f # e /\ g # e
    BY <1>1, <1>4, <1>8, <2>1 DEF ClassClashes
  <2> QED  BY <1>8, <1>11, <2>1, <2>2 DEF Clash, InStatus
<1>12. v.packages = d.packages /\ v.snapshots = d.snapshots /\ v.sessions = d.sessions
  BY <1>6, ScheduleTables
<1>13. Startable(v) \subseteq Rows(d, "schedules")
  BY <1>8 DEF Startable, InStatus
<1>14. \A f \in Rows(d, "schedules") : f \in Rows(v, "schedules") /\ v.schedules[f].package = d.schedules[f].package
  BY <1>4, <1>8, <1>9
<1>16. HeldKept(d, v)
  BY <1>12, <1>14 DEF HeldKept, Filed, SnapshotsOf, Rows
<1> QED  BY <1>11, <1>12, <1>13, <1>16, RoomsFrame, ReadyFrame DEF PlanKept, ClashKept

\* What Drop leaves, row by row.
DropTo(d, v, t, gone) ==
  /\ v \in Database /\ SameBut(d, v, {t}) /\ Rows(v, t) = Rows(d, t) \ gone
  /\ \A i \in Rows(v, t) : v[t][i] = d[t][i]

\* What Insert leaves, row by row.
AddTo(d, v, t, n, row) ==
  /\ v \in Database /\ SameBut(d, v, {t}) /\ n \notin Rows(d, t)
  /\ Rows(v, t) = Rows(d, t) \cup {n} /\ v[t][n] = row
  /\ \A i \in Rows(d, t) : v[t][i] = d[t][i]

\* What Drop leaves.
LEMMA DropValues ==
  ASSUME NEW d \in Database, NEW t \in Tables, NEW gone
  PROVE  DropTo(d, Drop(d, t, gone), t, gone)
<1> DEFINE v == Drop(d, t, gone)
<1>1. v \in Database /\ SameBut(d, v, {t}) /\ Rows(v, t) = Rows(d, t) \ gone
  BY DropTyped, DropSame, DropRows
<1>2. v[t] = [i \in Ids[t] |-> IF i \in gone THEN Null ELSE d[t][i]]
  BY DropIs
<1> HIDE DEF v
<1>3. \A i \in Rows(v, t) : v[t][i] = d[t][i]
  BY <1>2 DEF Rows
<1>4. DropTo(d, v, t, gone)
  BY <1>1, <1>3 DEF DropTo
<1> QED  BY <1>4 DEF v

\* What Insert leaves.
LEMMA AddValues ==
  ASSUME NEW d \in Database, NEW t \in Tables, Ids[t] \subseteq Nat, Free(d, t) # {},
         NEW row \in Rowset[t]
  PROVE  AddTo(d, Insert(d, t, row), t, New(d, t), row)
<1> DEFINE v == Insert(d, t, row)
           n == New(d, t)
<1>1. v \in Database /\ SameBut(d, v, {t})
  BY InsertTyped, InsertSame
<1>2. /\ n \in Ids[t] \ Rows(d, t) /\ Rows(v, t) = Rows(d, t) \cup {n} /\ v[t][n] = row
      /\ \A i \in Rows(d, t) : v[t][i] = d[t][i]
  BY NewRow
<1> HIDE DEF v, n
<1>3. AddTo(d, v, t, n, row)
  BY <1>1, <1>2 DEF AddTo
<1> QED  BY <1>3 DEF v, n

\* What taking exams back does: the questions of some, held by nobody, are
\* unfrozen, and these are not ready any more, if they are there at all.
Thinned(d, v, bare) ==
  /\ Unmoved(d, v)
  /\ Rows(d, "schedules") \ bare \subseteq Rows(v, "schedules")
  /\ \A e \in bare : ~Held(d, e)
  /\ Startable(v) \cap bare = {}
  /\ \A i \in Rows(d, "snapshots") : d.snapshots[i].schedule \notin bare =>
       i \in Rows(v, "snapshots") /\ v.snapshots[i] = d.snapshots[i]
  /\ \A i \in Rows(v, "sessions") :
       i \in Rows(d, "sessions") /\ v.sessions[i].schedule = d.sessions[i].schedule
  /\ \A e \in Rows(v, "schedules") : Filed(d, e) => Filed(v, e)

\* Exams that are not held may go.
LEMMA ThinnedKept ==
  ASSUME NEW d, NEW v, NEW bare, Thinned(d, v, bare)
  PROVE  PlanKept(d, v)
<1>1. RoomsFit(d) => RoomsFit(v)
  BY DEF RoomsFit, Thinned
<1>2. \A e : e \notin bare => SnapshotsOf(d, e) \subseteq SnapshotsOf(v, e)
  BY DEF Thinned, SnapshotsOf
<1>3. ReadyKept(d, v)
  <2> SUFFICES ASSUME NEW e, Bare(v, e)
               PROVE  e \in Rows(d, "schedules") /\ SnapshotsOf(d, e) = {}
    BY DEF ReadyKept
  <2>1. e \in Startable(v) /\ SnapshotsOf(v, e) = {}
    BY DEF Bare
  <2>2. e \in Rows(v, "schedules") /\ e \notin bare
    BY <2>1 DEF Thinned, Startable, InStatus
  <2> QED  BY <1>2, <2>1, <2>2 DEF Thinned, Unmoved
<1>4. HeldKept(d, v)
  <2> SUFFICES ASSUME NEW e \in Rows(d, "schedules"), Held(d, e)
               PROVE  /\ e \in Rows(v, "schedules") /\ SnapshotsOf(d, e) \subseteq Rows(v, "snapshots")
                      /\ Filed(d, e) => Filed(v, e)
    BY DEF HeldKept
  <2>1. e \notin bare
    BY DEF Thinned
  <2>2. e \in Rows(v, "schedules")
    BY <2>1 DEF Thinned
  <2> QED  BY <1>2, <2>1, <2>2 DEF Thinned, SnapshotsOf
<1>5. Unmoved(d, v)
  BY DEF Thinned
<1> QED  BY <1>1, <1>3, <1>4, <1>5, UnmovedClash DEF PlanKept

\* A proctor is assigned.
LEMMA AssignProctorPlans ==
  ASSUME NEW d \in Database, NEW e, NEW a, NEW v \in AssignProctor(d, e, a)
  PROVE  PlanKept(d, v)
<1>1. e \in Rows(d, "schedules") /\ a \in Opt(Ids.accounts)
      /\ v = Set(d, "schedules", {e}, "proctor", a)
  BY RowsAre DEF AssignProctor, Given, Opt
<1>2. \A i \in Rows(d, "schedules") : d.schedules[i] \in Schedule
  BY RowsAre
<1>3. \A i \in {e} : [d["schedules"][i] EXCEPT !["proctor"] = a] \in Rowset["schedules"]
  BY <1>1, <1>2, RowsetIs DEF Schedule
<1>4. {e} \in SUBSET Rows(d, "schedules")
  BY <1>1
<1>5. SetTo(d, v, "schedules", {e}, "proctor", a)
  BY <1>1, <1>3, <1>4, SetValues, TableNames
<1>6. \A i \in Rows(v, "schedules") :
        /\ i \in Rows(d, "schedules") /\ v.schedules[i].class = d.schedules[i].class
        /\ v.schedules[i].slot = d.schedules[i].slot /\ v.schedules[i].status = d.schedules[i].status
        /\ v.schedules[i].package = d.schedules[i].package
  BY <1>2, <1>5 DEF SetTo, Schedule
<1>7. v.packages = d.packages /\ v.snapshots = d.snapshots /\ v.sessions = d.sessions
  BY <1>5, ScheduleTables DEF SetTo
<1>8. Thinned(d, v, {})
  BY <1>5, <1>6, <1>7 DEF Thinned, SetTo, Unmoved, Rows, Filed
<1> QED  BY <1>8, ThinnedKept

\* delete_schedule deletes what has not begun.
LEMMA DeleteSchedulePlans ==
  ASSUME NEW d \in Database, NEW e, NEW v \in DeleteSchedule(d, e)
  PROVE  PlanKept(d, v)
<1>1. e \in Rows(d, "schedules")
  BY DEF DeleteSchedule, Given
<1>2. CASE v = Set2(d, {e}, "status", "CANCELLED", "package", Null)
  <2>1. {e} \in SUBSET Rows(d, "schedules")
    BY <1>1
  <2>2. Restated(d, v, {e}, "CANCELLED", TRUE) /\ SameBut(d, v, {"schedules"})
    BY <1>2, <2>1, CancelRestates
  <2> QED  BY <2>2, ScheduleSteps
<1>3. CASE /\ SessionsOf(d, e) = {}
           /\ v = Drop(Drop(d, "snapshots", SnapshotsOf(d, e)), "schedules", {e})
  <2> DEFINE w == Drop(d, "snapshots", SnapshotsOf(d, e))
  <2>1. DropTo(d, w, "snapshots", SnapshotsOf(d, e))
    BY DropValues, TableNames
  <2> HIDE DEF w
  <2>2. DropTo(w, v, "schedules", {e})
    BY <1>3, <2>1, DropValues, TableNames DEF w, DropTo
  <2>3. v.packages = d.packages /\ v.sessions = d.sessions /\ v.snapshots = w.snapshots
        /\ w.schedules = d.schedules
    BY <2>1, <2>2, TableNames DEF DropTo, SameBut
  <2>4. /\ Rows(v, "schedules") = Rows(d, "schedules") \ {e}
        /\ \A i \in Rows(v, "schedules") : v.schedules[i] = d.schedules[i]
    BY <2>2, <2>3 DEF DropTo, Rows
  <2>5. \A i \in Rows(d, "snapshots") : d.snapshots[i].schedule # e =>
          i \in Rows(v, "snapshots") /\ v.snapshots[i] = d.snapshots[i]
    BY <2>1, <2>3 DEF DropTo, Rows, SnapshotsOf
  <2>6. ~Held(d, e)
    BY <1>3 DEF Held
  <2>7. Thinned(d, v, {e})
    BY <2>3, <2>4, <2>5, <2>6 DEF Thinned, Unmoved, Startable, InStatus, Rows, Filed
  <2> QED  BY <2>7, ThinnedKept
<1> QED  BY <1>1, <1>2, <1>3 DEF DeleteSchedule, Given

\* A package of schedules is made.
LEMMA CreateSchedulePackagePlans ==
  ASSUME NEW d \in Database, NEW y, NEW v \in CreateSchedulePackage(d, y)
  PROVE  PlanKept(d, v)
<1> DEFINE row == [year |-> y, closed |-> FALSE]
           n == New(d, "packages")
<1>1. y \in Rows(d, "years") /\ Free(d, "packages") # {} /\ v = Insert(d, "packages", row)
  BY DEF CreateSchedulePackage, Given
<1>2. row \in Rowset["packages"]
  BY <1>1, RowsAre, RowsetIs DEF SchedulePackage
<1> HIDE DEF row
<1>3. AddTo(d, v, "packages", n, row)
  BY <1>1, <1>2, AddValues, IdsAre, TableNames
<1> HIDE DEF n
<1>4. v.schedules = d.schedules /\ v.sessions = d.sessions /\ v.snapshots = d.snapshots
  BY <1>3, TableNames DEF AddTo, SameBut
<1>5. \A p : p \in Rows(d, "packages") => p \in Rows(v, "packages")
  BY <1>3 DEF AddTo
<1>6. DOMAIN d.packages = Ids.packages
  BY DatabaseIs, TableNames DEF Table
<1>7. \A e \in Rows(d, "schedules") : d.schedules[e].package \in Opt(Ids.packages)
  BY RowsAre DEF Schedule
<1>8. \A e \in Rows(v, "schedules") : Filed(d, e) => Filed(v, e)
  BY <1>4, <1>5, <1>6, <1>7 DEF Filed, Rows, Opt
<1>9. Thinned(d, v, {})
  BY <1>4, <1>8 DEF Thinned, Unmoved, Rows
<1> QED  BY <1>9, ThinnedKept

\* A package of schedules is deleted with the exams that are not held; those
\* that are held are called off and taken out of it first.
LEMMA DeleteSchedulePackagePlans ==
  ASSUME NEW d \in Database, NEW p, NEW v \in DeleteSchedulePackage(d, p)
  PROVE  PlanKept(d, v)
<1> DEFINE held == {e \in SchedulesIn(d, p) : Held(d, e)}
           gone == SchedulesIn(d, p) \ held
           kept == Set2(d, held, "status", "CANCELLED", "package", Null)
           frozen == UNION {SnapshotsOf(d, e) : e \in gone}
           rooms == UNION {SessionsOf(d, e) : e \in gone}
           thawed == Drop(kept, "snapshots", frozen)
           emptied == Drop(thawed, "sessions", rooms)
           rest == Drop(emptied, "schedules", gone)
<1>1. p \in Rows(d, "packages") /\ v = Drop(rest, "packages", {p})
  BY DEF DeleteSchedulePackage, Given
<1>2. Restated(d, kept, held, "CANCELLED", TRUE) /\ SameBut(d, kept, {"schedules"})
  BY CancelRestates DEF SchedulesIn
<1>3. /\ held \cup gone = SchedulesIn(d, p) /\ \A e \in gone : ~Held(d, e)
      /\ \A i \in Rows(d, "snapshots") : d.snapshots[i].schedule \notin gone => i \notin frozen
  BY DEF SnapshotsOf
<1> HIDE DEF kept, held, gone, frozen, rooms
<1>4. DropTo(kept, thawed, "snapshots", frozen)
  BY <1>2, DropValues, TableNames DEF Restated
<1> HIDE DEF thawed
<1>5. DropTo(thawed, emptied, "sessions", rooms)
  BY <1>4, DropValues, TableNames DEF DropTo
<1> HIDE DEF emptied
<1>6. DropTo(emptied, rest, "schedules", gone)
  BY <1>5, DropValues, TableNames DEF DropTo
<1> HIDE DEF rest
<1>7. DropTo(rest, v, "packages", {p})
  BY <1>1, <1>6, DropValues, TableNames DEF DropTo
<1>8. /\ v.schedules = rest.schedules /\ emptied.schedules = kept.schedules
      /\ v.snapshots = thawed.snapshots /\ kept.snapshots = d.snapshots
      /\ v.sessions = emptied.sessions /\ thawed.sessions = d.sessions
      /\ rest.packages = d.packages
  BY <1>2, <1>4, <1>5, <1>6, <1>7, TableNames DEF DropTo, SameBut
<1>9. \A e \in Rows(v, "schedules") : e \in Rows(d, "schedules") \ gone /\ v.schedules[e] = kept.schedules[e]
  BY <1>2, <1>6, <1>8 DEF DropTo, Rows, Restated
<1>10. Rows(d, "schedules") \ gone \subseteq Rows(v, "schedules")
  BY <1>2, <1>6, <1>8 DEF DropTo, Rows, Restated
<1>11. Unmoved(d, v)
  BY <1>2, <1>9 DEF Unmoved, Restated
<1>12. Startable(v) \cap gone = {}
  BY <1>9 DEF Startable, InStatus
<1>13. \A i \in Rows(d, "snapshots") : d.snapshots[i].schedule \notin gone =>
         i \in Rows(v, "snapshots") /\ v.snapshots[i] = d.snapshots[i]
  BY <1>3, <1>4, <1>8 DEF DropTo, Rows
<1>14. \A i \in Rows(v, "sessions") :
         i \in Rows(d, "sessions") /\ v.sessions[i].schedule = d.sessions[i].schedule
  BY <1>5, <1>8 DEF DropTo, Rows
<1>15. \A q \in Ids.packages : q # p => v.packages[q] = d.packages[q]
  <2>1. DOMAIN d.packages = Ids.packages /\ DOMAIN v.packages = Ids.packages
    BY <1>7, DatabaseIs, TableNames DEF Table, DropTo
  <2>2. v["packages"] = [q \in Ids["packages"] |-> IF q \in {p} THEN Null ELSE rest["packages"][q]]
    BY <1>1, <1>6, DropIs, TableNames DEF DropTo
  <2> QED  BY <1>8, <2>2
<1>16. \A e \in Rows(d, "schedules") : d.schedules[e].package \in Opt(Ids.packages)
  BY RowsAre DEF Schedule
<1>17. ASSUME NEW e \in Rows(v, "schedules"), Filed(d, e) PROVE Filed(v, e)
  <2>1. CASE e \in held
    BY <1>2, <1>9, <2>1 DEF Filed, Restated
  <2>2. CASE e \notin held
    <3>1. v.schedules[e].package = d.schedules[e].package
      BY <1>2, <1>9, <2>2 DEF Restated
    <3>2. d.schedules[e].package # p
      BY <1>3, <1>9, <2>2 DEF SchedulesIn
    <3> QED  BY <1>9, <1>15, <1>16, <1>17, <3>1, <3>2 DEF Filed, Opt
  <2> QED  BY <2>1, <2>2
<1>18. Thinned(d, v, gone)
  BY <1>3, <1>10, <1>11, <1>12, <1>13, <1>14, <1>17 DEF Thinned
<1> QED  BY <1>18, ThinnedKept

\* Closing a package completes its exams.
LEMMA ClosedPlans ==
  ASSUME NEW d \in Database, NEW p \in Rows(d, "packages")
  PROVE  PlanKept(d, Closed(d, p))
<1> DEFINE w == Set(d, "packages", {p}, "closed", TRUE)
           over == {e \in SchedulesIn(d, p) : d.schedules[e].status # "CANCELLED"}
           v == Closed(d, p)
<1>1. v = Set(w, "schedules", over, "status", "COMPLETED")
  BY DEF Closed
<1> HIDE DEF v
<1>2. \A i \in {p} : [d["packages"][i] EXCEPT !["closed"] = TRUE] \in Rowset["packages"]
  <2>1. d.packages[p] \in SchedulePackage
    BY RowsAre
  <2>2. [d["packages"][p] EXCEPT !["closed"] = TRUE] \in SchedulePackage
    BY <2>1 DEF SchedulePackage
  <2> QED  BY <2>2, RowsetIs
<1>3. SetTo(d, w, "packages", {p}, "closed", TRUE)
  BY <1>2, SetValues, TableNames
<1> HIDE DEF w
<1>4. w.schedules = d.schedules /\ w.snapshots = d.snapshots /\ w.sessions = d.sessions
  BY <1>3, TableNames DEF SetTo, SameBut
<1>5. over \in SUBSET Rows(w, "schedules")
  BY <1>4 DEF SchedulesIn, Rows
<1> HIDE DEF over
<1>6. Restated(w, v, over, "COMPLETED", FALSE) /\ SameBut(w, v, {"schedules"})
  BY <1>1, <1>3, <1>5, StatusRestates DEF SetTo, ScheduleStatus
<1>7. v.packages = w.packages /\ v.snapshots = d.snapshots /\ v.sessions = d.sessions
  BY <1>4, <1>6, ScheduleTables
<1>8. Restated(d, v, over, "COMPLETED", FALSE)
  BY <1>4, <1>6 DEF Restated, Rows
<1>9. \A q \in Opt(Ids.packages) : q # Null /\ d.packages[q] # Null => v.packages[q] # Null
  <2>1. DOMAIN d.packages = Ids.packages
    BY DatabaseIs, TableNames DEF Table
  <2> QED  BY <1>3, <1>7, <2>1 DEF SetTo, Rows, Opt
<1>10. PlanKept(d, v)
  BY <1>7, <1>8, <1>9, RestatedKept
<1> QED  BY <1>10 DEF v

\* It is closed by the administrator or by its time.
LEMMA ClosePackagePlans ==
  ASSUME NEW d \in Database, NEW p, NEW n, NEW v \in ClosePackage(d, p) \cup AutoClose(d, p, n)
  PROVE  PlanKept(d, v)
  BY ClosedPlans DEF ClosePackage, AutoClose, Given

\* import_schedules plans exam after exam.
LEMMA ImportSchedulesPlans ==
  ASSUME NEW d \in Database, NEW p, NEW file, IsFiniteSet(file),
         \A x \in file : x[3] \in Nat \X Nat,
         NEW v \in ImportSchedules(d, p, file)
  PROVE  PlanKept(d, v)
<1> DEFINE y == d.packages[p].year
           service == [x \in file |-> [w \in Database |->
        UNION {CreateSchedule(w, p, y, m, k, s, Stored(x[3]), a) :
                 m \in ImportSemesters(d, y), k \in ClassNamed(d, y, x[1]),
                 s \in SubjectCoded(d, x[2]),
                 a \in IF x[4] = Null THEN {Null} ELSE TeacherCoded(d, x[4])}]]
           Later == {w \in Database : Planned(d, w)}
<1>1. p \in Rows(d, "packages") /\ v \in Each(service, d)
  BY DEF ImportSchedules
<1>2. p \in Opt(Ids.packages)
  BY <1>1, RowsAre DEF Opt
<1>3. \A x \in file : Stored(x[3]) \in Nat \X Nat
  BY InputsAssumption DEF Stored
<1>4. \A x \in DOMAIN service : \A w \in Later : service[x][w] \subseteq Later
  <2> TAKE x \in DOMAIN service
  <2> TAKE w \in Later
  <2>0. w \in Database /\ Planned(d, w)
    OBVIOUS
  <2>1. ASSUME NEW m, NEW k, NEW s, NEW a, NEW u \in CreateSchedule(w, p, y, m, k, s, Stored(x[3]), a)
        PROVE  u \in Later
    <3>1. Planned(w, u)
      BY <1>2, <1>3, <2>0, <2>1, CreateSchedulePlans
    <3>2. Planned(d, u)
      BY <2>0, <3>1, PlannedTrans
    <3> QED  BY <3>2 DEF Planned
  <2>2. \A m, k, s, a : CreateSchedule(w, p, y, m, k, s, Stored(x[3]), a) \subseteq Later
    BY <2>1
  <2> HIDE DEF Later
  <2> QED  BY <2>0, <2>2
<1>5. IsFiniteSet(DOMAIN service)
  OBVIOUS
<1>6. d \in Later
  BY PlannedStays
<1> HIDE DEF service
<1>7. Each(service, d) \subseteq Later
  <2> HIDE DEF Later
  <2> QED  BY <1>4, <1>5, <1>6, EachKeeps
<1> QED  BY <1>1, <1>7, PlannedKept

\* An exam is ready from when its questions are frozen.
LEMMA CreateSnapshotPlans ==
  ASSUME NEW d \in Database, NEW a, NEW e, NEW b, NEW v \in CreateSnapshot(d, a, e, b)
  PROVE  PlanKept(d, v)
<1> DEFINE w == Set(d, "schedules", {e}, "status", "READY")
           row == [schedule |-> e, package |-> b, teacher |-> a, class |-> d.schedules[e].class,
                   subject |-> d.schedules[e].subject, questions |-> Frozen(d, b)]
           n == New(w, "snapshots")
<1>1. /\ e \in Rows(d, "schedules") /\ d.schedules[e].teacher = a /\ b \in Rows(d, "banks")
      /\ Free(d, "snapshots") # {} /\ v = Insert(w, "snapshots", row)
  BY DEF CreateSnapshot, Given
<1>2. Frozen(d, b) \subseteq Ids.questions
  BY RowsAre DEF Frozen, ItemsOf, Item
<1>3. row \in Snapshot /\ row.schedule = e
  BY <1>1, <1>2, RowsAre DEF Snapshot, Schedule
<1>4. {e} \in SUBSET Rows(d, "schedules") /\ "READY" \in ScheduleStatus
  BY <1>1 DEF ScheduleStatus
<1>5. Restated(d, w, {e}, "READY", FALSE) /\ SameBut(d, w, {"schedules"})
  BY <1>4, StatusRestates
<1> HIDE DEF w, row
<1>6. w \in Database /\ w.snapshots = d.snapshots /\ w.sessions = d.sessions /\ w.packages = d.packages
  BY <1>5, ScheduleTables DEF Restated
<1>7. Free(w, "snapshots") # {}
  BY <1>1, <1>6 DEF Free
<1>8. AddTo(w, v, "snapshots", n, row)
  BY <1>1, <1>3, <1>6, <1>7, AddValues, IdsAre, RowsetIs, TableNames
<1> HIDE DEF n
<1>9. v.schedules = w.schedules /\ v.sessions = d.sessions /\ v.packages = d.packages
  BY <1>6, <1>8, TableNames DEF AddTo, SameBut
<1>10. \A i \in Rows(d, "snapshots") : i \in Rows(v, "snapshots") /\ v.snapshots[i] = d.snapshots[i]
  BY <1>3, <1>6, <1>8 DEF AddTo, Rows
<1>11. \A f : SnapshotsOf(d, f) \subseteq SnapshotsOf(v, f)
  BY <1>10 DEF SnapshotsOf
<1>12. RoomsFit(d) => RoomsFit(v)
  BY <1>9, RoomsFrame
<1>13. ReadyKept(d, v)
  <2>1. \A f : Bare(v, f) => f \in Rows(d, "schedules")
    BY <1>5, <1>9 DEF Bare, Startable, InStatus, Restated, Rows
  <2> QED  BY <1>11, <2>1 DEF ReadyKept, Bare
<1>14. Unmoved(d, v)
  BY <1>5, <1>9 DEF Restated, Unmoved, Rows
<1>15. HeldKept(d, v)
  BY <1>5, <1>9, <1>10 DEF HeldKept, Restated, Filed, SnapshotsOf, Rows
<1> QED  BY <1>12, <1>13, <1>14, <1>15, UnmovedClash DEF PlanKept

\* Exams are drafts again; the questions of some that nobody holds are
\* unfrozen.
LEMMA DraftedThins ==
  ASSUME NEW d \in Database, NEW w, NEW v, NEW hit, NEW lost,
         Restated(d, w, hit, "DRAFT", FALSE), \A e \in hit : ~Held(d, e),
         v.schedules = w.schedules, v.sessions = d.sessions, v.packages = d.packages,
         Rows(d, "snapshots") \ lost \subseteq Rows(v, "snapshots"),
         \A i \in Rows(v, "snapshots") : v.snapshots[i] = d.snapshots[i],
         \A i \in lost : d.snapshots[i].schedule \in hit
  PROVE  PlanKept(d, v)
<1>1. Rows(v, "schedules") = Rows(d, "schedules")
  BY DEF Restated, Rows
<1>2. Thinned(d, v, hit)
  BY <1>1 DEF Thinned, Unmoved, Startable, InStatus, Restated, Filed, Rows
<1> QED  BY <1>2, ThinnedKept

\* The questions of one exam are unfrozen.
LEMMA UnassignSnapshotPlans ==
  ASSUME NEW d \in Database, NEW a, NEW e, NEW v \in UnassignSnapshot(d, a, e)
  PROVE  PlanKept(d, v)
<1> DEFINE w == Drop(d, "snapshots", SnapshotsOf(d, e))
<1>1. e \in Rows(d, "schedules") /\ ~Held(d, e) /\ v = Set(w, "schedules", {e}, "status", "DRAFT")
  BY DEF UnassignSnapshot, Given
<1>2. DropTo(d, w, "snapshots", SnapshotsOf(d, e))
  BY DropValues, TableNames
<1> HIDE DEF w
<1>3. w.schedules = d.schedules /\ w.sessions = d.sessions /\ w.packages = d.packages
  BY <1>2, TableNames DEF DropTo, SameBut
<1>4. {e} \in SUBSET Rows(w, "schedules")
  BY <1>1, <1>3 DEF Rows
<1>5. Restated(w, v, {e}, "DRAFT", FALSE) /\ SameBut(w, v, {"schedules"})
  BY <1>1, <1>2, <1>4, StatusRestates DEF DropTo, ScheduleStatus
<1>6. v.packages = d.packages /\ v.snapshots = w.snapshots /\ v.sessions = d.sessions
  BY <1>3, <1>5, ScheduleTables
<1>7. Restated(d, v, {e}, "DRAFT", FALSE)
  BY <1>3, <1>5 DEF Restated, Rows
<1>8. /\ Rows(d, "snapshots") \ SnapshotsOf(d, e) \subseteq Rows(v, "snapshots")
      /\ \A i \in Rows(v, "snapshots") : v.snapshots[i] = d.snapshots[i]
  BY <1>2, <1>6 DEF DropTo, Rows
<1>9. \A i \in SnapshotsOf(d, e) : d.snapshots[i].schedule \in {e}
  BY DEF SnapshotsOf
<1>10. \A f \in {e} : ~Held(d, f)
  BY <1>1
<1> QED  BY <1>6, <1>7, <1>8, <1>9, <1>10, DraftedThins

\* A package is reverted, and its exams are drafts: even those called off,
\* the one way two exams come to overlap.
LEMMA RevertPackagePlans ==
  ASSUME NEW d \in Database, KeysHold(d), NEW a, NEW b, NEW v \in RevertPackage(d, a, b)
  PROVE  PlanKept(d, v)
<1> DEFINE w == Set(d, "schedules", UsedFor(d, b), "status", "DRAFT")
<1>1. Unheld(d, a, b) /\ v = Set(w, "banks", {b}, "status", "INCOMPLETE")
  BY DEF RevertPackage, Given
<1>2. UsedFor(d, b) \in SUBSET Rows(d, "schedules")
  BY UsedForRows
<1>3. Restated(d, w, UsedFor(d, b), "DRAFT", FALSE) /\ SameBut(d, w, {"schedules"})
  BY <1>2, StatusRestates DEF ScheduleStatus
<1> HIDE DEF w
<1>4. w.packages = d.packages /\ w.snapshots = d.snapshots /\ w.sessions = d.sessions
  BY <1>3, ScheduleTables
<1>5. SameBut(w, v, {"banks"})
  BY <1>1, <1>3, SetSame, TableNames DEF Restated
<1>6. /\ v.schedules = w.schedules /\ v.packages = d.packages /\ v.snapshots = d.snapshots
      /\ v.sessions = d.sessions
  BY <1>4, <1>5, TableNames DEF SameBut
<1>7. \A e \in UsedFor(d, b) : ~Held(d, e)
  BY <1>1 DEF Unheld
<1>8. Rows(v, "snapshots") = Rows(d, "snapshots")
  BY <1>6 DEF Rows
<1> DEFINE hit == UsedFor(d, b)
           lost == {}
<1>9. /\ \A e \in hit : ~Held(d, e)
      /\ Rows(d, "snapshots") \ lost \subseteq Rows(v, "snapshots")
      /\ \A i \in Rows(v, "snapshots") : v.snapshots[i] = d.snapshots[i]
      /\ \A i \in lost : d.snapshots[i].schedule \in hit
      /\ Restated(d, w, hit, "DRAFT", FALSE)
  BY <1>3, <1>6, <1>7, <1>8
<1> HIDE DEF hit, lost
<1> QED  BY <1>6, <1>9, DraftedThins

\* A package is deleted, and its exams are drafts.
LEMMA DeletePackagePlans ==
  ASSUME NEW d \in Database, KeysHold(d), NEW a, NEW b, NEW v \in DeletePackage(d, a, b)
  PROVE  PlanKept(d, v)
<1> DEFINE w == Set(d, "schedules", UsedFor(d, b), "status", "DRAFT")
           u == Drop(w, "snapshots", Uses(d, b))
           s == Drop(u, "items", ItemsOf(d, b))
<1>1. Unheld(d, a, b) /\ v = Drop(s, "banks", {b})
  BY DEF DeletePackage, Given
<1>2. UsedFor(d, b) \in SUBSET Rows(d, "schedules")
  BY UsedForRows
<1>3. Restated(d, w, UsedFor(d, b), "DRAFT", FALSE) /\ SameBut(d, w, {"schedules"})
  BY <1>2, StatusRestates DEF ScheduleStatus
<1> HIDE DEF w
<1>4. w.packages = d.packages /\ w.snapshots = d.snapshots /\ w.sessions = d.sessions
  BY <1>3, ScheduleTables
<1>5. DropTo(w, u, "snapshots", Uses(d, b))
  BY <1>3, DropValues, TableNames DEF Restated
<1> HIDE DEF u
<1>6. DropTo(u, s, "items", ItemsOf(d, b))
  BY <1>5, DropValues, TableNames DEF DropTo
<1> HIDE DEF s
<1>7. DropTo(s, v, "banks", {b})
  BY <1>1, <1>6, DropValues, TableNames DEF DropTo
<1>8. /\ v.schedules = w.schedules /\ v.packages = d.packages /\ v.snapshots = u.snapshots
      /\ v.sessions = d.sessions
  BY <1>4, <1>5, <1>6, <1>7, TableNames DEF DropTo, SameBut
<1>9. /\ Rows(d, "snapshots") \ Uses(d, b) \subseteq Rows(v, "snapshots")
      /\ \A i \in Rows(v, "snapshots") : v.snapshots[i] = d.snapshots[i]
  BY <1>4, <1>5, <1>8 DEF DropTo, Rows
<1>10. \A i \in Uses(d, b) : d.snapshots[i].schedule \in UsedFor(d, b)
  BY DEF UsedFor
<1>11. \A e \in UsedFor(d, b) : ~Held(d, e)
  BY <1>1 DEF Unheld
<1> QED  BY <1>3, <1>8, <1>9, <1>10, <1>11, DraftedThins

\* What writes sessions alone keeps the plan if it keeps one a schedule.
LEMMA SessionSteps ==
  ASSUME NEW d, NEW v, SameBut(d, v, {"sessions"}), RoomsFit(d) => RoomsFit(v)
  PROVE  PlanKept(d, v)
<1>1. v.packages = d.packages /\ v.schedules = d.schedules /\ v.snapshots = d.snapshots
  BY TableNames DEF SameBut
<1>2. Unmoved(d, v)
  BY <1>1 DEF Unmoved, Rows
<1>3. HeldKept(d, v)
  BY <1>1 DEF HeldKept, Filed, SnapshotsOf, Rows
<1>4. Startable(v) \subseteq Rows(d, "schedules")
  BY <1>1 DEF Startable, InStatus, Rows
<1> QED  BY <1>1, <1>2, <1>3, <1>4, UnmovedClash, ReadyFrame DEF PlanKept

\* A session is opened where there is none.
LEMMA OpenSessionPlans ==
  ASSUME NEW d \in Database, NEW e \in Rows(d, "schedules"), SessionsOf(d, e) = {}, NEW n,
         NEW v \in OpenSession(d, e, n)
  PROVE  PlanKept(d, v)
<1> DEFINE row == [schedule |-> e, slot |-> d.schedules[e].slot,
                   status |-> IF Begun(d, e, n) THEN "ACTIVE" ELSE "PLANNED"]
           i == New(d, "sessions")
<1>1. Free(d, "sessions") # {} /\ v = Insert(d, "sessions", row)
  BY DEF OpenSession, Given
<1>2. row \in Session /\ row.schedule = e
  BY RowsAre, IdsAre DEF Session, Schedule, SessionStatus
<1> HIDE DEF row
<1>3. AddTo(d, v, "sessions", i, row)
  BY <1>1, <1>2, AddValues, IdsAre, RowsetIs, TableNames
<1> HIDE DEF i
<1>4. \A j \in Rows(d, "sessions") : d.sessions[j].schedule # e
  BY DEF SessionsOf
<1>5. RoomsFit(d) => RoomsFit(v)
  BY <1>2, <1>3, <1>4 DEF RoomsFit, AddTo
<1> QED  BY <1>3, <1>5, SessionSteps DEF AddTo

\* The student's list of exams opens a session and moves it on.
LEMMA StudentPollPlans ==
  ASSUME NEW d \in Database, NEW a, NEW e, NEW n, NEW v \in StudentPoll(d, a, e, n)
  PROVE  PlanKept(d, v)
<1>1. e \in Rows(d, "schedules")
  BY DEF StudentPoll, MySchedules
<1>2. ASSUME NEW i \in SessionsOf(d, e), v = Set(d, "sessions", {i}, "status", "ACTIVE")
      PROVE  PlanKept(d, v)
  <2>1. {i} \in SUBSET Rows(d, "sessions") /\ \A j \in Rows(d, "sessions") : d.sessions[j] \in Session
    BY RowsAre DEF SessionsOf
  <2>2. \A j \in {i} : [d["sessions"][j] EXCEPT !["status"] = "ACTIVE"] \in Rowset["sessions"]
    BY <2>1, RowsetIs DEF Session, SessionStatus
  <2>3. SetTo(d, v, "sessions", {i}, "status", "ACTIVE")
    BY <1>2, <2>1, <2>2, SetValues, TableNames
  <2>4. \A j \in Rows(v, "sessions") :
          j \in Rows(d, "sessions") /\ v.sessions[j].schedule = d.sessions[j].schedule
    BY <2>1, <2>3 DEF SetTo, Session
  <2>5. RoomsFit(d) => RoomsFit(v)
    BY <2>4 DEF RoomsFit
  <2> QED  BY <2>3, <2>5, SessionSteps DEF SetTo
<1>3. \/ SessionsOf(d, e) = {} /\ v \in OpenSession(d, e, n)
      \/ \E i \in SessionsOf(d, e) : v = Set(d, "sessions", {i}, "status", "ACTIVE")
  BY DEF StudentPoll
<1> QED  BY <1>1, <1>2, <1>3, OpenSessionPlans

\* The proctor's list does the same.
LEMMA ProctorPollPlans ==
  ASSUME NEW d \in Database, NEW a, NEW e, NEW n, NEW v \in ProctorPoll(d, a, e, n)
  PROVE  PlanKept(d, v)
  BY OpenSessionPlans DEF ProctorPoll, Startable, InStatus

-----------------------------------------------------------------------------
(* Reports and what is locked in them.                                     *)

\* What is in a report that is locked stays in it, as it is or as presence,
\* and no report is deleted from under it.
LockKept(d, v, n) ==
  \A r \in Rows(d, "reports") : Locked(d, r, n) =>
    \A x \in Rows(d, "attendance") : x[1] = r =>
      /\ x \in Rows(v, "attendance") /\ v.reports[v.attendance[x].report] # Null
      /\ v.attendance[x] = d.attendance[x] \/ v.attendance[x].status = "HADIR"

\* An attendance belongs to a report that is there.
LEMMA ReportKeys ==
  ASSUME NEW d \in Database, KeysHold(d), NEW x \in Rows(d, "attendance")
  PROVE  d.attendance[x].report \in Rows(d, "reports")
<1>1. d.attendance[x].report # Null /\ d.attendance[x].report \in Ids.reports
  BY RowsAre, IdsAssumption, TableNames DEF Attendance
<1>2. Dangling(d, <<"attendance", "report", "reports", "CASCADE">>) = {}
  BY DEF KeysHold, ForeignKeys
<1>3. d.reports[d.attendance[x].report] # Null
  BY <1>1, <1>2 DEF Dangling, Dangles
<1>4. DOMAIN d.reports = Ids.reports
  BY DatabaseIs, TableNames DEF Table
<1> QED  BY <1>1, <1>3, <1>4 DEF Rows

\* A locked report is kept by what changes an attendance only into presence,
\* or in another report.
LEMMA LockSteps ==
  ASSUME NEW d \in Database, KeysHold(d), NEW v \in Database, NEW n,
         Rows(d, "reports") \subseteq Rows(v, "reports"),
         \A x \in Rows(d, "attendance") :
           \/ v.attendance[x] = d.attendance[x]
           \/ ~Locked(d, x[1], n)
           \/ /\ v.attendance[x] # Null /\ v.attendance[x].status = "HADIR"
              /\ v.attendance[x].report \in Rows(v, "reports")
  PROVE  LockKept(d, v, n)
<1> SUFFICES ASSUME NEW x \in Rows(d, "attendance"), Locked(d, x[1], n)
             PROVE  /\ x \in Rows(v, "attendance") /\ v.reports[v.attendance[x].report] # Null
                    /\ v.attendance[x] = d.attendance[x] \/ v.attendance[x].status = "HADIR"
  BY DEF LockKept
<1>1. d.attendance[x].report \in Rows(v, "reports") /\ d.attendance[x] # Null /\ x \in Ids.attendance
  BY ReportKeys, RowsAre DEF Rows
<1>2. DOMAIN v.attendance = Ids.attendance
  BY DatabaseIs, TableNames DEF Table
<1>3. v.attendance[x] # Null /\ v.attendance[x].report \in Rows(v, "reports")
      /\ (v.attendance[x] = d.attendance[x] \/ v.attendance[x].status = "HADIR")
  BY <1>1
<1> QED  BY <1>1, <1>2, <1>3 DEF Rows

\* Whoever leaves reports alone keeps them.
LEMMA LockFrame ==
  ASSUME NEW d \in Database, KeysHold(d), NEW v, Alone(d, v, RoomTables), NEW n
  PROVE  LockKept(d, v, n)
<1>1. v \in Database /\ v.reports = d.reports /\ v.attendance = d.attendance
  BY DEF Alone, RoomTables
<1>2. Rows(v, "reports") = Rows(d, "reports")
  BY <1>1 DEF Rows
<1> QED  BY <1>1, <1>2, LockSteps

\* A report is made if an exam has none.
LEMMA WithReportGrows ==
  ASSUME NEW d \in Database, NEW e \in Nat, ReportOf(d, e) # {} \/ Free(d, "reports") # {}
  PROVE  /\ WithReport(d, e) \in Database /\ ReportOf(WithReport(d, e), e) # {}
         /\ Rows(d, "reports") \subseteq Rows(WithReport(d, e), "reports")
         /\ WithReport(d, e).attendance = d.attendance
<1> DEFINE row == [schedule |-> e, status |-> "DRAFT", submitted |-> Null]
           v == WithReport(d, e)
<1>1. v \in Database /\ ReportOf(v, e) # {} /\ SameBut(d, v, {"reports"})
  BY WithReportServed, LeavingServes
<1>2. v.attendance = d.attendance
  BY <1>1, TableNames DEF SameBut
<1>3. Rows(d, "reports") \subseteq Rows(v, "reports")
  <2>1. CASE ReportOf(d, e) # {}
    BY <2>1 DEF WithReport
  <2>2. CASE ReportOf(d, e) = {}
    <3>1. v = Insert(d, "reports", row) /\ Free(d, "reports") # {}
      BY <2>2 DEF WithReport
    <3>2. row \in Report
      BY DEF Report, BAUStatus, Opt
    <3> HIDE DEF v, row
    <3>3. AddTo(d, v, "reports", New(d, "reports"), row)
      BY <3>1, <3>2, AddValues, IdsAre, RowsetIs, TableNames
    <3> QED  BY <3>3 DEF AddTo
  <2> QED  BY <2>1, <2>2
<1> QED  BY <1>1, <1>2, <1>3

\* What marking one student writes.
LEMMA MarkIs ==
  ASSUME NEW d \in Database, NEW r \in Ids.reports, NEW a \in Nat, NEW st \in AttendanceStatus
  PROVE  LET v == Mark(d, r, a, st)
         IN /\ v \in Database /\ v.reports = d.reports
            /\ \A x \in Rows(d, "attendance") :
                 \/ v.attendance[x] = d.attendance[x]
                 \/ /\ x[1] = r /\ v.attendance[x] # Null
                    /\ v.attendance[x].status = st /\ v.attendance[x].report = r
<1> DEFINE row == [report |-> r, student |-> a, status |-> st]
           v == Mark(d, r, a, st)
           y == <<r, a>>
<1>1. row \in Attendance /\ row.status = st /\ row.report = r /\ y[1] = r
  BY DEF Attendance
<1>2. v = Put(d, "attendance", y, row)
  BY DEF Mark
<1> HIDE DEF row, v, y
<1>3. row # Null /\ row \in Opt(Rowset["attendance"])
  BY <1>1, RowsetIs, IdsAssumption, TableNames DEF Opt
<1>4. v \in Database /\ SameBut(d, v, {"attendance"})
  BY <1>2, <1>3, PutTyped, PutSame, TableNames
<1>5. v["attendance"] = [x \in Ids["attendance"] |-> IF x = y THEN row ELSE d["attendance"][x]]
  BY <1>2, PutIs, TableNames
<1>6. \A x \in Rows(d, "attendance") : x \in Ids.attendance
  BY RowsAre
<1>7. ASSUME NEW x \in Rows(d, "attendance")
      PROVE  \/ v.attendance[x] = d.attendance[x]
             \/ /\ x[1] = r /\ v.attendance[x] # Null
                /\ v.attendance[x].status = st /\ v.attendance[x].report = r
  BY <1>1, <1>3, <1>5, <1>6
<1>8. v.reports = d.reports
  BY <1>4, TableNames DEF SameBut
<1> QED  BY <1>4, <1>7, <1>8 DEF v

\* A check-in marks the student present, even in a locked report.
LEMMA MarkPresentLocks ==
  ASSUME NEW d \in Database, KeysHold(d), NEW e \in Nat, NEW a \in Nat, NEW n,
         NEW v \in MarkPresent(d, e, a)
  PROVE  LockKept(d, v, n)
<1> DEFINE w == WithReport(d, e)
           r == CHOOSE r \in ReportOf(w, e) : TRUE
<1>1. (ReportOf(d, e) # {} \/ Free(d, "reports") # {}) /\ v = Mark(w, r, a, "HADIR")
  BY DEF MarkPresent, Given
<1>2. w \in Database /\ ReportOf(w, e) # {} /\ Rows(d, "reports") \subseteq Rows(w, "reports")
      /\ w.attendance = d.attendance
  BY <1>1, WithReportGrows
<1> HIDE DEF w
<1>3. r \in Rows(w, "reports") /\ r \in Ids.reports
  BY <1>2, RowsAre DEF ReportOf
<1> HIDE DEF r
<1>4. /\ v \in Database /\ v.reports = w.reports
      /\ \A x \in Rows(w, "attendance") :
           \/ v.attendance[x] = w.attendance[x]
           \/ /\ x[1] = r /\ v.attendance[x] # Null
              /\ v.attendance[x].status = "HADIR" /\ v.attendance[x].report = r
  <2>1. "HADIR" \in AttendanceStatus
    BY DEF AttendanceStatus
  <2> QED  BY <1>1, <1>2, <1>3, <2>1, MarkIs
<1>5. Rows(w, "attendance") = Rows(d, "attendance") /\ Rows(v, "reports") = Rows(w, "reports")
  BY <1>2, <1>4 DEF Rows
<1> QED  BY <1>2, <1>3, <1>4, <1>5, LockSteps

\* An attendance is changed in a report that is not locked.
LEMMA UpdateAttendanceLocks ==
  ASSUME NEW d \in Database, KeysHold(d), NEW u, NEW r, NEW a \in Nat, NEW st \in AttendanceStatus,
         NEW n, NEW v \in UpdateAttendance(d, u, r, a, st, n)
  PROVE  LockKept(d, v, n)
<1>1. r \in Rows(d, "reports") /\ ~Locked(d, r, n) /\ v = Mark(d, r, a, st)
  BY DEF UpdateAttendance, Given, Editable
<1>2. r \in Ids.reports
  BY <1>1, RowsAre
<1>3. /\ v \in Database /\ v.reports = d.reports
      /\ \A x \in Rows(d, "attendance") :
           \/ v.attendance[x] = d.attendance[x]
           \/ /\ x[1] = r /\ v.attendance[x] # Null
              /\ v.attendance[x].status = st /\ v.attendance[x].report = r
  BY <1>1, <1>2, MarkIs
<1>4. Rows(v, "reports") = Rows(d, "reports")
  BY <1>3 DEF Rows
<1> QED  BY <1>1, <1>3, <1>4, LockSteps

\* Submitting writes the report alone.
LEMMA SubmittedGrows ==
  ASSUME NEW d \in Database, NEW r \in Rows(d, "reports"), NEW n \in Nat
  PROVE  /\ Submitted(d, r, n) \in Database /\ Submitted(d, r, n).attendance = d.attendance
         /\ Rows(Submitted(d, r, n), "reports") = Rows(d, "reports")
<1> DEFINE row == [d.reports[r] EXCEPT !.status = "SUBMITTED", !.submitted = n]
           v == Put(d, "reports", r, row)
<1>1. row \in Rowset["reports"] /\ r \in Ids["reports"]
  <2>1. d.reports[r] \in Report /\ r \in Ids["reports"]
    BY RowsAre
  <2>2. row \in Report
    BY <2>1 DEF Report, BAUStatus, Opt
  <2> HIDE DEF row
  <2> QED  BY <2>1, <2>2, RowsetIs
<1> HIDE DEF row
<1>2. v \in Database /\ SameBut(d, v, {"reports"})
  BY <1>1, PutTyped, PutSame, TableNames DEF Opt
<1>3. Rows(v, "reports") = Rows(d, "reports") \cup {r}
  BY <1>1, PutRows, TableNames
<1>4. v.attendance = d.attendance
  BY <1>2, TableNames DEF SameBut
<1>5. v = Submitted(d, r, n)
  BY DEF row, Submitted
<1> QED  BY <1>2, <1>3, <1>4, <1>5

\* submit_bau keeps what others have locked.
LEMMA SubmitReportLocks ==
  ASSUME NEW d \in Database, KeysHold(d), NEW u, NEW r, NEW n \in Nat, NEW m,
         NEW v \in SubmitReport(d, u, r, n)
  PROVE  LockKept(d, v, m)
<1>1. r \in Rows(d, "reports") /\ v = Submitted(d, r, n)
  BY DEF SubmitReport, Given, Editable
<1> QED  BY <1>1, SubmittedGrows, LockSteps

\* Asking for a correction, and resolving it, writes the report alone.
LEMMA CorrectionLocks ==
  ASSUME NEW d \in Database, KeysHold(d), NEW u, NEW r, NEW ok, NEW n,
         NEW v \in RequestCorrection(d, u, r) \cup ResolveCorrection(d, r, ok)
  PROVE  LockKept(d, v, n)
<1>1. PICK x \in BAUStatus : r \in Rows(d, "reports") /\ v = Set(d, "reports", {r}, "status", x)
  BY DEF RequestCorrection, ResolveCorrection, Given, InStatus, BAUStatus
<1>2. d.reports[r] \in Report
  BY <1>1, RowsAre
<1>3. [d["reports"][r] EXCEPT !["status"] = x] \in Report
  BY <1>2 DEF Report
<1>4. \A i \in {r} : [d["reports"][i] EXCEPT !["status"] = x] \in Rowset["reports"]
  BY <1>3, RowsetIs
<1>5. {r} \in SUBSET Rows(d, "reports")
  BY <1>1
<1>6. SetTo(d, v, "reports", {r}, "status", x)
  BY <1>1, <1>4, <1>5, SetValues, TableNames
<1>7. v \in Database /\ Rows(v, "reports") = Rows(d, "reports") /\ v.attendance = d.attendance
  BY <1>6, TableNames DEF SetTo, SameBut
<1> QED  BY <1>7, LockSteps

\* What synchronising a report with the check-ins writes.
LEMMA SyncedIs ==
  ASSUME NEW d \in Database, NEW r \in Ids.reports, NEW e
  PROVE  LET v == Synced(d, r, e)
         IN /\ v.reports = d.reports
            /\ \A x \in Rows(d, "attendance") :
                 \/ v.attendance[x] = d.attendance[x]
                 \/ /\ v.attendance[x] # Null
                    /\ v.attendance[x].status = "HADIR" /\ v.attendance[x].report = r
<1> DEFINE Default(a) == IF a \in Present(d, e) THEN "HADIR" ELSE "ALPA"
           Stale(x) == \/ d.attendance[x] = Null
                       \/ d.attendance[x].status = "ALPA" /\ x[2] \in Present(d, e)
           mark(x) == [report |-> r, student |-> x[2], status |-> Default(x[2])]
           new(x) == IF x[1] = r /\ x[2] \in ClassList(d, e) /\ Stale(x) THEN mark(x) ELSE d.attendance[x]
           v == Synced(d, r, e)
           f == [x \in Ids.attendance |-> new(x)]
<1>1. d["attendance"] \in [Ids["attendance"] -> Opt(Rowset["attendance"])]
  BY DatabaseIs, TableNames DEF Table
<1>2. v = [d EXCEPT !.attendance = f]
  BY <1>1 DEF Synced
<1>3. ClassList(d, e) \subseteq Nat
  BY RowsAre, IdsAre DEF ClassList, InStatus, Enrolment
<1>4. \A x : x[2] \in ClassList(d, e) => mark(x) \in Attendance
  BY <1>3 DEF Attendance, AttendanceStatus
<1>5. \A x : x[2] \in ClassList(d, e) => mark(x) # Null
  BY <1>4, RowsetIs, IdsAssumption, TableNames
<1>6. \A x : mark(x).report = r /\ mark(x).status = Default(x[2])
  OBVIOUS
<1>7. ASSUME NEW x \in Rows(d, "attendance")
      PROVE  \/ new(x) = d.attendance[x]
             \/ new(x) # Null /\ new(x).status = "HADIR" /\ new(x).report = r
  <2>1. d.attendance[x] # Null
    BY DEF Rows
  <2> HIDE DEF mark
  <2> QED  BY <1>5, <1>6, <2>1
<1> HIDE DEF new
<1>8. "attendance" \in DOMAIN d /\ d = [t \in Tables |-> d[t]]
  BY DatabaseIs, TableNames
<1>9. v.attendance = f /\ v.reports = d.reports
  <2> HIDE DEF f, v
  <2> QED  BY <1>2, <1>8, TableNames
<1>10. \A x \in Rows(d, "attendance") : x \in Ids.attendance
  BY RowsAre
<1>11. \A x \in Rows(d, "attendance") : v.attendance[x] = new(x)
  <2> HIDE DEF v
  <2> QED  BY <1>9, <1>10
<1> HIDE DEF f, v
<1>12. \A x \in Rows(d, "attendance") :
         \/ v.attendance[x] = d.attendance[x]
         \/ /\ v.attendance[x] # Null
            /\ v.attendance[x].status = "HADIR" /\ v.attendance[x].report = r
  BY <1>7, <1>11
<1> QED  BY <1>9, <1>12 DEF v

\* Opening a report makes it, fills it and submits it when its time has come.
LEMMA OpenReportLocks ==
  ASSUME NEW d \in Database, KeysHold(d), NEW u, NEW e \in Nat, NEW n \in Nat, NEW m,
         NEW v \in OpenReport(d, u, e, n)
  PROVE  LockKept(d, v, m)
<1> DEFINE w == WithReport(d, e)
           r == CHOOSE r \in ReportOf(w, e) : TRUE
           known == e \in Rows(d, "schedules")
           due == known /\ w.reports[r].status = "DRAFT" /\ n >= d.schedules[e].slot[2] + Day
           sent == IF due THEN Submitted(w, r, n) ELSE w
<1>1. /\ ReportOf(d, e) # {} \/ Free(d, "reports") # {}
      /\ v = (IF known THEN Synced(sent, r, e) ELSE sent)
  BY DEF OpenReport, Given
<1>0. v \in Database
  BY OpenReportServed, LeavingServes
<1>2. w \in Database /\ ReportOf(w, e) # {} /\ Rows(d, "reports") \subseteq Rows(w, "reports")
      /\ w.attendance = d.attendance
  BY <1>1, WithReportGrows
<1> HIDE DEF w
<1>3. r \in Rows(w, "reports") /\ r \in Ids.reports
  BY <1>2, RowsAre DEF ReportOf
<1> HIDE DEF r, due, known
<1>4. sent \in Database /\ sent.attendance = d.attendance /\ Rows(sent, "reports") = Rows(w, "reports")
  BY <1>2, <1>3, SubmittedGrows
<1> HIDE DEF sent
<1>5. Rows(sent, "attendance") = Rows(d, "attendance")
  BY <1>4 DEF Rows
<1>6. CASE v = sent
  BY <1>0, <1>2, <1>4, <1>6, LockSteps
<1>7. CASE v = Synced(sent, r, e)
  <2>1. /\ v.reports = sent.reports
        /\ \A x \in Rows(sent, "attendance") :
             \/ v.attendance[x] = sent.attendance[x]
             \/ /\ v.attendance[x] # Null
                /\ v.attendance[x].status = "HADIR" /\ v.attendance[x].report = r
    BY <1>3, <1>4, <1>7, SyncedIs
  <2>2. Rows(v, "reports") = Rows(sent, "reports")
    BY <2>1 DEF Rows
  <2> QED  BY <1>0, <1>2, <1>3, <1>4, <1>5, <2>1, <2>2, LockSteps
<1> QED  BY <1>1, <1>6, <1>7

-----------------------------------------------------------------------------
(* Packages of questions.                                                  *)

\* A question keeps its type and its owner.
QuestionsStay(d, v) ==
  \A q \in Rows(d, "questions") \cap Rows(v, "questions") :
    v.questions[q].type = d.questions[q].type /\ v.questions[q].owner = d.questions[q].owner

\* What services on questions and packages keep.
BankKept(d, v) ==
  /\ QuestionsStay(d, v)
  /\ BanksFit(d) => BanksFit(v)

\* The three parts of what makes a package of questions fit: an order without
\* gaps, the owner of the questions, and enough of each type.
Lined(d, b) == {d.items[i].order : i \in ItemsOf(d, b)} = 1..Cardinality(ItemsOf(d, b))
Owned(d, b) == \A i \in ItemsOf(d, b) : d.questions[d.items[i].question].owner = d.banks[b].owner
Stocked(d, b) ==
  d.banks[b].status = "READY" =>
    \A type \in QuestionType : CountOf(d, b, type) >= d.banks[b].target[type]

\* A package fits by these three.
LEMMA BankParts ==
  ASSUME NEW d, NEW b
  PROVE  BankFits(d, b) <=> Lined(d, b) /\ Owned(d, b) /\ Stocked(d, b)
  BY DEF BankFits, Lined, Owned, Stocked

\* A package holds the same in v as in d.
SameItems(d, v, b) ==
  /\ ItemsOf(v, b) = ItemsOf(d, b)
  /\ \A i \in ItemsOf(d, b) :
       /\ v.items[i] = d.items[i]
       /\ v.questions[d.items[i].question].type = d.questions[d.items[i].question].type
       /\ v.questions[d.items[i].question].owner = d.questions[d.items[i].question].owner

\* The same items are in the same order,
LEMMA SameLined ==
  ASSUME NEW d, NEW v, NEW b, SameItems(d, v, b), Lined(d, b)
  PROVE  Lined(v, b)
<1>1. {v.items[i].order : i \in ItemsOf(v, b)} = {d.items[i].order : i \in ItemsOf(d, b)}
  BY DEF SameItems
<1> QED  BY <1>1 DEF Lined, SameItems

\* belong to the same owner,
LEMMA SameOwned ==
  ASSUME NEW d, NEW v, NEW b, SameItems(d, v, b), v.banks[b].owner = d.banks[b].owner, Owned(d, b)
  PROVE  Owned(v, b)
  BY DEF Owned, SameItems

\* and count the same.
LEMMA SameCount ==
  ASSUME NEW d, NEW v, NEW b, SameItems(d, v, b), NEW type
  PROVE  CountOf(v, b, type) = CountOf(d, b, type)
<1>1. {i \in ItemsOf(v, b) : v.questions[v.items[i].question].type = type}
        = {i \in ItemsOf(d, b) : d.questions[d.items[i].question].type = type}
  BY DEF SameItems
<1> QED  BY <1>1 DEF CountOf

\* A package that holds the same fits as it did.
LEMMA SameFits ==
  ASSUME NEW d, NEW v, NEW b, SameItems(d, v, b), v.banks[b] = d.banks[b], BankFits(d, b)
  PROVE  BankFits(v, b)
<1>1. Stocked(v, b)
  BY SameCount, BankParts DEF Stocked
<1> QED  BY <1>1, SameLined, SameOwned, BankParts

\* An item is of a question and a package that are there.
LEMMA ItemKeys ==
  ASSUME NEW d \in Database, KeysHold(d), NEW i \in Rows(d, "items")
  PROVE  d.items[i].question \in Rows(d, "questions") /\ d.items[i].package \in Rows(d, "banks")
<1>1. /\ d.items[i].question # Null /\ d.items[i].question \in Ids.questions
      /\ d.items[i].package # Null /\ d.items[i].package \in Ids.banks
  BY RowsAre, IdsAssumption, TableNames DEF Item
<1>2. Dangling(d, <<"items", "question", "questions", "RESTRICT">>) = {}
  BY DEF KeysHold, ForeignKeys
<1>3. Dangling(d, <<"items", "package", "banks", "CASCADE">>) = {}
  BY DEF KeysHold, ForeignKeys
<1>4. d.questions[d.items[i].question] # Null /\ d.banks[d.items[i].package] # Null
  BY <1>1, <1>2, <1>3 DEF Dangling, Dangles
<1>5. DOMAIN d.questions = Ids.questions /\ DOMAIN d.banks = Ids.banks
  BY DatabaseIs, TableNames DEF Table
<1> QED  BY <1>1, <1>4, <1>5 DEF Rows

\* Packages and what they hold are left alone, and the questions they hold.
Untouched(d, v) ==
  /\ v.items = d.items /\ v.banks = d.banks
  /\ \A i \in Rows(d, "items") :
       /\ v.questions[d.items[i].question].type = d.questions[d.items[i].question].type
       /\ v.questions[d.items[i].question].owner = d.questions[d.items[i].question].owner

\* Packages left alone fit as they did.
LEMMA UntouchedFits ==
  ASSUME NEW d, NEW v, Untouched(d, v), BanksFit(d)
  PROVE  BanksFit(v)
<1>1. Rows(v, "banks") = Rows(d, "banks") /\ \A b : ItemsOf(v, b) = ItemsOf(d, b)
  BY DEF Untouched, ItemsOf, Rows
<1>2. \A b : SameItems(d, v, b)
  BY <1>1 DEF Untouched, SameItems, ItemsOf
<1> QED  BY <1>1, <1>2, SameFits DEF BanksFit, Untouched

\* Whoever leaves questions, packages and items alone keeps all of it.
LEMMA BankFrame ==
  ASSUME NEW d \in Database, NEW v, Alone(d, v, BankTables)
  PROVE  BankKept(d, v)
<1>1. v.questions = d.questions /\ v.items = d.items /\ v.banks = d.banks
  BY DEF Alone, BankTables
<1>2. Untouched(d, v) /\ QuestionsStay(d, v)
  BY <1>1 DEF Untouched, QuestionsStay
<1> QED  BY <1>2, UntouchedFits DEF BankKept

\* Questions are added.
Grown(d, v) ==
  /\ v \in Database /\ v.items = d.items /\ v.banks = d.banks
  /\ \A q \in Rows(d, "questions") : q \in Rows(v, "questions") /\ v.questions[q] = d.questions[q]

\* Questions may be added.
LEMMA GrownKept ==
  ASSUME NEW d \in Database, KeysHold(d), NEW v, Grown(d, v)
  PROVE  BankKept(d, v)
<1>1. Untouched(d, v) /\ QuestionsStay(d, v)
  BY ItemKeys DEF Grown, Untouched, QuestionsStay
<1> QED  BY <1>1, UntouchedFits DEF BankKept

\* create_question adds one.
LEMMA CreateQuestionGrows ==
  ASSUME NEW d \in Database, NEW a \in Ids.accounts, NEW type \in QuestionType,
         NEW content \in STRING, NEW v \in CreateQuestion(d, a, type, content)
  PROVE  Grown(d, v)
<1> DEFINE row == [owner |-> a, type |-> type, content |-> content]
<1>1. Free(d, "questions") # {} /\ v = Insert(d, "questions", row)
  BY DEF CreateQuestion, Given
<1>2. row \in Rowset["questions"]
  BY RowsetIs DEF Question
<1> HIDE DEF row
<1>3. AddTo(d, v, "questions", New(d, "questions"), row)
  BY <1>1, <1>2, AddValues, IdsAre, TableNames
<1> QED  BY <1>3, TableNames DEF AddTo, SameBut, Grown

\* A question that is made is in no package.
LEMMA CreateQuestionBanks ==
  ASSUME NEW d \in Database, KeysHold(d), NEW a \in Ids.accounts, NEW type \in QuestionType,
         NEW content \in STRING, NEW v \in CreateQuestion(d, a, type, content)
  PROVE  BankKept(d, v)
  BY CreateQuestionGrows, GrownKept

\* import_questions adds question after question.
LEMMA ImportQuestionsBanks ==
  ASSUME NEW d \in Database, KeysHold(d), NEW a \in Ids.accounts, NEW file, IsFiniteSet(file),
         \A r \in file : r.content \in STRING, NEW v \in ImportQuestions(d, a, file)
  PROVE  BankKept(d, v)
<1> DEFINE known(r) == \E q \in Rows(d, "questions") : Owns(d, a, q) /\ SameQuestion(d.questions[q], r)
           service == [r \in {r \in file : ~known(r)} |-> [u \in Database |->
                         CreateQuestion(u, a, r.type, r.content)]]
           Later == {u \in Database : Grown(d, u)}
<1>1. (\A r \in file : ValidRow(r)) /\ v \in Each(service, d)
  BY DEF ImportQuestions
<1>3. \A r \in file : r.type \in QuestionType
  BY <1>1 DEF ValidRow, ValidPG, ValidIS, ValidES, QuestionType
<1>4. \A r \in DOMAIN service : \A u \in Later : service[r][u] \subseteq Later
  <2> HIDE DEF known
  <2> TAKE r \in DOMAIN service
  <2> TAKE u \in Later
  <2>1. r.type \in QuestionType /\ r.content \in STRING /\ u \in Database /\ Grown(d, u)
    BY <1>3
  <2>2. service[r][u] = CreateQuestion(u, a, r.type, r.content)
    OBVIOUS
  <2>3. ASSUME NEW x \in CreateQuestion(u, a, r.type, r.content) PROVE x \in Later
    <3>1. Grown(u, x)
      BY <2>1, CreateQuestionGrows
    <3>2. Grown(d, x)
      BY <2>1, <3>1 DEF Grown
    <3> QED  BY <3>2 DEF Grown
  <2> QED  BY <2>2, <2>3
<1>5. DOMAIN service \subseteq file
  <2> HIDE DEF known
  <2> QED  OBVIOUS
<1>6. IsFiniteSet(DOMAIN service)
  <2> HIDE DEF service
  <2> QED  BY <1>5, FS_Subset
<1>7. d \in Later
  BY DEF Grown
<1> HIDE DEF service
<1>8. Each(service, d) \subseteq Later
  <2> HIDE DEF Later
  <2> QED  BY <1>4, <1>6, <1>7, EachKeeps
<1> QED  BY <1>1, <1>8, GrownKept

\* Editing a question keeps its type and its owner.
LEMMA UpdateQuestionBanks ==
  ASSUME NEW d \in Database, KeysHold(d), NEW a, NEW q, NEW content \in STRING,
         NEW v \in UpdateQuestion(d, a, q, content)
  PROVE  BankKept(d, v)
<1>1. q \in Rows(d, "questions") /\ v = Set(d, "questions", {q}, "content", content)
  BY DEF UpdateQuestion, Given, Owns
<1>2. [d["questions"][q] EXCEPT !["content"] = content] \in Rowset["questions"]
  BY <1>1, RowsAre, RowsetIs DEF Question
<1>3. SetTo(d, v, "questions", {q}, "content", content)
  BY <1>1, <1>2, SetValues, TableNames
<1>4. ASSUME NEW o \in Rows(d, "questions")
      PROVE  v.questions[o].type = d.questions[o].type /\ v.questions[o].owner = d.questions[o].owner
  <2>1. d.questions[o] \in Question
    BY RowsAre
  <2>2. v.questions[o] = IF o = q THEN [d.questions[o] EXCEPT !["content"] = content] ELSE d.questions[o]
    BY <1>3 DEF SetTo
  <2> QED  BY <2>1, <2>2 DEF Question
<1>5. v.items = d.items /\ v.banks = d.banks
  BY <1>3, TableNames DEF SetTo, SameBut
<1>6. Untouched(d, v) /\ QuestionsStay(d, v)
  BY <1>4, <1>5, ItemKeys DEF Untouched, QuestionsStay
<1> QED  BY <1>6, UntouchedFits DEF BankKept

\* A question is deleted only when no package holds it.
LEMMA DeleteQuestionBanks ==
  ASSUME NEW d \in Database, KeysHold(d), NEW a, NEW q, NEW v \in DeleteQuestion(d, a, q)
  PROVE  BankKept(d, v)
<1>1. /\ \A i \in Rows(d, "items") : d.items[i].question # q
      /\ v = Drop(d, "questions", {q})
  BY DEF DeleteQuestion, Given
<1>2. DropTo(d, v, "questions", {q})
  BY <1>1, DropValues, TableNames
<1>3. v.items = d.items /\ v.banks = d.banks
  BY <1>2, TableNames DEF DropTo, SameBut
<1>4. Untouched(d, v) /\ QuestionsStay(d, v)
  BY <1>1, <1>2, <1>3, ItemKeys DEF DropTo, Untouched, QuestionsStay
<1> QED  BY <1>4, UntouchedFits DEF BankKept

\* A new package holds nothing and is not ready.
LEMMA CreatePackageBanks ==
  ASSUME NEW d \in Database, KeysHold(d), NEW a \in Ids.accounts,
         NEW target \in [QuestionType -> Nat], NEW v \in CreatePackage(d, a, target)
  PROVE  BankKept(d, v)
<1> DEFINE row == [owner |-> a, target |-> target, status |-> "INCOMPLETE"]
           n == New(d, "banks")
<1>1. Free(d, "banks") # {} /\ v = Insert(d, "banks", row)
  BY DEF CreatePackage, Given
<1>2. row \in Rowset["banks"] /\ row.status = "INCOMPLETE"
  BY RowsetIs DEF Bank
<1> HIDE DEF row
<1>3. AddTo(d, v, "banks", n, row)
  BY <1>1, <1>2, AddValues, IdsAre, TableNames
<1> HIDE DEF n
<1>4. v.items = d.items /\ v.questions = d.questions
  BY <1>3, TableNames DEF AddTo, SameBut
<1>5. \A b : SameItems(d, v, b)
  BY <1>4 DEF SameItems, ItemsOf, Rows
<1>6. ItemsOf(v, n) = {}
  BY <1>3, <1>4, ItemKeys DEF AddTo, ItemsOf, Rows
<1>7. BankFits(v, n)
  <2>1. Cardinality(ItemsOf(v, n)) = 0
    BY <1>6, FS_EmptySet
  <2>2. {v.items[i].order : i \in ItemsOf(v, n)} = {}
    BY <1>6
  <2>3. Lined(v, n)
    <3>1. 1..0 = {}
      OBVIOUS
    <3> QED  BY <2>1, <2>2, <3>1 DEF Lined
  <2>4. Owned(v, n) /\ Stocked(v, n)
    BY <1>2, <1>3, <1>6 DEF Owned, Stocked, AddTo
  <2> QED  BY <2>3, <2>4, BankParts
<1>8. BanksFit(d) => BanksFit(v)
  BY <1>3, <1>5, <1>7, SameFits DEF BanksFit, AddTo
<1> QED  BY <1>4, <1>8 DEF BankKept, QuestionsStay

\* Only the status of one package is written.
Stamped(d, v, b, st) ==
  /\ v.items = d.items /\ v.questions = d.questions /\ Rows(v, "banks") = Rows(d, "banks")
  /\ \A c \in Rows(d, "banks") :
       v.banks[c] = IF c = b THEN [d.banks[c] EXCEPT !["status"] = st] ELSE d.banks[c]

\* A package is stamped as ready only with enough questions.
LEMMA StampedKept ==
  ASSUME NEW d \in Database, NEW v, NEW b, NEW st, Stamped(d, v, b, st),
         st = "READY" =>
           \A type \in QuestionType : CountOf(d, b, type) >= d.banks[b].target[type]
  PROVE  BankKept(d, v)
<1>1. \A c : SameItems(d, v, c)
  BY DEF Stamped, SameItems, ItemsOf, Rows
<1>2. ASSUME BankFits(d, b), b \in Rows(d, "banks") PROVE BankFits(v, b)
  <2>1. d.banks[b] \in Bank
    BY <1>2, RowsAre
  <2>2. v.banks[b] = [d.banks[b] EXCEPT !["status"] = st]
    BY <1>2 DEF Stamped
  <2>3. /\ v.banks[b].owner = d.banks[b].owner /\ v.banks[b].target = d.banks[b].target
        /\ v.banks[b].status = st
    BY <2>1, <2>2 DEF Bank
  <2>4. Lined(v, b) /\ Owned(v, b)
    BY <1>1, <1>2, <2>3, SameLined, SameOwned, BankParts
  <2>5. Stocked(v, b)
    BY <1>1, <2>3, SameCount DEF Stocked
  <2> QED  BY <2>4, <2>5, BankParts
<1>3. BanksFit(d) => BanksFit(v)
  BY <1>1, <1>2, SameFits DEF BanksFit, Stamped
<1> QED  BY <1>3 DEF BankKept, QuestionsStay, Stamped

\* What setting the status writes.
LEMMA StampIs ==
  ASSUME NEW d \in Database, NEW b \in Rows(d, "banks"), NEW st \in {"INCOMPLETE", "READY"}
  PROVE  LET v == Set(d, "banks", {b}, "status", st)
         IN v \in Database /\ Stamped(d, v, b, st) /\ SameBut(d, v, {"banks"})
<1> DEFINE v == Set(d, "banks", {b}, "status", st)
<1>1. [d["banks"][b] EXCEPT !["status"] = st] \in Rowset["banks"]
  BY RowsAre, RowsetIs DEF Bank
<1>2. SetTo(d, v, "banks", {b}, "status", st)
  BY <1>1, SetValues, TableNames
<1> HIDE DEF v
<1>3. v \in Database /\ Stamped(d, v, b, st) /\ SameBut(d, v, {"banks"})
  BY <1>2, TableNames DEF SetTo, SameBut, Stamped
<1> QED  BY <1>3 DEF v

\* publish_package counts before it stamps.
LEMMA PublishPackageBanks ==
  ASSUME NEW d \in Database, NEW a, NEW b, NEW v \in PublishPackage(d, a, b)
  PROVE  BankKept(d, v)
<1>1. /\ b \in Rows(d, "banks") /\ v = Set(d, "banks", {b}, "status", "READY")
      /\ \A type \in QuestionType : CountOf(d, b, type) >= d.banks[b].target[type]
  BY DEF PublishPackage, Given, OwnsPackage
<1>2. Stamped(d, v, b, "READY")
  BY <1>1, StampIs
<1> QED  BY <1>1, <1>2, StampedKept

\* A reverted package is incomplete.
LEMMA RevertPackageBanks ==
  ASSUME NEW d \in Database, KeysHold(d), NEW a, NEW b, NEW v \in RevertPackage(d, a, b)
  PROVE  BankKept(d, v)
<1> DEFINE w == Set(d, "schedules", UsedFor(d, b), "status", "DRAFT")
<1>1. b \in Rows(d, "banks") /\ v = Set(w, "banks", {b}, "status", "INCOMPLETE")
  BY DEF RevertPackage, Given, Unheld, OwnsPackage
<1>2. w \in Database /\ SameBut(d, w, {"schedules"})
  <2>1. Restated(d, w, UsedFor(d, b), "DRAFT", FALSE) /\ SameBut(d, w, {"schedules"})
    BY UsedForRows, StatusRestates DEF ScheduleStatus
  <2> QED  BY <2>1 DEF Restated
<1> HIDE DEF w
<1>3. w.items = d.items /\ w.questions = d.questions /\ w.banks = d.banks
  BY <1>2, TableNames DEF SameBut
<1>4. Stamped(w, v, b, "INCOMPLETE")
  BY <1>1, <1>2, <1>3, StampIs DEF Rows
<1>5. Stamped(d, v, b, "INCOMPLETE")
  BY <1>3, <1>4 DEF Stamped, Rows
<1> QED  BY <1>5, StampedKept

\* The packages of gone and the items of lost are deleted; the rest stays.
Pruned(d, v, gone, lost) ==
  /\ Rows(v, "banks") = Rows(d, "banks") \ gone
  /\ Rows(v, "items") = Rows(d, "items") \ lost
  /\ \A b \in Rows(v, "banks") : v.banks[b] = d.banks[b]
  /\ \A i \in Rows(v, "items") : v.items[i] = d.items[i]
  /\ QuestionsStay(d, v)

\* Whole packages may go, with their items and with questions that no other
\* package holds.
LEMMA PrunedFits ==
  ASSUME NEW d \in Database, KeysHold(d), NEW v, NEW gone, NEW lost, Pruned(d, v, gone, lost),
         \A i \in lost : d.items[i].package \in gone,
         \A i \in Rows(v, "items") : d.items[i].package \notin gone =>
            d.items[i].question \in Rows(v, "questions"),
         BanksFit(d)
  PROVE  BanksFit(v)
<1>1. ASSUME NEW b \in Rows(v, "banks") PROVE SameItems(d, v, b)
  <2>1. b \in Rows(d, "banks") /\ b \notin gone
    BY DEF Pruned
  <2>2. ItemsOf(v, b) = ItemsOf(d, b)
    BY <2>1 DEF ItemsOf, Pruned
  <2>3. ASSUME NEW i \in ItemsOf(d, b)
        PROVE  /\ v.items[i] = d.items[i]
               /\ d.items[i].question \in Rows(d, "questions") \cap Rows(v, "questions")
    <3>1. i \in Rows(v, "items") /\ i \in Rows(d, "items") /\ d.items[i].package = b
      BY <2>1, <2>2 DEF ItemsOf
    <3> QED  BY <2>1, <3>1, ItemKeys DEF Pruned
  <2> QED  BY <2>2, <2>3 DEF SameItems, Pruned, QuestionsStay
<1>2. \A b \in Rows(v, "banks") : b \in Rows(d, "banks") /\ v.banks[b] = d.banks[b]
  BY DEF Pruned
<1> QED  BY <1>1, <1>2, SameFits DEF BanksFit

\* delete_package deletes a package with its items.
LEMMA DeletePackageBanks ==
  ASSUME NEW d \in Database, KeysHold(d), NEW a, NEW b, NEW v \in DeletePackage(d, a, b)
  PROVE  BankKept(d, v)
<1> DEFINE w == Set(d, "schedules", UsedFor(d, b), "status", "DRAFT")
           x == Drop(w, "snapshots", Uses(d, b))
           y == Drop(x, "items", ItemsOf(d, b))
<1>1. v = Drop(y, "banks", {b})
  BY DEF DeletePackage, Given
<1>2. w \in Database /\ SameBut(d, w, {"schedules"})
  <2>1. Restated(d, w, UsedFor(d, b), "DRAFT", FALSE) /\ SameBut(d, w, {"schedules"})
    BY UsedForRows, StatusRestates DEF ScheduleStatus
  <2> QED  BY <2>1 DEF Restated
<1> HIDE DEF w
<1>3. DropTo(w, x, "snapshots", Uses(d, b))
  BY <1>2, DropValues, TableNames
<1> HIDE DEF x
<1>4. DropTo(x, y, "items", ItemsOf(d, b))
  BY <1>3, DropValues, TableNames DEF DropTo
<1> HIDE DEF y
<1>5. DropTo(y, v, "banks", {b})
  BY <1>1, <1>4, DropValues, TableNames DEF DropTo
<1>6. x.items = d.items /\ x.questions = d.questions /\ x.banks = d.banks
  BY <1>2, <1>3, TableNames DEF DropTo, SameBut
<1>7. y.questions = d.questions /\ y.banks = d.banks /\ v.items = y.items /\ v.questions = y.questions
  BY <1>4, <1>5, <1>6, TableNames DEF DropTo, SameBut
<1>8. Pruned(d, v, {b}, ItemsOf(d, b))
  BY <1>4, <1>5, <1>6, <1>7 DEF Pruned, DropTo, Rows, QuestionsStay
<1>9. \A i \in Rows(v, "items") : d.items[i].question \in Rows(v, "questions")
  <2>1. \A i \in Rows(v, "items") : i \in Rows(d, "items")
    BY <1>8 DEF Pruned
  <2>2. Rows(v, "questions") = Rows(d, "questions")
    BY <1>7 DEF Rows
  <2> QED  BY <2>1, <2>2, ItemKeys
<1>10. \A i \in ItemsOf(d, b) : d.items[i].package \in {b}
  BY DEF ItemsOf
<1>11. BanksFit(d) => BanksFit(v)
  BY <1>8, <1>9, <1>10, PrunedFits
<1> QED  BY <1>8, <1>11 DEF BankKept, Pruned

\* delete_teacher deletes the packages and the questions of the teacher: no
\* other owner's package holds a question of his.
LEMMA DeleteTeacherBanks ==
  ASSUME NEW d \in Database, KeysHold(d), NEW a, NEW v \in DeleteTeacher(d, a)
  PROVE  BankKept(d, v)
<1> DEFINE Of(t, col) == {i \in Rows(d, t) : d[t][i][col] = a}
           banks == Of("banks", "owner")
           questions == Of("questions", "owner")
           own == {i \in Rows(d, "items") : \/ d.items[i].package \in banks
                                            \/ d.items[i].question \in questions}
           u == Drop(d, "competency", Of("competency", "teacher"))
           w == Drop(u, "teaching", Of("teaching", "teacher"))
           x == Drop(w, "items", own)
           y == Drop(x, "banks", banks)
           z == Drop(y, "questions", questions)
<1>1. v = Drop(z, "accounts", {a})
  BY DEF DeleteTeacher, Given
<1>a. /\ banks = {b \in Rows(d, "banks") : d.banks[b].owner = a}
      /\ questions = {q \in Rows(d, "questions") : d.questions[q].owner = a}
      /\ own = {i \in Rows(d, "items") : \/ d.items[i].package \in banks
                                         \/ d.items[i].question \in questions}
  OBVIOUS
<1> HIDE DEF Of, own, banks, questions
<1>2. DropTo(d, u, "competency", Of("competency", "teacher"))
  BY DropValues, TableNames
<1> HIDE DEF u
<1>3. DropTo(u, w, "teaching", Of("teaching", "teacher"))
  BY <1>2, DropValues, TableNames DEF DropTo
<1> HIDE DEF w
<1>4. DropTo(w, x, "items", own)
  BY <1>3, DropValues, TableNames DEF DropTo
<1> HIDE DEF x
<1>5. DropTo(x, y, "banks", banks)
  BY <1>4, DropValues, TableNames DEF DropTo
<1> HIDE DEF y
<1>6. DropTo(y, z, "questions", questions)
  BY <1>5, DropValues, TableNames DEF DropTo
<1> HIDE DEF z
<1>7. DropTo(z, v, "accounts", {a})
  BY <1>1, <1>6, DropValues, TableNames DEF DropTo
<1>8. /\ w.items = d.items /\ x.banks = d.banks /\ y.questions = d.questions
      /\ v.items = x.items /\ v.banks = y.banks /\ v.questions = z.questions
  BY <1>2, <1>3, <1>4, <1>5, <1>6, <1>7, TableNames DEF DropTo, SameBut
<1>9. /\ Rows(v, "items") = Rows(d, "items") \ own /\ Rows(v, "banks") = Rows(d, "banks") \ banks
      /\ Rows(v, "questions") = Rows(d, "questions") \ questions
      /\ \A i \in Rows(v, "items") : v.items[i] = d.items[i]
      /\ \A b \in Rows(v, "banks") : v.banks[b] = d.banks[b]
      /\ \A q \in Rows(v, "questions") : v.questions[q] = d.questions[q]
  BY <1>4, <1>5, <1>6, <1>8 DEF DropTo, Rows
<1> DEFINE lost == {i \in own : d.items[i].package \in banks}
<1>10. ASSUME BanksFit(d) PROVE BanksFit(v)
  <2>1. ASSUME NEW i \in own PROVE d.items[i].package \in banks
    <3>1. i \in Rows(d, "items") /\ (d.items[i].package \in banks \/ d.items[i].question \in questions)
      BY <1>a
    <3>2. d.items[i].package \in Rows(d, "banks")
      BY <3>1, ItemKeys
    <3>3. d.questions[d.items[i].question].owner = d.banks[d.items[i].package].owner
      BY <1>10, <3>1, <3>2 DEF BanksFit, BankFits, ItemsOf
    <3> QED  BY <1>a, <3>1, <3>2, <3>3
  <2>2. \A i \in Rows(v, "items") : d.items[i].question \in Rows(v, "questions")
    BY <1>a, <1>9, ItemKeys
  <2>3. Pruned(d, v, banks, own)
    BY <1>9 DEF Pruned, QuestionsStay
  <2> QED  BY <1>10, <2>1, <2>2, <2>3, PrunedFits
<1> QED  BY <1>9, <1>10 DEF BankKept, QuestionsStay

\* The items of one package are worked over.
Reworked(d, w, b) ==
  /\ w \in Database /\ SameBut(d, w, {"items"})
  /\ \A c \in Rows(d, "banks") \ {b} :
       ItemsOf(w, c) = ItemsOf(d, c) /\ \A i \in ItemsOf(d, c) : w.items[i] = d.items[i]

\* Other packages hold what they held.
LEMMA ReworkedSame ==
  ASSUME NEW d, NEW w, NEW b, Reworked(d, w, b)
  PROVE  /\ w.questions = d.questions /\ w.banks = d.banks /\ Rows(w, "banks") = Rows(d, "banks")
         /\ \A c \in Rows(d, "banks") \ {b} : SameItems(d, w, c)
<1>1. w.questions = d.questions /\ w.banks = d.banks
  BY TableNames DEF Reworked, SameBut
<1> QED  BY <1>1 DEF Reworked, SameItems, Rows

\* A package that was worked over and is in line is rated anew, by counting.
LEMMA RatedKept ==
  ASSUME NEW d \in Database, NEW w, NEW b \in Rows(d, "banks"), Reworked(d, w, b),
         BanksFit(d) => Lined(w, b) /\ Owned(w, b)
  PROVE  BankKept(d, Rated(w, b))
<1> DEFINE full == \A type \in QuestionType : CountOf(w, b, type) = w.banks[b].target[type]
           st == IF full THEN "READY" ELSE "INCOMPLETE"
           v == Set(w, "banks", {b}, "status", st)
<1>1. w \in Database /\ b \in Rows(w, "banks") /\ w.questions = d.questions /\ w.banks = d.banks
  BY ReworkedSame DEF Reworked
<1>2. v = Rated(w, b)
  BY DEF Rated
<1>3. st \in {"INCOMPLETE", "READY"} /\ (st = "READY" => full)
  OBVIOUS
<1>4. full => \A type \in QuestionType : CountOf(w, b, type) >= w.banks[b].target[type]
  <2> SUFFICES ASSUME full, NEW type \in QuestionType
               PROVE  CountOf(w, b, type) >= w.banks[b].target[type]
    OBVIOUS
  <2>1. w.banks[b].target[type] \in Nat
    BY <1>1, RowsAre DEF Bank
  <2> QED  BY <2>1
<1> HIDE DEF full, st
<1>5. Stamped(w, v, b, st)
  BY <1>1, <1>3, StampIs
<1> HIDE DEF v
<1>6. ASSUME BanksFit(d) PROVE BanksFit(v)
  <2>1. ASSUME NEW c \in Rows(v, "banks"), c # b PROVE BankFits(v, c)
    <3>1. c \in Rows(d, "banks") /\ c \in Rows(w, "banks") /\ v.banks[c] = d.banks[c]
      BY <1>1, <1>5, <2>1 DEF Stamped, Rows
    <3>2. SameItems(d, w, c)
      BY <2>1, <3>1, ReworkedSame
    <3>3. SameItems(d, v, c)
      BY <1>5, <3>2 DEF SameItems, Stamped, ItemsOf, Rows
    <3> QED  BY <1>6, <3>1, <3>3, SameFits DEF BanksFit
  <2>2. BankFits(v, b)
    <3>1. SameItems(w, v, b)
      BY <1>5 DEF SameItems, Stamped, ItemsOf, Rows
    <3>2. w.banks[b] \in Bank
      BY <1>1, RowsAre
    <3>3. v.banks[b] = [w.banks[b] EXCEPT !["status"] = st]
      BY <1>1, <1>5 DEF Stamped
    <3>4. /\ v.banks[b].owner = w.banks[b].owner /\ v.banks[b].target = w.banks[b].target
          /\ v.banks[b].status = st
      BY <3>2, <3>3 DEF Bank
    <3>5. Lined(v, b) /\ Owned(v, b)
      BY <1>6, <3>1, <3>4, SameLined, SameOwned
    <3>6. Stocked(v, b)
      BY <1>3, <1>4, <3>1, <3>4, SameCount DEF Stocked
    <3> QED  BY <3>5, <3>6, BankParts
  <2> QED  BY <2>1, <2>2 DEF BanksFit
<1>7. QuestionsStay(d, v)
  BY <1>1, <1>5 DEF QuestionsStay, Stamped
<1> QED  BY <1>2, <1>6, <1>7 DEF BankKept

\* The items of a package are finitely many rows.
LEMMA ItemsFinite ==
  ASSUME NEW d \in Database, NEW b
  PROVE  /\ IsFiniteSet(ItemsOf(d, b)) /\ Cardinality(ItemsOf(d, b)) \in Nat
         /\ \A i \in ItemsOf(d, b) : i \in Ids.items /\ d.items[i] \in Item
<1>1. ItemsOf(d, b) \in SUBSET Ids["items"] /\ \A i \in ItemsOf(d, b) : d.items[i] \in Item
  BY RowsAre DEF ItemsOf
<1> QED  BY <1>1, IdsFinite, TableNames, FS_CardinalityType

\* The greatest of 1..n.
LEMMA TopOfLine ==
  ASSUME NEW n \in Nat, n # 0
  PROVE  Max(1..n) = n
<1>1. \A x \in 1..n : (\A y \in 1..n : x >= y) <=> x = n
  OBVIOUS
<1>2. n \in 1..n
  OBVIOUS
<1> QED  BY <1>1, <1>2 DEF Max

\* The last order in a line is their number.
LEMMA MaxOrderIs ==
  ASSUME NEW d \in Database, NEW b, Lined(d, b)
  PROVE  MaxOrder(d, b) = Cardinality(ItemsOf(d, b))
<1>1. CASE ItemsOf(d, b) = {}
  BY <1>1, FS_EmptySet DEF MaxOrder
<1>2. CASE ItemsOf(d, b) # {}
  <2>1. Cardinality(ItemsOf(d, b)) # 0
    BY <1>2, ItemsFinite, FS_EmptySet
  <2> QED  BY <1>2, <2>1, ItemsFinite, TopOfLine DEF MaxOrder, Lined
<1> QED  BY <1>1, <1>2

\* A question is added at the end of the line.
LEMMA AddQuestionBanks ==
  ASSUME NEW d \in Database, KeysHold(d), NEW a, NEW b, NEW q, NEW v \in AddQuestion(d, a, b, q)
  PROVE  BankKept(d, v)
<1> DEFINE row == [package |-> b, question |-> q, order |-> MaxOrder(d, b) + 1]
           n == New(d, "items")
           w == Insert(d, "items", row)
<1>1. /\ b \in Rows(d, "banks") /\ d.banks[b].owner = a /\ q \in Rows(d, "questions")
      /\ d.questions[q].owner = a /\ Free(d, "items") # {} /\ v = Rated(w, b)
  BY DEF AddQuestion, Given, OwnsPackage, Owns
<1>2. row \in Rowset["items"]
  <2>1. MaxOrder(d, b) \in Int
    BY MaxOrderTyped
  <2> QED  BY <1>1, <2>1, RowsAre, RowsetIs DEF Item
<1>3. row.package = b /\ row.question = q /\ row.order = MaxOrder(d, b) + 1
  OBVIOUS
<1> HIDE DEF row
<1>4. AddTo(d, w, "items", n, row)
  BY <1>1, <1>2, AddValues, IdsAre, TableNames
<1> HIDE DEF w, n
<1>5. /\ ItemsOf(w, b) = ItemsOf(d, b) \cup {n} /\ n \notin ItemsOf(d, b)
      /\ \A i \in ItemsOf(d, b) : w.items[i] = d.items[i]
      /\ w.items[n] = row
  BY <1>3, <1>4 DEF AddTo, ItemsOf
<1>6. Reworked(d, w, b)
  BY <1>3, <1>4 DEF AddTo, Reworked, ItemsOf
<1>7. w.questions = d.questions /\ w.banks = d.banks
  BY <1>6, ReworkedSame
<1>8. ASSUME Lined(d, b) PROVE Lined(w, b)
  <2> DEFINE c == Cardinality(ItemsOf(d, b))
  <2>1. c \in Nat /\ MaxOrder(d, b) = c /\ Cardinality(ItemsOf(w, b)) = c + 1
    BY <1>5, <1>8, MaxOrderIs, ItemsFinite, FS_AddElement
  <2>2. {w.items[i].order : i \in ItemsOf(w, b)} = {d.items[i].order : i \in ItemsOf(d, b)} \cup {c + 1}
    BY <1>3, <1>5, <2>1
  <2>3. {d.items[i].order : i \in ItemsOf(d, b)} = 1..c
    BY <1>8 DEF Lined
  <2>4. (1..c) \cup {c + 1} = 1..(c + 1)
    BY <2>1
  <2> QED  BY <2>1, <2>2, <2>3, <2>4 DEF Lined
<1>9. ASSUME Owned(d, b) PROVE Owned(w, b)
  BY <1>1, <1>3, <1>5, <1>7, <1>9 DEF Owned
<1>10. BanksFit(d) => Lined(w, b) /\ Owned(w, b)
  BY <1>1, <1>8, <1>9, BankParts DEF BanksFit
<1> QED  BY <1>1, <1>6, <1>10, RatedKept

\* Things numbered anew by how many come up to them are numbered in a line.
LEMMA RanksLine ==
  ASSUME NEW S, IsFiniteSet(S), NEW f \in [S -> Int], \A i, j \in S : f[i] = f[j] => i = j
  PROVE  {Cardinality({j \in S : f[j] <= f[i]}) : i \in S} = 1..Cardinality(S)
<1> DEFINE Upto_(i) == {j \in S : f[j] <= f[i]}
           n == Cardinality(S)
           rank == [i \in S |-> Cardinality(Upto_(i))]
<1>1. n \in Nat /\ IsFiniteSet(1..n) /\ Cardinality(1..n) = n
  BY FS_CardinalityType, FS_Interval
<1>2. \A i \in S : /\ Upto_(i) \subseteq S /\ i \in Upto_(i) /\ IsFiniteSet(Upto_(i))
                   /\ Cardinality(Upto_(i)) \in Nat /\ Cardinality(Upto_(i)) <= n
  <2> TAKE i \in S
  <2>1. Upto_(i) \subseteq S /\ i \in Upto_(i)
    BY DEF Upto_
  <2> HIDE DEF Upto_
  <2> QED  BY <2>1, FS_Subset, FS_CardinalityType
<1>3. ASSUME NEW i \in S, NEW j \in S, f[i] < f[j]
      PROVE  Cardinality(Upto_(i)) # Cardinality(Upto_(j))
  <2>1. Upto_(i) \subseteq Upto_(j) /\ j \notin Upto_(i)
    <3>1. \A k \in S : f[k] \in Int /\ f[i] \in Int /\ f[j] \in Int
      OBVIOUS
    <3>2. \A k \in S : f[k] <= f[i] => f[k] <= f[j]
      BY <1>3, <3>1
    <3>3. ~(f[j] <= f[i])
      BY <1>3, <3>1
    <3> QED  BY <3>2, <3>3 DEF Upto_
  <2> HIDE DEF Upto_
  <2>2. Upto_(i) # Upto_(j)
    BY <1>2, <2>1
  <2> QED  BY <1>2, <2>1, <2>2, FS_Subset
<1>4. \A i \in S : Cardinality(Upto_(i)) \in 1..n
  <2> TAKE i \in S
  <2> HIDE DEF Upto_
  <2>1. Cardinality(Upto_(i)) # 0
    BY <1>2, FS_EmptySet
  <2> QED  BY <1>1, <1>2, <2>1
<1>5. \A i, j \in S : Cardinality(Upto_(i)) = Cardinality(Upto_(j)) => i = j
  <2> SUFFICES ASSUME NEW i \in S, NEW j \in S, i # j
               PROVE  Cardinality(Upto_(i)) # Cardinality(Upto_(j))
    OBVIOUS
  <2>1. f[i] \in Int /\ f[j] \in Int /\ f[i] # f[j]
    OBVIOUS
  <2>2. f[i] < f[j] \/ f[j] < f[i]
    BY <2>1
  <2> HIDE DEF Upto_
  <2> QED  BY <1>3, <2>2
<1> HIDE DEF Upto_
<1>6. rank \in Injection(S, 1..n)
  BY <1>4, <1>5 DEF Injection, IsInjective
<1>7. rank \in Surjection(S, 1..n)
  <2> HIDE DEF rank, n
  <2> QED  BY <1>1, <1>6, FS_Injection DEF n
<1>8. {rank[i] : i \in S} = 1..n
  <2>1. \A i \in S : rank[i] \in 1..n
    BY <1>4
  <2> HIDE DEF rank, n
  <2> QED  BY <1>7, <2>1 DEF Surjection
<1>9. {Cardinality(Upto_(i)) : i \in S} = 1..n
  BY <1>8
<1> QED  BY <1>9 DEF Upto_

\* In a line of as many places as things no two share a place.
LEMMA LinedApart ==
  ASSUME NEW d \in Database, NEW b, Lined(d, b)
  PROVE  \A i, j \in ItemsOf(d, b) : d.items[i].order = d.items[j].order => i = j
<1> DEFINE S == ItemsOf(d, b)
           n == Cardinality(S)
           order == [i \in S |-> d.items[i].order]
<1>1. IsFiniteSet(S) /\ n \in Nat /\ Cardinality(1..n) = n
  BY ItemsFinite, FS_Interval
<1>2. {d.items[i].order : i \in S} = 1..n
  BY DEF Lined
<1> HIDE DEF n, S
<1>3. order \in Surjection(S, 1..n)
  BY <1>2 DEF Surjection
<1> HIDE DEF order
<1>4. order \in Injection(S, 1..n)
  BY <1>1, <1>3, FS_SurjSameCardinalityImpliesInj DEF n
<1>5. \A i, j \in S : order[i] = order[j] => i = j
  BY <1>4 DEF Injection, IsInjective
<1> QED  BY <1>5 DEF order, S

\* A package may be worked over if it fits in the end.
LEMMA ReworkedKept ==
  ASSUME NEW d \in Database, NEW v, NEW b \in Rows(d, "banks"), Reworked(d, v, b),
         BanksFit(d) => BankFits(v, b)
  PROVE  BankKept(d, v)
<1>1. BanksFit(d) => BanksFit(v)
  BY ReworkedSame, SameFits DEF BanksFit
<1> QED  BY <1>1, ReworkedSame DEF BankKept, QuestionsStay

\* The items of a package are given other orders.
Renumbered(d, v, b, new) ==
  /\ v \in Database /\ SameBut(d, v, {"items"}) /\ Rows(v, "items") = Rows(d, "items")
  /\ \A i \in Rows(d, "items") :
       v.items[i] = IF i \in ItemsOf(d, b) THEN [d.items[i] EXCEPT !.order = new[i]] ELSE d.items[i]

\* What writing the orders leaves.
LEMMA RenumberIs ==
  ASSUME NEW d \in Database, NEW b, NEW new \in [ItemsOf(d, b) -> Int]
  PROVE  Renumbered(d, [d EXCEPT !.items = [i \in DOMAIN @ |->
                          IF i \in ItemsOf(d, b) THEN [@[i] EXCEPT !.order = new[i]] ELSE @[i]]],
                    b, new)
<1> DEFINE to(i) == IF i \in ItemsOf(d, b) THEN [d.items[i] EXCEPT !.order = new[i]] ELSE d.items[i]
           f == [i \in Ids.items |-> to(i)]
           v == [d EXCEPT !.items = f]
<1>1. d["items"] \in [Ids["items"] -> Opt(Rowset["items"])]
  BY DatabaseIs, TableNames DEF Table
<1>2. \A i \in ItemsOf(d, b) : [d.items[i] EXCEPT !.order = new[i]] \in Item /\ d.items[i] # Null
  <2>1. \A i \in ItemsOf(d, b) : d.items[i] \in Item /\ new[i] \in Int
    BY ItemsFinite
  <2>2. \A i \in ItemsOf(d, b) : d.items[i] # Null
    BY DEF ItemsOf, Rows
  <2> QED  BY <2>1, <2>2 DEF Item
<1>3. \A i \in Ids.items : to(i) \in Opt(Rowset["items"])
  BY <1>1, <1>2, RowsetIs DEF Opt
<1>4. \A i \in Ids.items : to(i) # Null <=> d.items[i] # Null
  <2>1. Null \notin Item
    BY IdsAssumption, RowsetIs, TableNames
  <2> QED  BY <1>2, <2>1
<1>5. f \in Table("items") /\ f = [i \in Ids.items |-> f[i]] /\ \A i \in Ids.items : f[i] = to(i)
  <2> HIDE DEF to
  <2> QED  BY <1>3 DEF Table
<1> HIDE DEF f
<1>6. v \in Leaving(d, {}) /\ SameBut(d, v, {"items"})
  <2> DEFINE none == {}
  <2>1. none \in SUBSET Tables /\ "items" \notin none
    OBVIOUS
  <2> HIDE DEF none
  <2>2. v \in Leaving(d, none) /\ SameBut(d, v, {"items"})
    BY <1>5, <2>1, AsideTable, LeavingStays DEF Aside
  <2> QED  BY <2>2 DEF none
<1>7. v.items = f
  BY DatabaseIs, TableNames
<1>8. v = [d EXCEPT !.items = [i \in DOMAIN @ |->
             IF i \in ItemsOf(d, b) THEN [@[i] EXCEPT !.order = new[i]] ELSE @[i]]]
  BY <1>1, <1>5
<1> HIDE DEF v
<1>9. Rows(v, "items") = Rows(d, "items")
  BY <1>1, <1>4, <1>5, <1>7 DEF Rows
<1>10. Rows(d, "items") \subseteq Ids.items
  BY <1>1 DEF Rows
<1>11. Renumbered(d, v, b, new)
  BY <1>5, <1>6, <1>7, <1>9, <1>10, LeavingServes DEF Renumbered
<1> QED  BY <1>8, <1>11

\* Renumbered items are the same items.
LEMMA RenumberedItems ==
  ASSUME NEW d \in Database, NEW v, NEW b, NEW new, Renumbered(d, v, b, new)
  PROVE  /\ \A c : ItemsOf(v, c) = ItemsOf(d, c)
         /\ \A i \in Rows(d, "items") : v.items[i].question = d.items[i].question
         /\ \A i \in ItemsOf(d, b) : v.items[i].order = new[i]
         /\ v.questions = d.questions /\ v.banks = d.banks
<1>1. \A i \in Rows(d, "items") : d.items[i] \in Item
  BY RowsAre
<1>2. \A i \in Rows(d, "items") :
        v.items[i].package = d.items[i].package /\ v.items[i].question = d.items[i].question
  BY <1>1 DEF Renumbered, Item
<1>3. \A i \in ItemsOf(d, b) : v.items[i].order = new[i]
  BY <1>1 DEF Renumbered, Item, ItemsOf
<1>4. v.questions = d.questions /\ v.banks = d.banks
  BY TableNames DEF Renumbered, SameBut
<1> QED  BY <1>2, <1>3, <1>4 DEF Renumbered, ItemsOf

\* reorder_questions takes an order only if it is one of 1..n.
LEMMA ReorderBanks ==
  ASSUME NEW d \in Database, UniquesHold(d), NEW a, NEW b, NEW orders,
         \A q \in DOMAIN orders : orders[q] \in Int,
         NEW v \in ReorderQuestions(d, a, b, orders)
  PROVE  BankKept(d, v)
<1> DEFINE S == ItemsOf(d, b)
           held == {d.items[i].question : i \in S}
           new == [i \in S |-> orders[d.items[i].question]]
<1>1. /\ b \in Rows(d, "banks") /\ DOMAIN orders = held
      /\ {orders[q] : q \in DOMAIN orders} = 1..Cardinality(DOMAIN orders)
      /\ v = [d EXCEPT !.items = [i \in DOMAIN @ |->
               IF i \in S THEN [@[i] EXCEPT !.order = orders[d.items[i].question]] ELSE @[i]]]
  BY DEF ReorderQuestions, Given, OwnsPackage
<1>2. new \in [S -> Int]
  BY <1>1
<1>3. v = [d EXCEPT !.items = [i \in DOMAIN @ |->
               IF i \in S THEN [@[i] EXCEPT !.order = new[i]] ELSE @[i]]]
  BY <1>1
<1>4. \A i \in S : new[i] = orders[d.items[i].question]
  OBVIOUS
<1> HIDE DEF new
<1>5. Renumbered(d, v, b, new)
  BY <1>2, <1>3, RenumberIs
<1>6. Cardinality(held) = Cardinality(S)
  <2> DEFINE f == [i \in S |-> d.items[i].question]
  <2>1. \A i \in S : /\ i \in Rows(d, "items") /\ d.items[i].package = b
                     /\ d.items[i].package # Null /\ d.items[i].question # Null
    BY RowsAre, IdsAssumption, TableNames DEF ItemsOf, Item
  <2>2. <<"items", {"package", "question"}>> \in Uniques
    BY DEF Uniques
  <2>3. \A i, j \in S : d.items[i].question = d.items[j].question => i = j
    <3> SUFFICES ASSUME NEW i \in S, NEW j \in S, d.items[i].question = d.items[j].question
                 PROVE  i = j
      OBVIOUS
    <3>1. \A col \in {"package", "question"} :
            d["items"][i][col] # Null /\ d["items"][i][col] = d["items"][j][col]
      BY <2>1
    <3> QED  BY <2>1, <2>2, <3>1 DEF UniquesHold
  <2>4. f \in Injection(S, held) /\ f \in Surjection(S, held)
    BY <2>3 DEF Injection, IsInjective, Surjection
  <2> HIDE DEF f, S, held
  <2>5. IsFiniteSet(S)
    BY ItemsFinite DEF S
  <2>6. ExistsBijection(S, held)
    BY <2>4 DEF ExistsBijection, Bijection
  <2> QED  BY <2>5, <2>6, FS_Bijection
<1>7. ItemsOf(v, b) = S /\ {v.items[i].order : i \in S} = 1..Cardinality(S)
  <2>1. ItemsOf(v, b) = S /\ \A i \in S : v.items[i].order = orders[d.items[i].question]
    BY <1>4, <1>5, RenumberedItems
  <2>2. {orders[d.items[i].question] : i \in S} = {orders[q] : q \in held}
    OBVIOUS
  <2>3. {v.items[i].order : i \in S} = {orders[d.items[i].question] : i \in S}
    BY <2>1
  <2> HIDE DEF S, held
  <2> QED  BY <1>1, <1>6, <2>1, <2>2, <2>3
<1>8. Lined(v, b)
  BY <1>7 DEF Lined
<1>9. Reworked(d, v, b)
  <2>1. \A c : ItemsOf(v, c) = ItemsOf(d, c)
    BY <1>5, RenumberedItems
  <2>2. \A c \in Rows(d, "banks") \ {b} : \A i \in ItemsOf(d, c) : v.items[i] = d.items[i]
    BY <1>5 DEF Renumbered, ItemsOf
  <2> QED  BY <1>5, <2>1, <2>2 DEF Renumbered, Reworked
<1>10. Owned(d, b) => Owned(v, b)
  <2>1. \A i \in S : v.items[i].question = d.items[i].question
    BY <1>5, RenumberedItems DEF ItemsOf
  <2>2. v.questions = d.questions /\ v.banks = d.banks
    BY <1>5, RenumberedItems
  <2> QED  BY <1>7, <2>1, <2>2 DEF Owned
<1>11. \A type : CountOf(v, b, type) = CountOf(d, b, type)
  <2> TAKE type
  <2>1. {i \in ItemsOf(v, b) : v.questions[v.items[i].question].type = type}
         = {i \in ItemsOf(d, b) : d.questions[d.items[i].question].type = type}
    BY <1>5, <1>7, RenumberedItems DEF ItemsOf
  <2> QED  BY <2>1 DEF CountOf
<1>12. Stocked(d, b) => Stocked(v, b)
  BY <1>5, <1>11, RenumberedItems DEF Stocked
<1>13. BanksFit(d) => BankFits(v, b)
  BY <1>1, <1>8, <1>10, <1>12, BankParts DEF BanksFit
<1> QED  BY <1>1, <1>9, <1>13, ReworkedKept

\* A question is taken out of the line and the others close up.
LEMMA RemoveQuestionBanks ==
  ASSUME NEW d \in Database, NEW a, NEW b, NEW q, NEW v \in RemoveQuestion(d, a, b, q)
  PROVE  BankKept(d, v)
<1> DEFINE u == Drop(d, "items", Entry(d, b, q))
           Rank(o) == Cardinality({i \in ItemsOf(u, b) : u.items[i].order <= o})
           new == [i \in ItemsOf(u, b) |-> Rank(u.items[i].order)]
           w == [u EXCEPT !.items = [i \in DOMAIN @ |->
                  IF i \in ItemsOf(u, b) THEN [@[i] EXCEPT !.order = new[i]] ELSE @[i]]]
<1>1. b \in Rows(d, "banks") /\ v = Rated(w, b)
  <2>1. w = [u EXCEPT !.items = [i \in DOMAIN @ |->
              IF i \in ItemsOf(u, b) THEN [@[i] EXCEPT !.order = Rank(u.items[i].order)] ELSE @[i]]]
    <3> HIDE DEF u, Rank
    <3> QED  OBVIOUS
  <2> QED  BY <2>1 DEF RemoveQuestion, Given, OwnsPackage
<1>2. DropTo(d, u, "items", Entry(d, b, q))
  BY DropValues, TableNames
<1> HIDE DEF u
<1>3. u \in Database /\ u.questions = d.questions /\ u.banks = d.banks
  BY <1>2, TableNames DEF DropTo, SameBut
<1>4. /\ \A c \in Rows(d, "banks") \ {b} : ItemsOf(u, c) = ItemsOf(d, c)
      /\ ItemsOf(u, b) \subseteq ItemsOf(d, b)
      /\ \A c : \A i \in ItemsOf(u, c) : u.items[i] = d.items[i]
  BY <1>2 DEF DropTo, ItemsOf, Entry
<1> DEFINE S == ItemsOf(u, b)
           order == [i \in S |-> u.items[i].order]
<1>5. IsFiniteSet(S) /\ order \in [S -> Int]
  BY <1>3, ItemsFinite DEF Item
<1>6. new \in [S -> Int]
  <2>1. \A o : Rank(o) \in Int
    <3> TAKE o
    <3>1. {i \in S : u.items[i].order <= o} \subseteq S
      OBVIOUS
    <3> HIDE DEF S
    <3>2. Cardinality({i \in S : u.items[i].order <= o}) \in Int
      BY <1>5, <3>1, FS_Subset, FS_CardinalityType
    <3> QED  BY <3>2 DEF S
  <2> HIDE DEF Rank
  <2> QED  BY <2>1
<1>7. \A i \in S : new[i] = Cardinality({j \in S : order[j] <= order[i]})
  <2> TAKE i \in S
  <2>1. {j \in S : u.items[j].order <= u.items[i].order} = {j \in S : order[j] <= order[i]}
    OBVIOUS
  <2>2. new[i] = Cardinality({j \in S : u.items[j].order <= u.items[i].order})
    OBVIOUS
  <2> QED  BY <2>1, <2>2
<1> HIDE DEF new
<1>8. Renumbered(u, w, b, new)
  BY <1>3, <1>6, RenumberIs
<1> HIDE DEF w
<1>9. \A c : ItemsOf(w, c) = ItemsOf(u, c)
  BY <1>3, <1>8, RenumberedItems
<1>10. Lined(d, b) => Lined(w, b)
  <2> SUFFICES ASSUME Lined(d, b) PROVE Lined(w, b)
    OBVIOUS
  <2>1. \A i, j \in S : order[i] = order[j] => i = j
    BY <1>4, LinedApart
  <2>2. \A i \in S : w.items[i].order = new[i]
    BY <1>3, <1>8, RenumberedItems
  <2> HIDE DEF order
  <2>3. {w.items[i].order : i \in S} = {Cardinality({j \in S : order[j] <= order[i]}) : i \in S}
    BY <1>7, <2>2
  <2> HIDE DEF S
  <2>4. {Cardinality({j \in S : order[j] <= order[i]}) : i \in S} = 1..Cardinality(S)
    BY <1>5, <2>1, RanksLine
  <2>5. ItemsOf(w, b) = S
    BY <1>9 DEF S
  <2> QED  BY <2>3, <2>4, <2>5 DEF Lined
<1>11. Owned(d, b) => Owned(w, b)
  <2>1. \A i \in S : i \in ItemsOf(d, b) /\ w.items[i].question = d.items[i].question
    BY <1>3, <1>4, <1>8, RenumberedItems DEF ItemsOf
  <2>2. w.questions = d.questions /\ w.banks = d.banks
    BY <1>3, <1>8, RenumberedItems
  <2>3. ItemsOf(w, b) = S
    BY <1>9
  <2> HIDE DEF S
  <2> QED  BY <2>1, <2>2, <2>3 DEF Owned
<1>12. Reworked(d, w, b)
  <2>1. SameBut(d, w, {"items"}) /\ w \in Database
    BY <1>2, <1>8 DEF DropTo, Renumbered, SameBut
  <2>2. \A c \in Rows(d, "banks") \ {b} : \A i \in ItemsOf(u, c) : w.items[i] = u.items[i]
    BY <1>8 DEF Renumbered, ItemsOf
  <2> QED  BY <1>4, <1>9, <2>1, <2>2 DEF Reworked
<1>13. BanksFit(d) => Lined(w, b) /\ Owned(w, b)
  BY <1>1, <1>10, <1>11, BankParts DEF BanksFit
<1> QED  BY <1>1, <1>12, <1>13, RatedKept

\* A question takes the place of another.
LEMMA ReplaceQuestionBanks ==
  ASSUME NEW d \in Database, NEW a, NEW b, NEW old, NEW new, NEW v \in ReplaceQuestion(d, a, b, old, new)
  PROVE  BankKept(d, v)
<1> DEFINE hit == Entry(d, b, old)
           w == Set(d, "items", hit, "question", new)
<1>1. /\ b \in Rows(d, "banks") /\ d.banks[b].owner = a
      /\ new \in Rows(d, "questions") /\ d.questions[new].owner = a /\ v = Rated(w, b)
  BY DEF ReplaceQuestion, Given, OwnsPackage, Owns
<1>2. hit \in SUBSET Rows(d, "items") /\ hit \subseteq ItemsOf(d, b)
  BY DEF Entry, ItemsOf
<1>3. \A i \in hit : [d["items"][i] EXCEPT !["question"] = new] \in Rowset["items"]
  BY <1>1, <1>2, RowsAre, RowsetIs DEF Item
<1> HIDE DEF hit
<1>4. SetTo(d, w, "items", hit, "question", new)
  BY <1>2, <1>3, SetValues, TableNames
<1> HIDE DEF w
<1>5. \A i \in Rows(d, "items") :
        /\ w.items[i].package = d.items[i].package /\ w.items[i].order = d.items[i].order
        /\ w.items[i].question = IF i \in hit THEN new ELSE d.items[i].question
        /\ i \notin hit => w.items[i] = d.items[i]
  <2> TAKE i \in Rows(d, "items")
  <2>1. d.items[i] \in Item
    BY RowsAre
  <2>2. w.items[i] = IF i \in hit THEN [d.items[i] EXCEPT !["question"] = new] ELSE d.items[i]
    BY <1>4 DEF SetTo
  <2> QED  BY <2>1, <2>2 DEF Item
<1>6. \A c : ItemsOf(w, c) = ItemsOf(d, c)
  BY <1>4, <1>5 DEF ItemsOf, SetTo
<1>7. Reworked(d, w, b)
  <2>1. \A c \in Rows(d, "banks") \ {b} : \A i \in ItemsOf(d, c) : w.items[i] = d.items[i]
    BY <1>2, <1>5 DEF ItemsOf
  <2> QED  BY <1>4, <1>6, <2>1 DEF Reworked, SetTo
<1>8. w.questions = d.questions /\ w.banks = d.banks
  BY <1>7, ReworkedSame
<1>9. Lined(d, b) => Lined(w, b)
  <2>1. {w.items[i].order : i \in ItemsOf(w, b)} = {d.items[i].order : i \in ItemsOf(d, b)}
    BY <1>5, <1>6 DEF ItemsOf
  <2> QED  BY <1>6, <2>1 DEF Lined
<1>10. Owned(d, b) => Owned(w, b)
  BY <1>1, <1>5, <1>6, <1>8 DEF Owned, ItemsOf
<1>11. BanksFit(d) => Lined(w, b) /\ Owned(w, b)
  BY <1>1, <1>9, <1>10, BankParts DEF BanksFit
<1> QED  BY <1>1, <1>7, <1>11, RatedKept

-----------------------------------------------------------------------------
(* Every service on exams keeps all of it.                                 *)

\* What every service keeps of the exams, besides Kept.
ExamsKept(d, v, n) == PlanKept(d, v) /\ BankKept(d, v) /\ LockKept(d, v, n)

\* Who has an attempt or a check-in keeps his account.
TracedKept(d, v) ==
  \A a \in Students(d) : AttemptsOf(d, a) \cup CheckinsOf(d, a) # {} => a \in Students(v)

\* What a request may leave behind at the time n.
Answered(d, n) == {v \in Database : Kept(d, v) /\ TracedKept(d, v) /\ ExamsKept(d, v, n)}

\* What a service other than delete_student leaves keeps every account.
LEMMA ServedAnswers ==
  ASSUME NEW d \in Database, NEW v \in Served(d), NEW n, ExamsKept(d, v, n)
  PROVE  v \in Answered(d, n)
  BY DEF Answered, Served, TracedKept

\* The tables of the exams, part by part.
LEMMA SparesCover ==
  /\ ExamTables = PlanTables \cup BankTables \cup RoomTables
  /\ PlanSpares = BankTables \cup RoomTables /\ BankSpares = PlanTables \cup RoomTables
  /\ RoomSpares = PlanTables \cup BankTables
  BY DEF ExamTables, PlanSpares, BankSpares, RoomSpares

\* Whoever leaves tables alone leaves some of them alone.
LEMMA LeavesAlone ==
  ASSUME NEW d \in Database, NEW T, NEW U \in SUBSET T, NEW v \in Leaving(d, T)
  PROVE  Alone(d, v, U)
  BY LeavingServes DEF Leaving, Alone

\* A service that leaves the exams alone may be the answer.
LEMMA AsideAnswers ==
  ASSUME NEW d \in Database, KeysHold(d), NEW n
  PROVE  Leaving(d, ExamTables) \subseteq Answered(d, n)
<1> SUFFICES ASSUME NEW v \in Leaving(d, ExamTables) PROVE v \in Answered(d, n)
  OBVIOUS
<1>1. Alone(d, v, PlanTables) /\ Alone(d, v, BankTables) /\ Alone(d, v, RoomTables)
  BY SparesCover, LeavesAlone
<1>2. ExamsKept(d, v, n)
  BY <1>1, PlanFrame, BankFrame, LockFrame DEF ExamsKept
<1> QED  BY <1>2, LeavingServes, ServedAnswers

\* So may one on schedules that keeps the plan,
LEMMA PlanAnswers ==
  ASSUME NEW d \in Database, KeysHold(d), NEW v \in Leaving(d, PlanSpares), PlanKept(d, v), NEW n
  PROVE  v \in Answered(d, n)
<1>1. Alone(d, v, BankTables) /\ Alone(d, v, RoomTables)
  BY SparesCover, LeavesAlone
<1>2. ExamsKept(d, v, n)
  BY <1>1, BankFrame, LockFrame DEF ExamsKept
<1> QED  BY <1>2, LeavingServes, ServedAnswers

\* one on questions that keeps the packages,
LEMMA BankAnswers ==
  ASSUME NEW d \in Database, KeysHold(d), NEW v \in Leaving(d, BankSpares), BankKept(d, v), NEW n
  PROVE  v \in Answered(d, n)
<1>1. Alone(d, v, PlanTables) /\ Alone(d, v, RoomTables)
  BY SparesCover, LeavesAlone
<1>2. ExamsKept(d, v, n)
  BY <1>1, PlanFrame, LockFrame DEF ExamsKept
<1> QED  BY <1>2, LeavingServes, ServedAnswers

\* one on reports that keeps the locks,
LEMMA RoomAnswers ==
  ASSUME NEW d \in Database, KeysHold(d), NEW n, NEW v \in Leaving(d, RoomSpares), LockKept(d, v, n)
  PROVE  v \in Answered(d, n)
<1>1. Alone(d, v, PlanTables) /\ Alone(d, v, BankTables)
  BY SparesCover, LeavesAlone
<1>2. ExamsKept(d, v, n)
  BY <1>1, PlanFrame, BankFrame DEF ExamsKept
<1> QED  BY <1>2, LeavingServes, ServedAnswers

\* or one on schedules and questions that keeps both.
LEMMA PlanBankAnswers ==
  ASSUME NEW d \in Database, KeysHold(d), NEW v \in Leaving(d, RoomTables),
         PlanKept(d, v), BankKept(d, v), NEW n
  PROVE  v \in Answered(d, n)
<1>1. Alone(d, v, RoomTables)
  BY LeavesAlone
<1>2. ExamsKept(d, v, n)
  BY <1>1, LockFrame DEF ExamsKept
<1> QED  BY <1>2, LeavingServes, ServedAnswers

\* Deleting a student is an answer: only one without a trace goes.
LEMMA DeleteStudentAnswers ==
  ASSUME NEW d \in Database, KeysHold(d), NEW a, NEW n
  PROVE  DeleteStudent(d, a) \subseteq Answered(d, n)
<1> SUFFICES ASSUME NEW v \in DeleteStudent(d, a) PROVE v \in Answered(d, n)
  OBVIOUS
<1>1. /\ v \in Database /\ SameBut(d, v, {"accounts"}) /\ Kept(d, v)
      /\ Students(v) = Students(d) \ {a} /\ AttemptsOf(d, a) = {} /\ CheckinsOf(d, a) = {}
  BY DeleteStudentServed
<1>2. Alone(d, v, PlanTables) /\ Alone(d, v, BankTables) /\ Alone(d, v, RoomTables)
  BY <1>1, TableNames DEF Alone, SameBut, PlanTables, BankTables, RoomTables
<1>3. ExamsKept(d, v, n)
  BY <1>2, PlanFrame, BankFrame, LockFrame DEF ExamsKept
<1>4. TracedKept(d, v)
  BY <1>1 DEF TracedKept
<1> QED  BY <1>1, <1>3, <1>4 DEF Answered

\* Making a schedule is an answer.
LEMMA CreateScheduleAnswers ==
  ASSUME NEW d \in Database, KeysHold(d), NEW p \in Opt(Ids.packages), NEW y, NEW m, NEW k, NEW s,
         NEW slot \in Nat \X Nat, NEW proctor, NEW n
  PROVE  CreateSchedule(d, p, y, m, k, s, slot, proctor) \subseteq Answered(d, n)
  BY CreateScheduleServed, CreateSchedulePlans, PlannedKept, PlanAnswers

\* Changing one is an answer.
LEMMA UpdateScheduleAnswers ==
  ASSUME NEW d \in Database, KeysHold(d), NEW e, NEW m, NEW k \in Opt(Ids.classes), NEW s \in Opt(Ids.subjects),
         NEW slot \in Opt(Nat \X Nat), NEW proctor \in Opt(Ids.accounts), NEW status \in Opt(ScheduleStatus), NEW n
  PROVE  UpdateSchedule(d, e, m, k, s, slot, proctor, status) \subseteq Answered(d, n)
  BY UpdateScheduleServed, UpdateSchedulePlans, PlanAnswers

\* Assigning its proctor is an answer.
LEMMA AssignProctorAnswers ==
  ASSUME NEW d \in Database, KeysHold(d), NEW e, NEW a, NEW n
  PROVE  AssignProctor(d, e, a) \subseteq Answered(d, n)
  BY AssignProctorServed, AssignProctorPlans, PlanAnswers

\* Deleting it is an answer.
LEMMA DeleteScheduleAnswers ==
  ASSUME NEW d \in Database, KeysHold(d), NEW e, NEW n
  PROVE  DeleteSchedule(d, e) \subseteq Answered(d, n)
  BY DeleteScheduleServed, DeleteSchedulePlans, PlanAnswers

\* Making a package of schedules is an answer.
LEMMA CreateSchedulePackageAnswers ==
  ASSUME NEW d \in Database, KeysHold(d), NEW y, NEW n
  PROVE  CreateSchedulePackage(d, y) \subseteq Answered(d, n)
  BY CreateSchedulePackageServed, CreateSchedulePackagePlans, PlanAnswers

\* Deleting one is an answer.
LEMMA DeleteSchedulePackageAnswers ==
  ASSUME NEW d \in Database, KeysHold(d), NEW p, NEW n
  PROVE  DeleteSchedulePackage(d, p) \subseteq Answered(d, n)
  BY DeleteSchedulePackageServed, DeleteSchedulePackagePlans, PlanAnswers

\* Closing one is an answer.
LEMMA ClosePackageAnswers ==
  ASSUME NEW d \in Database, KeysHold(d), NEW p, NEW n
  PROVE  ClosePackage(d, p) \cup AutoClose(d, p, n) \subseteq Answered(d, n)
  BY ClosePackageServed, ClosePackagePlans, PlanAnswers

\* Importing schedules is an answer.
LEMMA ImportSchedulesAnswers ==
  ASSUME NEW d \in Database, KeysHold(d), NEW p, NEW file, IsFiniteSet(file),
         \A x \in file : x[3] \in Nat \X Nat, NEW n
  PROVE  ImportSchedules(d, p, file) \subseteq Answered(d, n)
  BY ImportSchedulesServed, ImportSchedulesPlans, PlanAnswers

\* Freezing questions for an exam is an answer.
LEMMA CreateSnapshotAnswers ==
  ASSUME NEW d \in Database, KeysHold(d), NEW a, NEW e, NEW b, NEW n
  PROVE  CreateSnapshot(d, a, e, b) \subseteq Answered(d, n)
  BY CreateSnapshotServed, CreateSnapshotPlans, PlanAnswers

\* Taking them back is an answer.
LEMMA UnassignSnapshotAnswers ==
  ASSUME NEW d \in Database, KeysHold(d), NEW a, NEW e, NEW n
  PROVE  UnassignSnapshot(d, a, e) \subseteq Answered(d, n)
  BY UnassignSnapshotServed, UnassignSnapshotPlans, PlanAnswers

\* A student's list of exams is an answer.
LEMMA StudentPollAnswers ==
  ASSUME NEW d \in Database, KeysHold(d), NEW a, NEW e, NEW n
  PROVE  StudentPoll(d, a, e, n) \subseteq Answered(d, n)
  BY StudentPollServed, StudentPollPlans, PlanAnswers

\* A proctor's list is an answer.
LEMMA ProctorPollAnswers ==
  ASSUME NEW d \in Database, KeysHold(d), NEW a, NEW e, NEW n
  PROVE  ProctorPoll(d, a, e, n) \subseteq Answered(d, n)
  BY ProctorPollServed, ProctorPollPlans, PlanAnswers

\* Reverting a package of questions is an answer.
LEMMA RevertPackageAnswers ==
  ASSUME NEW d \in Database, KeysHold(d), NEW a, NEW b, NEW n
  PROVE  RevertPackage(d, a, b) \subseteq Answered(d, n)
  BY RevertPackageServed, RevertPackagePlans, RevertPackageBanks, PlanBankAnswers

\* Deleting one is an answer.
LEMMA DeletePackageAnswers ==
  ASSUME NEW d \in Database, KeysHold(d), NEW a, NEW b, NEW n
  PROVE  DeletePackage(d, a, b) \subseteq Answered(d, n)
  BY DeletePackageServed, DeletePackagePlans, DeletePackageBanks, PlanBankAnswers

\* Publishing one is an answer.
LEMMA PublishPackageAnswers ==
  ASSUME NEW d \in Database, KeysHold(d), NEW a, NEW b, NEW n
  PROVE  PublishPackage(d, a, b) \subseteq Answered(d, n)
  BY PublishPackageServed, PublishPackageBanks, BankAnswers

\* Making a question is an answer.
LEMMA CreateQuestionAnswers ==
  ASSUME NEW d \in Database, KeysHold(d), NEW a \in Ids.accounts, NEW type \in QuestionType,
         NEW content \in STRING, NEW n
  PROVE  CreateQuestion(d, a, type, content) \subseteq Answered(d, n)
  BY CreateQuestionServed, CreateQuestionBanks, BankAnswers

\* Editing one is an answer.
LEMMA UpdateQuestionAnswers ==
  ASSUME NEW d \in Database, KeysHold(d), NEW a, NEW q, NEW content \in STRING, NEW n
  PROVE  UpdateQuestion(d, a, q, content) \subseteq Answered(d, n)
  BY UpdateQuestionServed, UpdateQuestionBanks, BankAnswers

\* Deleting one is an answer.
LEMMA DeleteQuestionAnswers ==
  ASSUME NEW d \in Database, KeysHold(d), NEW a, NEW q, NEW n
  PROVE  DeleteQuestion(d, a, q) \subseteq Answered(d, n)
  BY DeleteQuestionServed, DeleteQuestionBanks, BankAnswers

\* Importing questions is an answer.
LEMMA ImportQuestionsAnswers ==
  ASSUME NEW d \in Database, KeysHold(d), NEW a \in Ids.accounts, NEW file, IsFiniteSet(file),
         \A r \in file : r.content \in STRING, NEW n
  PROVE  ImportQuestions(d, a, file) \subseteq Answered(d, n)
  BY ImportQuestionsServed, ImportQuestionsBanks, BankAnswers

\* Making a package of questions is an answer.
LEMMA CreatePackageAnswers ==
  ASSUME NEW d \in Database, KeysHold(d), NEW a \in Ids.accounts, NEW target \in [QuestionType -> Nat], NEW n
  PROVE  CreatePackage(d, a, target) \subseteq Answered(d, n)
  BY CreatePackageServed, CreatePackageBanks, BankAnswers

\* Adding a question to it is an answer.
LEMMA AddQuestionAnswers ==
  ASSUME NEW d \in Database, KeysHold(d), NEW a, NEW b, NEW q, NEW n
  PROVE  AddQuestion(d, a, b, q) \subseteq Answered(d, n)
  BY AddQuestionServed, AddQuestionBanks, BankAnswers

\* Putting its questions in another order is an answer.
LEMMA ReorderAnswers ==
  ASSUME NEW d \in Database, KeysHold(d), UniquesHold(d), NEW a, NEW b, NEW orders,
         \A q \in DOMAIN orders : orders[q] \in Int, NEW n
  PROVE  ReorderQuestions(d, a, b, orders) \subseteq Answered(d, n)
  BY ReorderServed, ReorderBanks, BankAnswers

\* Removing a question is an answer.
LEMMA RemoveQuestionAnswers ==
  ASSUME NEW d \in Database, KeysHold(d), NEW a, NEW b, NEW q, NEW n
  PROVE  RemoveQuestion(d, a, b, q) \subseteq Answered(d, n)
  BY RemoveQuestionServed, RemoveQuestionBanks, BankAnswers

\* Replacing one is an answer.
LEMMA ReplaceQuestionAnswers ==
  ASSUME NEW d \in Database, KeysHold(d), NEW a, NEW b, NEW old, NEW new, NEW n
  PROVE  ReplaceQuestion(d, a, b, old, new) \subseteq Answered(d, n)
  BY ReplaceQuestionServed, ReplaceQuestionBanks, BankAnswers

\* Deleting a teacher is an answer.
LEMMA DeleteTeacherAnswers ==
  ASSUME NEW d \in Database, KeysHold(d), NEW a, NEW n
  PROVE  DeleteTeacher(d, a) \subseteq Answered(d, n)
  BY DeleteTeacherServed, DeleteTeacherBanks, BankAnswers

\* Marking a student present is an answer.
LEMMA MarkPresentAnswers ==
  ASSUME NEW d \in Database, KeysHold(d), NEW e \in Nat, NEW a \in Nat, NEW n
  PROVE  MarkPresent(d, e, a) \subseteq Answered(d, n)
  BY MarkPresentServed, MarkPresentLocks, RoomAnswers

\* Changing an attendance is an answer.
LEMMA UpdateAttendanceAnswers ==
  ASSUME NEW d \in Database, KeysHold(d), NEW u, NEW r, NEW a \in Nat, NEW st \in AttendanceStatus, NEW n
  PROVE  UpdateAttendance(d, u, r, a, st, n) \subseteq Answered(d, n)
  BY UpdateAttendanceServed, UpdateAttendanceLocks, RoomAnswers

\* Submitting a report is an answer.
LEMMA SubmitReportAnswers ==
  ASSUME NEW d \in Database, KeysHold(d), NEW u, NEW r, NEW n \in Nat
  PROVE  SubmitReport(d, u, r, n) \subseteq Answered(d, n)
  BY SubmitReportServed, SubmitReportLocks, RoomAnswers

\* Correcting it is an answer.
LEMMA CorrectionAnswers ==
  ASSUME NEW d \in Database, KeysHold(d), NEW u, NEW r, NEW ok, NEW n
  PROVE  RequestCorrection(d, u, r) \cup ResolveCorrection(d, r, ok) \subseteq Answered(d, n)
  BY CorrectionServed, CorrectionLocks, RoomAnswers

\* Opening it is an answer.
LEMMA OpenReportAnswers ==
  ASSUME NEW d \in Database, KeysHold(d), NEW u, NEW e \in Nat, NEW n \in Nat
  PROVE  OpenReport(d, u, e, n) \subseteq Answered(d, n)
  BY OpenReportServed, OpenReportLocks, RoomAnswers
=============================================================================

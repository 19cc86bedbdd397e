----------------------------- MODULE QuestionBank -----------------------------
(***************************************************************************)
(* QuestionPackageService, QuestionBankImportService and the question and  *)
(* package endpoints of teacher.py: a teacher's questions, and packages    *)
(* of them that are ready once they hold as many of each type as wanted.   *)
(***************************************************************************)
EXTENDS ExamSchedules

CreateQuestion(d, a, type, content) ==
  Given(Free(d, "questions") # {},
        Insert(d, "questions", [owner |-> a, type |-> type, content |-> content]))

Owns(d, a, q) == q \in Rows(d, "questions") /\ d.questions[q].owner = a

\* The type is immutable.
UpdateQuestion(d, a, q, content) ==
  Given(Owns(d, a, q), Set(d, "questions", {q}, "content", content))

DeleteQuestion(d, a, q) ==
  Given(Owns(d, a, q) /\ \A i \in Rows(d, "items") : d.items[i].question # q,
        Drop(d, "questions", {q}))

-----------------------------------------------------------------------------
\* A row of the import file: options of a PG question fill up from the first,
\* the key is one of them; AI grading and rubrics are for essays.
Filled(options) == {n \in DOMAIN options : options[n] # ""}
Contiguous(options) == \A n \in Filled(options) : 1..n \subseteq Filled(options)

ValidPG(r) ==
  /\ r.type = "PG" /\ ~r.ai /\ r.rubrics = 0
  /\ Contiguous(r.options) /\ Cardinality(Filled(r.options)) \in 2..6
  /\ \E n \in Filled(r.options) : r.options[n] = r.key
ValidIS(r) == r.type = "IS" /\ ~r.ai /\ r.rubrics = 0
ValidES(r) == r.type = "ES" /\ (IF r.ai THEN r.rubrics = 0 ELSE r.rubrics \in 1..5)
ValidRow(r) == r.content # "" /\ r.key # "" /\ (ValidPG(r) \/ ValidIS(r) \/ ValidES(r))

SameQuestion(q, r) == q.content = r.content /\ q.type = r.type

\* All rows are valid and different or none is imported; the teacher's
\* questions are not doubled.
ImportQuestions(d, a, file) ==
  LET known(r) == \E q \in Rows(d, "questions") : Owns(d, a, q) /\ SameQuestion(d.questions[q], r)
      add == [r \in {r \in file : ~known(r)} |-> [v \in Database |->
                CreateQuestion(v, a, r.type, r.content)]]
  IN IF /\ \A r \in file : ValidRow(r)
        /\ \A r, o \in file : SameQuestion(r, o) => r = o
     THEN Each(add, d) ELSE {}

-----------------------------------------------------------------------------
CreatePackage(d, a, target) ==
  Given(Free(d, "banks") # {},
        Insert(d, "banks", [owner |-> a, target |-> target, status |-> "INCOMPLETE"]))

OwnsPackage(d, a, b) == b \in Rows(d, "banks") /\ d.banks[b].owner = a
Entry(d, b, q) == {i \in ItemsOf(d, b) : d.items[i].question = q}
CountOf(d, b, type) ==
  Cardinality({i \in ItemsOf(d, b) : d.questions[d.items[i].question].type = type})

\* Complete is as many of each type as wanted, not more.
Rated(d, b) ==
  Set(d, "banks", {b}, "status",
      IF \A type \in QuestionType : CountOf(d, b, type) = d.banks[b].target[type]
      THEN "READY" ELSE "INCOMPLETE")

MaxOrder(d, b) == IF ItemsOf(d, b) = {} THEN 0 ELSE Max({d.items[i].order : i \in ItemsOf(d, b)})

AddQuestion(d, a, b, q) ==
  LET type == d.questions[q].type
  IN Given(/\ OwnsPackage(d, a, b) /\ Owns(d, a, q)
           /\ CountOf(d, b, type) < d.banks[b].target[type]
           /\ Free(d, "items") # {},
           Rated(Insert(d, "items", [package |-> b, question |-> q, order |-> MaxOrder(d, b) + 1]), b))

ReorderQuestions(d, a, b, orders) ==
  Given(/\ OwnsPackage(d, a, b)
        /\ DOMAIN orders = {d.items[i].question : i \in ItemsOf(d, b)}
        /\ {orders[q] : q \in DOMAIN orders} = 1..Cardinality(DOMAIN orders),
        [d EXCEPT !.items = [i \in DOMAIN @ |->
           IF i \in ItemsOf(d, b) THEN [@[i] EXCEPT !.order = orders[d.items[i].question]] ELSE @[i]]])

\* Mutant of RemoveQuestion: the package stays as ready as it was.
RemoveUnrated(d, a, b, q) ==
  Given(OwnsPackage(d, a, b), Drop(d, "items", Entry(d, b, q)))

\* The others are numbered anew in their order.
RemoveQuestion(d, a, b, q) ==
  LET v == Drop(d, "items", Entry(d, b, q))
      Rank(o) == Cardinality({i \in ItemsOf(v, b) : v.items[i].order <= o})
  IN Given(OwnsPackage(d, a, b) /\ Entry(d, b, q) # {},
           Rated([v EXCEPT !.items = [i \in DOMAIN @ |->
             IF i \in ItemsOf(v, b)
             THEN [@[i] EXCEPT !.order = Rank(v.items[i].order)] ELSE @[i]]], b))

ReplaceQuestion(d, a, b, old, new) ==
  Given(/\ OwnsPackage(d, a, b) /\ Entry(d, b, old) # {} /\ Owns(d, a, new)
        /\ d.questions[old].type = d.questions[new].type /\ Entry(d, b, new) = {},
        Rated(Set(d, "items", Entry(d, b, old), "question", new), b))

PublishPackage(d, a, b) ==
  Given(/\ OwnsPackage(d, a, b)
        /\ \A type \in QuestionType : CountOf(d, b, type) >= d.banks[b].target[type],
        Set(d, "banks", {b}, "status", "READY"))

\* The schedules a package was frozen for, unless one is held already.
Uses(d, b) == {i \in Rows(d, "snapshots") : d.snapshots[i].package = b}
UsedFor(d, b) == {d.snapshots[i].schedule : i \in Uses(d, b)}
Unheld(d, a, b) == OwnsPackage(d, a, b) /\ \A e \in UsedFor(d, b) : ~Held(d, e)

RevertPackage(d, a, b) ==
  Given(Unheld(d, a, b),
        Set(Set(d, "schedules", UsedFor(d, b), "status", "DRAFT"),
            "banks", {b}, "status", "INCOMPLETE"))

DeletePackage(d, a, b) ==
  LET drafted == Set(d, "schedules", UsedFor(d, b), "status", "DRAFT")
      cleared == Drop(Drop(drafted, "snapshots", Uses(d, b)), "items", ItemsOf(d, b))
  IN Given(Unheld(d, a, b), Drop(cleared, "banks", {b}))
=============================================================================

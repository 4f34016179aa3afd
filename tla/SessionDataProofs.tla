------------------------- MODULE SessionDataProofs -------------------------
(***************************************************************************)
(* What the database of Sessions holds and what an answer says of it, for  *)
(* every set of workers, names, turns, requests and bundles.               *)
(*                                                                         *)
(* Every action is first reduced to what it does to the records of the     *)
(* workers (Works, Failed, Accepts, Takes; StepWorks), so that a proof     *)
(* about a record has few cases; the tables are treated action by action.  *)
(* TypeInv adds to KeepInv of SessionsProofs the records (WorkersWhole),   *)
(* the order of the steps left (Courses), and what each has been given by  *)
(* then (Placed, Listed).  On it rest four more invariants:                *)
(*   RowInv     a row that is held speaks of turns the session has, but    *)
(*              for the turn its holder is about to append;                *)
(*   TodoInv    a todo change is in the table and in every list that       *)
(*              somebody has read and will write back;                     *)
(*   ExportInv  what is stored with a session is about its turns, and an   *)
(*              export that nobody disturbs holds the session as it is;    *)
(*   ImportInv  what an import has saved is there but for the items left.  *)
(***************************************************************************)
EXTENDS SessionsProofs, WellFoundedInduction

-----------------------------------------------------------------------------
(* Records of workers.                                                      *)

Whole(r) == r = [x \in Fields |-> r[x]] /\ WorkerOK(r)

\* The fields of a worker at rest.
LEMMA BlankFields ==
  /\ Blank.pc = "idle" /\ Blank.req = None /\ Blank.steps = <<>> /\ Blank.ses = None
  /\ Blank.row = EmptyRow /\ Blank.turns = <<>> /\ Blank.events = {} /\ Blank.todos = None
  /\ Blank.items = <<>> /\ Blank.left = {} /\ Blank.alone = TRUE /\ Blank.stale = FALSE
  /\ Blank = [x \in Fields |-> Blank[x]] /\ DOMAIN Blank = Fields
BY ZenonT(60) DEF Blank, Fields

\* The values a worker at rest has are of the right types.
LEMMA BlankTypes ==
  /\ <<>> \in Seq(StepNames) /\ <<>> \in Seq(TurnIds) /\ EmptyRow \in Row /\ ItemTurns(<<>>)
  /\ <<>> \in TodoList
<1>1. <<>> \in Seq(StepNames) /\ <<>> \in Seq(TurnIds)
  BY EmptySeq
<1>2. EmptyRow \in Row
  BY DEF EmptyRow, Row
<1>3. DOMAIN <<>> = {}
  OBVIOUS
<1>4. ItemTurns(<<>>)
  BY <1>3 DEF ItemTurns
<1>5. <<>> \in [{} -> Workers \cup {None}]
  BY <1>3
<1>6. <<>> \in TodoList
  BY <1>5 DEF TodoList
<1> QED BY <1>1, <1>2, <1>4, <1>6

\* A worker at rest is whole.
LEMMA BlankIsWhole == Whole(Blank)
BY BlankFields, BlankTypes DEF Whole, WorkerOK

\* A worker whose fields are of the right types is whole.
LEMMA WholeFields ==
  ASSUME NEW r, r = [x \in Fields |-> r[x]],
         r.pc \in {"idle", "busy", "done", "failed"}, r.req \in Request \cup {None},
         r.steps \in Seq(StepNames), r.ses \in Ids \cup {None}, r.row \in Row,
         r.turns \in Seq(TurnIds), r.events \subseteq TurnIds,
         r.todos \in TodoList \cup {None}, ItemTurns(r.items), r.left \subseteq Items,
         r.alone \in BOOLEAN, r.stale \in BOOLEAN
  PROVE  Whole(r)
<1>1. DOMAIN r = DOMAIN Blank
  BY BlankFields
<1> QED BY <1>1 DEF Whole, WorkerOK

\* What a worker holds beside its request, its steps and its marks.
Holds(d, r) ==
  /\ d.row = r.row /\ d.turns = r.turns /\ d.events = r.events /\ d.todos = r.todos
  /\ d.items = r.items /\ d.left = r.left

\* The worker after a step: at work, or an export with all it read, or empty.
Gone(r, d) ==
  /\ d.req = r.req /\ d.ses = r.ses /\ d.alone = r.alone /\ d.stale = r.stale
  /\ d.steps = Tail(r.steps)
  /\ \/ d.pc = "busy" /\ Tail(r.steps) # <<>> /\ Holds(d, r)
     \/ d.pc = "done" /\ Tail(r.steps) = <<>> /\ r.req.do = "export" /\ Holds(d, r)
     \/ d.pc = "done" /\ Tail(r.steps) = <<>> /\ r.req.do # "export" /\ Holds(d, Blank)

\* A step does that.
LEMMA AfterIsGone ==
  ASSUME NEW r, Whole(r), r.pc = "busy", r.steps # <<>>
  PROVE  Whole(After(r)) /\ Gone(r, After(r))
<1> DEFINE rest == Tail(r.steps)
<1>1. rest \in Seq(StepNames)
  BY DEF Whole, WorkerOK
<1> HIDE DEF rest
<1>2. CASE rest # <<>>
  <2>1. After(r) = [r EXCEPT !.steps = rest]
    BY <1>2 DEF After, rest
  <2>2. ASSUME NEW d, d = [r EXCEPT !.steps = rest]
        PROVE  Whole(d) /\ Gone(r, d)
    <3>1. d = [x \in Fields |-> d[x]] /\ d.steps = rest /\ d.pc = r.pc /\ d.req = r.req
          /\ d.ses = r.ses /\ d.alone = r.alone /\ d.stale = r.stale /\ Holds(d, r)
      BY <2>2 DEF Whole, Fields, Holds
    <3>2. Gone(r, d)
      BY <1>2, <3>1 DEF Gone, rest
    <3>3. Whole(d)
      BY <1>1, <3>1, WholeFields DEF Whole, WorkerOK, Holds
    <3> QED BY <3>2, <3>3
  <2> QED BY <2>1, <2>2
<1>3. CASE rest = <<>> /\ r.req.do = "export"
  <2>1. After(r) = [r EXCEPT !.steps = rest, !.pc = "done"]
    BY <1>3 DEF After, rest
  <2>2. ASSUME NEW d, d = [r EXCEPT !.steps = rest, !.pc = "done"]
        PROVE  Whole(d) /\ Gone(r, d)
    <3>1. d = [x \in Fields |-> d[x]] /\ d.steps = rest /\ d.pc = "done" /\ d.req = r.req
          /\ d.ses = r.ses /\ d.alone = r.alone /\ d.stale = r.stale /\ Holds(d, r)
      BY <2>2 DEF Whole, Fields, Holds
    <3>2. Gone(r, d)
      BY <1>3, <3>1 DEF Gone, rest
    <3>3. Whole(d)
      BY <1>1, <3>1, WholeFields DEF Whole, WorkerOK, Holds
    <3> QED BY <3>2, <3>3
  <2> QED BY <2>1, <2>2
<1>4. CASE rest = <<>> /\ r.req.do # "export"
  <2>1. After(r) = [Blank EXCEPT !.pc = "done", !.req = r.req, !.ses = r.ses,
                                 !.alone = r.alone, !.stale = r.stale]
    BY <1>4 DEF After, rest
  <2>2. ASSUME NEW d, d = [Blank EXCEPT !.pc = "done", !.req = r.req, !.ses = r.ses,
                                        !.alone = r.alone, !.stale = r.stale]
        PROVE  Whole(d) /\ Gone(r, d)
    <3>1. d = [x \in Fields |-> d[x]] /\ d.steps = <<>> /\ d.pc = "done" /\ d.req = r.req
          /\ d.ses = r.ses /\ d.alone = r.alone /\ d.stale = r.stale /\ Holds(d, Blank)
      BY <2>2, BlankFields DEF Fields, Holds
    <3>2. Gone(r, d)
      BY <1>4, <3>1 DEF Gone, rest
    <3>3. Whole(d)
      BY <3>1, WholeFields, BlankFields, BlankTypes DEF Whole, WorkerOK, Holds
    <3> QED BY <3>2, <3>3
  <2> QED BY <2>1, <2>2
<1> QED BY <1>2, <1>3, <1>4

\* A failure leaves a worker nothing.
LEMMA StoppedIsEmpty ==
  ASSUME NEW r, Whole(r)
  PROVE  /\ Whole(Stopped(r)) /\ Stopped(r).pc = "failed" /\ Stopped(r).req = r.req
         /\ Stopped(r).ses = r.ses /\ Stopped(r).steps = r.steps
         /\ Stopped(r).stale = r.stale /\ Holds(Stopped(r), Blank)
<1>1. ASSUME NEW d, d = [Blank EXCEPT !.pc = "failed", !.req = r.req, !.ses = r.ses,
                                      !.steps = r.steps, !.stale = r.stale]
      PROVE  /\ d = [x \in Fields |-> d[x]] /\ d.pc = "failed" /\ d.req = r.req
             /\ d.ses = r.ses /\ d.steps = r.steps /\ d.stale = r.stale /\ d.alone = TRUE
             /\ Holds(d, Blank)
  BY <1>1, BlankFields DEF Fields, Holds
<1> DEFINE d == Stopped(r)
<1>2. /\ d = [x \in Fields |-> d[x]] /\ d.pc = "failed" /\ d.req = r.req
      /\ d.ses = r.ses /\ d.steps = r.steps /\ d.stale = r.stale /\ d.alone = TRUE
      /\ Holds(d, Blank)
  BY <1>1 DEF Stopped
<1> HIDE DEF d
<1>3. Whole(d)
  BY <1>2, WholeFields, BlankFields, BlankTypes DEF Whole, WorkerOK, Holds
<1> QED BY <1>2, <1>3 DEF d

\* The same worker, but for its marks, which only get worse.
Like(r, d) ==
  /\ d.pc = r.pc /\ d.req = r.req /\ d.steps = r.steps /\ d.ses = r.ses /\ Holds(d, r)
  /\ (d.alone => r.alone) /\ (r.stale => d.stale)

\* An export or an import that goes on while somebody writes is not alone.
Watching(r) == r.pc = "busy" /\ r.req.do \in {"export", "import"}

\* A write of somebody else leaves a worker like it was.
LEMMA DisturbedIsLike ==
  ASSUME NEW r, Whole(r), NEW s, NEW replaced \in BOOLEAN
  PROVE  LET d == Disturbed(r, s, replaced) IN
         /\ Whole(d) /\ Like(r, d)
         /\ d.alone = (r.alone /\ ~Watching(r))
         /\ d.stale = (r.stale \/ (replaced /\ r.pc # "idle" /\ r.ses = s))
<1> DEFINE alone == r.alone /\ ~Watching(r)
           stale == r.stale \/ (replaced /\ r.pc # "idle" /\ r.ses = s)
<1>1. alone \in BOOLEAN /\ stale \in BOOLEAN /\ (alone => r.alone) /\ (r.stale => stale)
  BY DEF Whole, WorkerOK
<1>2. Disturbed(r, s, replaced) = [r EXCEPT !.alone = alone, !.stale = stale]
  BY DEF Disturbed, Watching
<1>3. ASSUME NEW x \in BOOLEAN, NEW y \in BOOLEAN, x => r.alone, r.stale => y,
             NEW d, d = [r EXCEPT !.alone = x, !.stale = y]
      PROVE  Whole(d) /\ Like(r, d) /\ d.alone = x /\ d.stale = y
  <2>1. d = [z \in Fields |-> d[z]] /\ d.steps = r.steps /\ d.pc = r.pc /\ d.req = r.req
        /\ d.ses = r.ses /\ d.alone = x /\ d.stale = y /\ Holds(d, r)
    BY <1>3 DEF Whole, Fields, Holds
  <2>2. Whole(d)
    BY <2>1, WholeFields DEF Whole, WorkerOK, Holds
  <2> QED BY <1>3, <2>1, <2>2 DEF Like
<1> HIDE DEF alone, stale
<1>4. LET d == Disturbed(r, s, replaced) IN
      Whole(d) /\ Like(r, d) /\ d.alone = alone /\ d.stale = stale
  BY <1>1, <1>2, <1>3
<1> QED BY <1>4 DEF alone, stale

-----------------------------------------------------------------------------
(* The order of the steps, and whose they are.                              *)

Place == [row |-> 1, create |-> 1, turns |-> 2, events |-> 3, fork |-> 4, agent |-> 5,
          append |-> 6, record |-> 7, state |-> 8, attach |-> 9, checkpoint |-> 10,
          artifact |-> 11, run |-> 12, admit |-> 13, session |-> 14, restore |-> 15,
          save |-> 16, remove |-> 17, prune |-> 18]

\* All steps but the reads of the todos come in one order.
InOrder(steps) ==
  \A i, j \in 1..Len(steps) :
    i < j /\ steps[i] # "todos" /\ steps[j] # "todos" => Place[steps[i]] < Place[steps[j]]

TodoDo == {"put", "upsert", "drop"}
Serving(step, do) ==
  /\ step = "save" => do \in TodoDo
  /\ step = "fork" => do = "fork"
  /\ step = "create" => do \in {"create", "run"}
  /\ step \in {"agent", "record"} => MakesTurn(do)
  /\ step = "state" => do = "compact"
  /\ step = "attach" => do \in {"compact", "checkpoint", "artifact"}
  /\ step \in {"events", "checkpoint", "artifact", "run"}
       <=> do = "export" /\ step \notin {"row", "turns", "todos"}
  /\ step \in {"admit", "session", "restore"} <=> do = "import"
  /\ step = "remove" <=> do = "remove"
  /\ step = "row" => do \notin {"create", "put", "remove"}

\* The todos are read before they are used.
Users == {"fork", "save", "checkpoint", "artifact", "run"}
TodosFirst(steps) ==
  \E j \in 1..Len(steps) : steps[j] = "todos" /\ \A i \in 1..j : steps[i] \notin Users
Course(steps, do) ==
  /\ InOrder(steps)
  /\ \A i \in 1..Len(steps) : Serving(steps[i], do)
  /\ do \in TodoDo /\ Len(steps) > 0 => steps[Len(steps)] = "save"

\* The steps of every request are of that kind.
LEMMA StepsKeepCourse ==
  ASSUME NEW r \in Request
  PROVE  /\ Course(Steps(r), r.do)
         /\ r.do \in {"fork", "upsert", "drop", "export"} => TodosFirst(Steps(r))
         /\ r.do = "run" /\ r.ses = None => "row" \notin TurnSet(Steps(r))
<1>1. r.do \in {"run", "fork", "put", "upsert", "drop", "compact", "checkpoint", "artifact",
                "remove", "create", "prune", "export", "import"}
  BY DEF Request
<1>2. CASE r.do = "run" /\ r.ses = None
  <2>1. Steps(r) = <<"create", "agent", "todos", "append", "record">>
    BY <1>2 DEF Steps, NewRunSteps
  <2>2. InOrder(Steps(r))
    BY <2>1 DEF InOrder, Place
  <2>3. \A i \in 1..Len(Steps(r)) : Serving(Steps(r)[i], r.do)
    BY <1>2, <2>1 DEF Serving, TodoDo, MakesTurn
  <2>5. "row" \notin TurnSet(Steps(r))
    BY <2>1 DEF TurnSet
  <2> QED BY <1>2, <2>1, <2>2, <2>3, <2>5 DEF Course, TodoDo
<1>3. CASE r.do = "run" /\ r.ses # None
  <2>1. Steps(r) = <<"row", "turns", "agent", "todos", "append", "record">>
    BY <1>3 DEF Steps, ResumeSteps
  <2>2. InOrder(Steps(r))
    BY <2>1 DEF InOrder, Place
  <2>3. \A i \in 1..Len(Steps(r)) : Serving(Steps(r)[i], r.do)
    BY <1>3, <2>1 DEF Serving, TodoDo, MakesTurn
  <2> QED BY <1>3, <2>1, <2>2, <2>3 DEF Course, TodoDo
<1>4. CASE r.do = "fork"
  <2>1. Steps(r) = <<"row", "turns", "todos", "fork", "agent", "todos", "append", "record">>
    BY <1>4 DEF Steps, ForkSteps
  <2>2. InOrder(Steps(r))
    BY <2>1 DEF InOrder, Place
  <2>3. \A i \in 1..Len(Steps(r)) : Serving(Steps(r)[i], r.do)
    BY <1>4, <2>1 DEF Serving, TodoDo, MakesTurn
  <2>4. TodosFirst(Steps(r))
    <3>1. 3 \in 1..Len(Steps(r)) /\ Steps(r)[3] = "todos"
          /\ \A i \in 1..3 : Steps(r)[i] \notin Users
      BY <2>1 DEF Users
    <3> QED BY <3>1 DEF TodosFirst
  <2> QED BY <1>4, <2>1, <2>2, <2>3, <2>4 DEF Course, TodoDo
<1>5. CASE r.do = "create"
  <2>1. Steps(r) = <<"create">>
    BY <1>5 DEF Steps, CreateSteps
  <2>2. InOrder(Steps(r))
    BY <2>1 DEF InOrder, Place
  <2>3. \A i \in 1..Len(Steps(r)) : Serving(Steps(r)[i], r.do)
    BY <1>5, <2>1 DEF Serving, TodoDo, MakesTurn
  <2> QED BY <1>5, <2>1, <2>2, <2>3 DEF Course, TodoDo
<1>6. CASE r.do = "put"
  <2>1. Steps(r) = <<"save">>
    BY <1>6 DEF Steps, PutSteps
  <2>2. InOrder(Steps(r))
    BY <2>1 DEF InOrder, Place
  <2>3. \A i \in 1..Len(Steps(r)) : Serving(Steps(r)[i], r.do)
    BY <1>6, <2>1 DEF Serving, TodoDo, MakesTurn
  <2> QED BY <1>6, <2>1, <2>2, <2>3 DEF Course, TodoDo
<1>7. CASE r.do = "upsert"
  <2>1. Steps(r) = <<"row", "todos", "save">>
    BY <1>7 DEF Steps, UpsertSteps
  <2>2. InOrder(Steps(r))
    BY <2>1 DEF InOrder, Place
  <2>3. \A i \in 1..Len(Steps(r)) : Serving(Steps(r)[i], r.do)
    BY <1>7, <2>1 DEF Serving, TodoDo, MakesTurn
  <2>4. TodosFirst(Steps(r))
    <3>1. 2 \in 1..Len(Steps(r)) /\ Steps(r)[2] = "todos"
          /\ \A i \in 1..2 : Steps(r)[i] \notin Users
      BY <2>1 DEF Users
    <3> QED BY <3>1 DEF TodosFirst
  <2> QED BY <1>7, <2>1, <2>2, <2>3, <2>4 DEF Course, TodoDo
<1>8. CASE r.do = "drop"
  <2>1. Steps(r) = <<"row", "todos", "save">>
    BY <1>8 DEF Steps, DropSteps
  <2>2. InOrder(Steps(r))
    BY <2>1 DEF InOrder, Place
  <2>3. \A i \in 1..Len(Steps(r)) : Serving(Steps(r)[i], r.do)
    BY <1>8, <2>1 DEF Serving, TodoDo, MakesTurn
  <2>4. TodosFirst(Steps(r))
    <3>1. 2 \in 1..Len(Steps(r)) /\ Steps(r)[2] = "todos"
          /\ \A i \in 1..2 : Steps(r)[i] \notin Users
      BY <2>1 DEF Users
    <3> QED BY <3>1 DEF TodosFirst
  <2> QED BY <1>8, <2>1, <2>2, <2>3, <2>4 DEF Course, TodoDo
<1>9. CASE r.do = "compact" /\ r.checkpoint
  <2>1. Steps(r) = <<"row", "turns", "state", "attach">>
    BY <1>9 DEF Steps, CompactSteps
  <2>2. InOrder(Steps(r))
    BY <2>1 DEF InOrder, Place
  <2>3. \A i \in 1..Len(Steps(r)) : Serving(Steps(r)[i], r.do)
    BY <1>9, <2>1 DEF Serving, TodoDo, MakesTurn
  <2> QED BY <1>9, <2>1, <2>2, <2>3 DEF Course, TodoDo
<1>10. CASE r.do = "compact" /\ ~r.checkpoint
  <2>1. Steps(r) = <<"row", "turns", "state">>
    BY <1>10 DEF Steps, CompactSteps
  <2>2. InOrder(Steps(r))
    BY <2>1 DEF InOrder, Place
  <2>3. \A i \in 1..Len(Steps(r)) : Serving(Steps(r)[i], r.do)
    BY <1>10, <2>1 DEF Serving, TodoDo, MakesTurn
  <2> QED BY <1>10, <2>1, <2>2, <2>3 DEF Course, TodoDo
<1>11. CASE r.do = "checkpoint"
  <2>1. Steps(r) = <<"row", "turns", "attach">>
    BY <1>11 DEF Steps, CheckpointSteps
  <2>2. InOrder(Steps(r))
    BY <2>1 DEF InOrder, Place
  <2>3. \A i \in 1..Len(Steps(r)) : Serving(Steps(r)[i], r.do)
    BY <1>11, <2>1 DEF Serving, TodoDo, MakesTurn
  <2> QED BY <1>11, <2>1, <2>2, <2>3 DEF Course, TodoDo
<1>12. CASE r.do = "artifact"
  <2>1. Steps(r) = <<"row", "turns", "attach">>
    BY <1>12 DEF Steps, ArtifactSteps
  <2>2. InOrder(Steps(r))
    BY <2>1 DEF InOrder, Place
  <2>3. \A i \in 1..Len(Steps(r)) : Serving(Steps(r)[i], r.do)
    BY <1>12, <2>1 DEF Serving, TodoDo, MakesTurn
  <2> QED BY <1>12, <2>1, <2>2, <2>3 DEF Course, TodoDo
<1>13. CASE r.do = "remove"
  <2>1. Steps(r) = <<"remove">>
    BY <1>13 DEF Steps, RemoveSteps
  <2>2. InOrder(Steps(r))
    BY <2>1 DEF InOrder, Place
  <2>3. \A i \in 1..Len(Steps(r)) : Serving(Steps(r)[i], r.do)
    BY <1>13, <2>1 DEF Serving, TodoDo, MakesTurn
  <2> QED BY <1>13, <2>1, <2>2, <2>3 DEF Course, TodoDo
<1>14. CASE r.do = "prune"
  <2>1. Steps(r) = <<"row", "prune">>
    BY <1>14 DEF Steps, PruneSteps
  <2>2. InOrder(Steps(r))
    BY <2>1 DEF InOrder, Place
  <2>3. \A i \in 1..Len(Steps(r)) : Serving(Steps(r)[i], r.do)
    BY <1>14, <2>1 DEF Serving, TodoDo, MakesTurn
  <2> QED BY <1>14, <2>1, <2>2, <2>3 DEF Course, TodoDo
<1>15. CASE r.do = "export"
  <2>1. Steps(r) = <<"row", "turns", "events", "todos", "checkpoint", "artifact", "run">>
    BY <1>15 DEF Steps, ExportSteps
  <2>2. InOrder(Steps(r))
    BY <2>1 DEF InOrder, Place
  <2>3. \A i \in 1..Len(Steps(r)) : Serving(Steps(r)[i], r.do)
    BY <1>15, <2>1 DEF Serving, TodoDo, MakesTurn
  <2>4. TodosFirst(Steps(r))
    <3>1. 4 \in 1..Len(Steps(r)) /\ Steps(r)[4] = "todos"
          /\ \A i \in 1..4 : Steps(r)[i] \notin Users
      BY <2>1 DEF Users
    <3> QED BY <3>1 DEF TodosFirst
  <2> QED BY <1>15, <2>1, <2>2, <2>3, <2>4 DEF Course, TodoDo
<1>16. CASE r.do = "import"
  <2>1. Steps(r) = <<"admit", "session", "restore">>
    BY <1>16 DEF Steps, ImportSteps
  <2>2. InOrder(Steps(r))
    BY <2>1 DEF InOrder, Place
  <2>3. \A i \in 1..Len(Steps(r)) : Serving(Steps(r)[i], r.do)
    BY <1>16, <2>1 DEF Serving, TodoDo, MakesTurn
  <2> QED BY <1>16, <2>1, <2>2, <2>3 DEF Course, TodoDo
<1> QED BY <1>1, <1>2, <1>3, <1>4, <1>5, <1>6, <1>7, <1>8, <1>9, <1>10, <1>11, <1>12,
           <1>13, <1>14, <1>15, <1>16

\* What is left of a course is a course.
LEMMA TailKeepsCourse ==
  ASSUME NEW steps \in Seq(StepNames), Len(steps) > 0, NEW do, Course(steps, do)
  PROVE  Course(Tail(steps), do)
<1> DEFINE rest == Tail(steps)
<1>1. /\ rest \in Seq(StepNames) /\ Len(steps) \in Nat /\ Len(rest) = Len(steps) - 1
      /\ \A i \in 1..Len(rest) : i + 1 \in 1..Len(steps) /\ rest[i] = steps[i + 1]
  OBVIOUS
<1> HIDE DEF rest
<1>2. InOrder(rest)
  BY <1>1 DEF Course, InOrder
<1>3. \A i \in 1..Len(rest) : Serving(rest[i], do)
  BY <1>1 DEF Course
<1>4. do \in TodoDo /\ Len(rest) > 0 => rest[Len(rest)] = "save"
  <2> SUFFICES ASSUME do \in TodoDo, Len(rest) > 0 PROVE rest[Len(rest)] = "save"
    OBVIOUS
  <2>1. Len(rest) \in 1..Len(rest) /\ Len(rest) + 1 = Len(steps)
    BY <1>1
  <2> QED BY <1>1, <2>1 DEF Course
<1> QED BY <1>2, <1>3, <1>4 DEF Course, rest

\* So is nothing.
LEMMA EmptyKeepsCourse == ASSUME NEW do PROVE Course(<<>>, do)
<1>1. Len(<<>>) = 0 /\ \A i \in 1..0 : FALSE
  OBVIOUS
<1> QED BY <1>1 DEF Course, InOrder

Courses == \A a \in Workers : w[a].pc # "idle" => Course(w[a].steps, w[a].req.do)

\* Every move keeps the course.
LEMMA CoursesStay ==
  ASSUME Ready, Courses, NEW a \in Workers, Moves(a)
  PROVE  Courses'
<1>1. \A b \in Workers \ {a} : Alike(w[b], w'[b])
  BY MovesOn DEF Accepted, Bundled, Onward, OthersKeep
<1>2. SUFFICES Course(w'[a].steps, w'[a].req.do)
  BY <1>1 DEF Courses, Alike
<1>3. CASE Accepted(a) \/ Bundled(a)
  <2>1. w'[a].req \in Request /\ w'[a].steps = Steps(w'[a].req)
    BY <1>3 DEF Accepted, Bundled
  <2> QED BY <2>1, StepsKeepCourse
<1>4. CASE Onward(a)
  <2>1. /\ w[a].pc = "busy" /\ w'[a].req = w[a].req /\ Len(w[a].steps) > 0
        /\ w'[a].steps = w[a].steps \/ w'[a].steps = Tail(w[a].steps) \/ w'[a].steps = <<>>
    BY <1>4 DEF Onward, Ready, BusyHasSteps
  <2>2. Course(w[a].steps, w[a].req.do) /\ w[a].steps \in Seq(StepNames)
    BY <2>1 DEF Courses, Ready, WorkersShaped, Shaped
  <2>3. Course(Tail(w[a].steps), w[a].req.do)
    BY <2>1, <2>2, TailKeepsCourse
  <2> QED BY <2>1, <2>2, <2>3, EmptyKeepsCourse
<1> QED BY <1>3, <1>4, MovesOn

Left(r) == TurnSet(r.steps)

\* What the next step of a course says of those that are left.
LEMMA NextOfCourse ==
  ASSUME NEW steps \in Seq(StepNames), Len(steps) > 0, NEW do, Course(steps, do)
  PROVE  LET h == Head(steps)
             T == TurnSet(Tail(steps))
         IN /\ h \in StepNames /\ Serving(h, do) /\ TurnSet(steps) = {h} \cup T
            /\ \A x \in T : x \in StepNames /\ Serving(x, do)
                  /\ (h # "todos" /\ x # "todos" => Place[h] < Place[x])
            /\ do \in TodoDo => (Tail(steps) = <<>> <=> h = "save")
            /\ TodosFirst(steps) /\ h # "todos" => h \notin Users /\ TodosFirst(Tail(steps))
<1> DEFINE rest == Tail(steps)
           h == Head(steps)
<1>0. /\ rest \in Seq(StepNames) /\ Len(steps) \in Nat /\ Len(rest) = Len(steps) - 1
      /\ \A i \in 1..Len(rest) : i + 1 \in 1..Len(steps) /\ rest[i] = steps[i + 1]
      /\ h = steps[1] /\ 1 \in 1..Len(steps) /\ h \in StepNames
  OBVIOUS
<1> HIDE DEF rest, h
<1>1. /\ rest \in Seq(StepNames) /\ Len(steps) \in Nat /\ Len(rest) = Len(steps) - 1
      /\ \A i \in 1..Len(rest) : i + 1 \in 1..Len(steps) /\ rest[i] = steps[i + 1]
      /\ h = steps[1] /\ 1 \in 1..Len(steps) /\ h \in StepNames
      /\ DOMAIN rest = 1..Len(rest) /\ DOMAIN steps = 1..Len(steps)
      /\ (rest = <<>> <=> Len(rest) = 0)
  <2>1. DOMAIN rest = 1..Len(rest) /\ DOMAIN steps = 1..Len(steps)
    BY <1>0
  <2>2. rest = <<>> <=> Len(rest) = 0
    BY <1>0
  <2> QED BY <1>0, <2>1, <2>2
<1>2. Serving(h, do)
  BY <1>1 DEF Course
<1>3. TurnSet(steps) = {h} \cup TurnSet(rest)
  <2>1. \A i \in 1..Len(steps) : i = 1 \/ (i - 1 \in 1..Len(rest) /\ steps[i] = rest[i - 1])
    <3> TAKE i \in 1..Len(steps)
    <3>1. i # 1 => i - 1 \in 1..Len(rest) /\ (i - 1) + 1 = i
      BY <1>1
    <3> QED BY <1>1, <3>1
  <2>2. TurnSet(steps) \subseteq {h} \cup TurnSet(rest)
    BY <1>1, <2>1 DEF TurnSet
  <2>3. {h} \cup TurnSet(rest) \subseteq TurnSet(steps)
    BY <1>1 DEF TurnSet
  <2> QED BY <2>2, <2>3
<1>4. ASSUME NEW x \in TurnSet(rest)
      PROVE  /\ x \in StepNames /\ Serving(x, do)
             /\ (h # "todos" /\ x # "todos" => Place[h] < Place[x])
  <2>1. PICK i \in 1..Len(rest) : rest[i] = x
    BY <1>1 DEF TurnSet
  <2>2. i + 1 \in 1..Len(steps) /\ steps[i + 1] = x /\ 1 < i + 1 /\ x \in StepNames
    BY <1>1, <2>1
  <2> QED BY <1>1, <2>2 DEF Course, InOrder
<1>5. ASSUME do \in TodoDo
      PROVE  rest = <<>> <=> h = "save"
  <2>1. steps[Len(steps)] = "save" /\ Len(steps) \in 1..Len(steps)
    BY <1>5, <1>1 DEF Course
  <2>2. CASE rest = <<>>
    BY <1>1, <2>1, <2>2
  <2>3. CASE rest # <<>> /\ h = "save"
    <3>1. 1 < Len(steps) /\ steps[1] = "save"
      BY <1>1, <2>3
    <3>2. Place["save"] < Place["save"]
      BY <1>1, <2>1, <3>1 DEF Course, InOrder
    <3> QED BY <3>2 DEF Place
  <2> QED BY <2>2, <2>3
<1>6. ASSUME TodosFirst(steps), h # "todos"
      PROVE  h \notin Users /\ TodosFirst(rest)
  <2>1. PICK j \in 1..Len(steps) : steps[j] = "todos" /\ \A i \in 1..j : steps[i] \notin Users
    BY <1>6 DEF TodosFirst
  <2>2. j # 1 /\ 1 \in 1..j
    BY <1>1, <1>6, <2>1
  <2>3. j - 1 \in 1..Len(rest) /\ rest[j - 1] = "todos"
    BY <1>1, <2>1, <2>2
  <2>4. \A i \in 1..(j - 1) : rest[i] \notin Users
    <3> TAKE i \in 1..(j - 1)
    <3>1. i + 1 \in 1..j /\ rest[i] = steps[i + 1]
      BY <1>1, <2>3
    <3> QED BY <2>1, <3>1
  <2> QED BY <1>1, <2>1, <2>2, <2>3, <2>4 DEF TodosFirst
<1> QED BY <1>1, <1>2, <1>3, <1>4, <1>5, <1>6 DEF rest, h

\* The same, of a worker.
LEMMA NextOfWorker ==
  ASSUME Ready, Courses, NEW a \in Workers, w[a].pc = "busy"
  PROVE  LET h == Head(w[a].steps)
             T == TurnSet(Tail(w[a].steps))
             do == w[a].req.do
         IN /\ w[a].steps \in Seq(StepNames) /\ w[a].steps # <<>>
            /\ h \in StepNames /\ Serving(h, do) /\ Left(w[a]) = {h} \cup T
            /\ \A x \in T : x \in StepNames /\ Serving(x, do)
                  /\ (h # "todos" /\ x # "todos" => Place[h] < Place[x])
            /\ do \in TodoDo => (Tail(w[a].steps) = <<>> <=> h = "save")
            /\ TodosFirst(w[a].steps) /\ h # "todos"
                 => h \notin Users /\ TodosFirst(Tail(w[a].steps))
<1>1. w[a].steps \in Seq(StepNames) /\ Len(w[a].steps) > 0 /\ Course(w[a].steps, w[a].req.do)
  BY DEF Ready, WorkersShaped, Shaped, BusyHasSteps, Courses
<1>2. w[a].steps # <<>>
  <2>1. Len(<<>>) = 0
    OBVIOUS
  <2> QED BY <1>1, <2>1
<1> QED BY <1>1, <1>2, NextOfCourse DEF Left

-----------------------------------------------------------------------------
(* What a step does to the workers.                                         *)

WorkersWhole == w = [b \in Workers |-> w[b]] /\ \A b \in Workers : Whole(w[b])

\* The fields that stay.
Only(r, d, changed) == \A x \in Fields \ changed : d[x] = r[x]

\* A worker with one field changed: the row.
LEMMA RowChanges ==
  ASSUME NEW r, Whole(r), NEW v \in Row, NEW d, d = [r EXCEPT !.row = v]
  PROVE  Whole(d) /\ d.row = v /\ Only(r, d, {"row"})
<1>0. DOMAIN r = Fields /\ r = [x \in Fields |-> r[x]]
  BY BlankFields DEF Whole, WorkerOK
<1>1. d = [y \in Fields |-> d[y]] /\ d.row = v
  BY <1>0 DEF Fields
<1>2. Only(r, d, {"row"})
  BY <1>0 DEF Only
<1>3. Whole(d)
  BY <1>1, <1>2, WholeFields DEF Whole, WorkerOK, Only, Fields
<1> QED BY <1>1, <1>2, <1>3

\* The same, for the turns.
LEMMA TurnsChange ==
  ASSUME NEW r, Whole(r), NEW v \in Seq(TurnIds), NEW d, d = [r EXCEPT !.turns = v]
  PROVE  Whole(d) /\ d.turns = v /\ Only(r, d, {"turns"})
<1>0. DOMAIN r = Fields /\ r = [x \in Fields |-> r[x]]
  BY BlankFields DEF Whole, WorkerOK
<1>1. d = [y \in Fields |-> d[y]] /\ d.turns = v
  BY <1>0 DEF Fields
<1>2. Only(r, d, {"turns"})
  BY <1>0 DEF Only
<1>3. Whole(d)
  BY <1>1, <1>2, WholeFields DEF Whole, WorkerOK, Only, Fields
<1> QED BY <1>1, <1>2, <1>3

\* The same, for the events.
LEMMA EventsChange ==
  ASSUME NEW r, Whole(r), NEW v, v \subseteq TurnIds, NEW d, d = [r EXCEPT !.events = v]
  PROVE  Whole(d) /\ d.events = v /\ Only(r, d, {"events"})
<1>0. DOMAIN r = Fields /\ r = [x \in Fields |-> r[x]]
  BY BlankFields DEF Whole, WorkerOK
<1>1. d = [y \in Fields |-> d[y]] /\ d.events = v
  BY <1>0 DEF Fields
<1>2. Only(r, d, {"events"})
  BY <1>0 DEF Only
<1>3. Whole(d)
  BY <1>1, <1>2, WholeFields DEF Whole, WorkerOK, Only, Fields
<1> QED BY <1>1, <1>2, <1>3

\* The same, for the todos.
LEMMA TodosChange ==
  ASSUME NEW r, Whole(r), NEW v \in TodoList, NEW d, d = [r EXCEPT !.todos = v]
  PROVE  Whole(d) /\ d.todos = v /\ Only(r, d, {"todos"})
<1>0. DOMAIN r = Fields /\ r = [x \in Fields |-> r[x]]
  BY BlankFields DEF Whole, WorkerOK
<1>1. d = [y \in Fields |-> d[y]] /\ d.todos = v
  BY <1>0 DEF Fields
<1>2. Only(r, d, {"todos"})
  BY <1>0 DEF Only
<1>3. Whole(d)
  BY <1>1, <1>2, WholeFields DEF Whole, WorkerOK, Only, Fields
<1> QED BY <1>1, <1>2, <1>3

\* The same, for the items.
LEMMA ItemsChange ==
  ASSUME NEW r, Whole(r), NEW v, ItemTurns(v), NEW d, d = [r EXCEPT !.items = v]
  PROVE  Whole(d) /\ d.items = v /\ Only(r, d, {"items"})
<1>0. DOMAIN r = Fields /\ r = [x \in Fields |-> r[x]]
  BY BlankFields DEF Whole, WorkerOK
<1>1. d = [y \in Fields |-> d[y]] /\ d.items = v
  BY <1>0 DEF Fields
<1>2. Only(r, d, {"items"})
  BY <1>0 DEF Only
<1>3. Whole(d)
  BY <1>1, <1>2, WholeFields DEF Whole, WorkerOK, Only, Fields
<1> QED BY <1>1, <1>2, <1>3

\* The same, for what an import has left.
LEMMA LeftChanges ==
  ASSUME NEW r, Whole(r), NEW v, v \subseteq Items, NEW d, d = [r EXCEPT !.left = v]
  PROVE  Whole(d) /\ d.left = v /\ Only(r, d, {"left"})
<1>0. DOMAIN r = Fields /\ r = [x \in Fields |-> r[x]]
  BY BlankFields DEF Whole, WorkerOK
<1>1. d = [y \in Fields |-> d[y]] /\ d.left = v
  BY <1>0 DEF Fields
<1>2. Only(r, d, {"left"})
  BY <1>0 DEF Only
<1>3. Whole(d)
  BY <1>1, <1>2, WholeFields DEF Whole, WorkerOK, Only, Fields
<1> QED BY <1>1, <1>2, <1>3

\* The same, for the mark of an overlap.
LEMMA AloneChanges ==
  ASSUME NEW r, Whole(r), NEW v \in BOOLEAN, NEW d, d = [r EXCEPT !.alone = v]
  PROVE  Whole(d) /\ d.alone = v /\ Only(r, d, {"alone"})
<1>0. DOMAIN r = Fields /\ r = [x \in Fields |-> r[x]]
  BY BlankFields DEF Whole, WorkerOK
<1>1. d = [y \in Fields |-> d[y]] /\ d.alone = v
  BY <1>0 DEF Fields
<1>2. Only(r, d, {"alone"})
  BY <1>0 DEF Only
<1>3. Whole(d)
  BY <1>1, <1>2, WholeFields DEF Whole, WorkerOK, Only, Fields
<1> QED BY <1>1, <1>2, <1>3

\* The same, for the steps.
LEMMA StepsChange ==
  ASSUME NEW r, Whole(r), NEW v \in Seq(StepNames), NEW d, d = [r EXCEPT !.steps = v]
  PROVE  Whole(d) /\ d.steps = v /\ Only(r, d, {"steps"})
<1>0. DOMAIN r = Fields /\ r = [x \in Fields |-> r[x]]
  BY BlankFields DEF Whole, WorkerOK
<1>1. d = [y \in Fields |-> d[y]] /\ d.steps = v
  BY <1>0 DEF Fields
<1>2. Only(r, d, {"steps"})
  BY <1>0 DEF Only
<1>3. Whole(d)
  BY <1>1, <1>2, WholeFields DEF Whole, WorkerOK, Only, Fields
<1> QED BY <1>1, <1>2, <1>3

\* The same, for the session.
LEMMA SesChanges ==
  ASSUME NEW r, Whole(r), NEW v \in Ids, NEW d, d = [r EXCEPT !.ses = v]
  PROVE  Whole(d) /\ d.ses = v /\ Only(r, d, {"ses"})
<1>0. DOMAIN r = Fields /\ r = [x \in Fields |-> r[x]]
  BY BlankFields DEF Whole, WorkerOK
<1>1. d = [y \in Fields |-> d[y]] /\ d.ses = v
  BY <1>0 DEF Fields
<1>2. Only(r, d, {"ses"})
  BY <1>0 DEF Only
<1>3. Whole(d)
  BY <1>1, <1>2, WholeFields DEF Whole, WorkerOK, Only, Fields
<1> QED BY <1>1, <1>2, <1>3

Others(a) ==
  /\ w' = [b \in Workers |-> w'[b]]
  /\ \A b \in Workers \ {a} : Whole(w'[b]) /\ Like(w[b], w'[b])

\* Every export and import at work notices that somebody has written.
Heard(a) == \A b \in Workers \ {a} : Watching(w[b]) => ~w'[b].alone

\* A worker at work as it is before its step is counted.
Taken(a, r) ==
  w[a].pc = "busy" /\ Whole(r) /\ r.pc = "busy" /\ r.req = w[a].req
Works(a, r) == Taken(a, r) /\ Others(a) /\ Whole(w'[a]) /\ Gone(r, w'[a])
Failed(a) ==
  /\ w[a].pc = "busy" /\ Others(a) /\ Whole(w'[a]) /\ w'[a].pc = "failed" /\ w'[a].req = w[a].req
  /\ w'[a].ses = w[a].ses /\ w'[a].steps = w[a].steps /\ w'[a].stale = w[a].stale
  /\ Holds(w'[a], Blank)

\* Others that stay as they are.
LEMMA SameIsLike == ASSUME NEW r PROVE Like(r, r)
BY DEF Like, Holds

\* A read is a step of one worker.
LEMMA ReadsWork ==
  ASSUME WorkersWhole, NEW a \in Workers, NEW r, Taken(a, r), r.steps # <<>>, Reads(a, r)
  PROVE  Works(a, r)
<1>1. w' = [w EXCEPT ![a] = After(r)]
  BY DEF Reads
<1>2. w'[a] = After(r) /\ \A b \in Workers \ {a} : w'[b] = w[b]
  BY <1>1 DEF WorkersWhole
<1>3. w' = [b \in Workers |-> w'[b]]
  BY <1>1 DEF WorkersWhole
<1>4. Whole(After(r)) /\ Gone(r, After(r))
  BY AfterIsGone DEF Taken
<1>5. Others(a)
  BY <1>2, <1>3, SameIsLike DEF Others, WorkersWhole
<1> QED BY <1>2, <1>4, <1>5 DEF Works

\* A write is heard.
LEMMA BecomesIsHeard ==
  ASSUME WorkersWhole, NEW a \in Workers, NEW r, Becomes(a, r)
  PROVE  Others(a) /\ Heard(a) /\ w'[a] = r
<1>1. w' = [b \in Workers |-> IF b = a THEN r ELSE Disturbed(w[b], None, FALSE)]
  BY DEF Becomes
<1>2. w'[a] = r /\ \A b \in Workers \ {a} : w'[b] = Disturbed(w[b], None, FALSE)
  BY <1>1
<1>3. w' = [b \in Workers |-> w'[b]]
  BY <1>1
<1>4. \A b \in Workers \ {a} :
        Whole(w'[b]) /\ Like(w[b], w'[b]) /\ (Watching(w[b]) => ~w'[b].alone)
  <2> TAKE b \in Workers \ {a}
  <2>1. Whole(w[b]) /\ FALSE \in BOOLEAN
    BY DEF WorkersWhole
  <2>2. LET d == Disturbed(w[b], None, FALSE) IN
        Whole(d) /\ Like(w[b], d) /\ d.alone = (w[b].alone /\ ~Watching(w[b]))
    BY <2>1, DisturbedIsLike
  <2> QED BY <1>2, <2>2
<1> QED BY <1>2, <1>3, <1>4 DEF Others, Heard

\* A write is a step of one worker that is heard.
LEMMA WritesWork ==
  ASSUME WorkersWhole, NEW a \in Workers, NEW r, Taken(a, r), r.steps # <<>>, Writes(a, r)
  PROVE  Works(a, r) /\ Heard(a)
<1>1. Others(a) /\ Heard(a) /\ w'[a] = After(r)
  BY BecomesIsHeard DEF Writes
<1>2. Whole(After(r)) /\ Gone(r, After(r))
  BY AfterIsGone DEF Taken
<1> QED BY <1>1, <1>2 DEF Works

\* A failure is the end of one worker.
LEMMA FailsEmpties ==
  ASSUME WorkersWhole, NEW a \in Workers, w[a].pc = "busy", Fails(a)
  PROVE  Failed(a)
<1>1. w' = [w EXCEPT ![a] = Stopped(w[a])]
  BY DEF Fails
<1>2. w'[a] = Stopped(w[a]) /\ \A b \in Workers \ {a} : w'[b] = w[b]
  BY <1>1 DEF WorkersWhole
<1>3. w' = [b \in Workers |-> w'[b]]
  BY <1>1 DEF WorkersWhole
<1>4. Others(a)
  BY <1>2, <1>3, SameIsLike DEF Others, WorkersWhole
<1> QED BY <1>2, <1>4, StoppedIsEmpty DEF Failed, WorkersWhole

-----------------------------------------------------------------------------
(* The types.                                                               *)

\* Whoever is in no session is about to create one, or needs none.
Placed ==
  \A a \in Workers :
    w[a].pc = "busy" /\ w[a].ses = None => "create" \in Left(w[a]) \/ w[a].req.do = "remove"

\* A request that uses a list of todos has read it, or will before that.
Listed ==
  \A a \in Workers :
    /\ w[a].pc = "busy" /\ w[a].req.do \in {"fork", "upsert", "drop", "export"} =>
         w[a].todos \in TodoList \/ TodosFirst(w[a].steps)
    /\ w[a].pc = "done" /\ w[a].req.do = "export" => w[a].todos \in TodoList
    /\ w[a].pc = "busy" /\ w[a].req.do = "import" =>
         w[a].todos \in TodoList /\ w[a].left \subseteq DOMAIN w[a].items

ItemShape == [ses : Ids, turn : TurnIds \cup {None}, at : Nat \ {0}]
RowsTyped == \A s \in DOMAIN rows : rows[s] \in Row
TodosTyped ==
  /\ todos \in [Ids -> TodoList]
  /\ \A s \in Ids \ DOMAIN rows : todos[s] = <<>>
ItemsTyped ==
  /\ DOMAIN items \subseteq Items /\ \A k \in DOMAIN items : items[k] \in ItemShape
  /\ \E n \in Nat : \A k \in DOMAIN items : items[k].at <= n
MarksTyped == torn \cup mixed \subseteq Ids

TypeInv ==
  /\ KeepInv /\ WorkersWhole /\ Courses /\ Placed /\ Listed
  /\ RowsTyped /\ TodosTyped /\ ItemsTyped /\ MarksTyped

\* A non-empty set of numbers has a least one.
LEMMA LeastOf ==
  ASSUME NEW T \in SUBSET Nat, T # {}
  PROVE  \E x \in T : \A y \in T : x <= y
<1> DEFINE R == OpToRel(<, Nat)
<1>1. IsWellFoundedOn(R, Nat)
  BY NatLessThanWellFounded
<1>2. \E x \in T : \A y \in T : ~ (<<y, x>> \in R)
  <2> HIDE DEF R
  <2> QED BY <1>1, WFMin
<1>3. PICK x \in T : \A y \in T : ~ (<<y, x>> \in R)
  BY <1>2
<1>4. ASSUME NEW y \in T PROVE x <= y
  <2> SUFFICES ASSUME y < x PROVE FALSE
    OBVIOUS
  <2>1. <<y, x>> \in R
    BY DEF OpToRel
  <2> QED BY <2>1, <1>3
<1> QED BY <1>3, <1>4

\* What is saved now is later than all that was saved.
LEMMA NowIsLater ==
  ASSUME ItemsTyped
  PROVE  Now \in Nat \ {0} /\ \A k \in DOMAIN items : items[k].at < Now
<1> DEFINE times == {items[k].at : k \in DOMAIN items}
<1>1. times \in SUBSET Nat
  BY DEF ItemsTyped, ItemShape
<1>2. \E n \in Nat : \A t \in times : t <= n
  BY DEF ItemsTyped
<1>3. Now = 1 + (IF times = {} THEN 0 ELSE CHOOSE t \in times : \A u \in times : u <= t)
  BY DEF Now
<1>4. \A k \in DOMAIN items : items[k].at \in times
  OBVIOUS
<1> HIDE DEF times
<1>5. CASE times = {}
  BY <1>3, <1>4, <1>5
<1>6. CASE times # {}
  <2> DEFINE bounds == {n \in Nat : \A t \in times : t <= n}
  <2>1. PICK m \in bounds : \A n \in bounds : m <= n
    <3>1. bounds \in SUBSET Nat /\ bounds # {}
      BY <1>2
    <3> HIDE DEF bounds
    <3> QED BY <3>1, LeastOf
  <2>2. m \in times
    <3> SUFFICES ASSUME m \notin times PROVE FALSE
      OBVIOUS
    <3>1. m \in Nat /\ \A t \in times : t \in Nat /\ t <= m /\ t # m
      BY <1>1, <2>1
    <3>2. m > 0
      BY <1>6, <3>1
    <3>3. m - 1 \in Nat /\ \A t \in times : t <= m - 1
      BY <3>1, <3>2
    <3>4. m - 1 \in bounds
      BY <3>3
    <3>5. m <= m - 1
      BY <2>1, <3>4
    <3> QED BY <3>1, <3>5
  <2>3. \A u \in times : u <= m
    BY <2>1
  <2> DEFINE t == CHOOSE t \in times : \A u \in times : u <= t
  <2>4. t \in times /\ \A u \in times : u <= t
    BY <2>2, <2>3
  <2>5. Now = 1 + t
    BY <1>3, <1>6
  <2> HIDE DEF t
  <2>6. t \in Nat /\ \A u \in times : u \in Nat /\ u < 1 + t
    BY <1>1, <2>4
  <2>7. 1 + t \in Nat \ {0}
    BY <2>6
  <2> QED BY <1>4, <2>5, <2>6, <2>7
<1> QED BY <1>5, <1>6

\* What a request names is there.
LEMMA RequestFields ==
  ASSUME NEW r \in Request
  PROVE  /\ r.do = "put" => r.todos \subseteq TodoIds
         /\ r.do \in {"upsert", "drop"} => r.todo \in TodoIds
         /\ r.do \in {"checkpoint", "artifact"} => r.id \in ItemIds
         /\ r.do \in TodoDo => SesOf(r) \in Names
         /\ r.do = "fork" => SesOf(r) \in Names
         /\ SesOf(r) = None =>
              r.do \in {"create", "remove", "import"} \/ (r.do = "run" /\ r.ses = None)
<1>1. CASE r \in [do : {"run"}, ses : Names \cup {None}]
  BY <1>1 DEF SesOf, TodoDo
<1>2. CASE r \in [do : {"fork"}, ses : Names, at : TurnIds \cup {None}]
  BY <1>2, SessionsAssumption DEF SesOf, TodoDo, Ids
<1>3. CASE r \in [do : {"put"}, ses : Names, todos : SUBSET TodoIds]
  BY <1>3, SessionsAssumption DEF SesOf, TodoDo, Ids
<1>4. CASE r \in [do : {"upsert", "drop"}, ses : Names, todo : TodoIds]
  BY <1>4, SessionsAssumption DEF SesOf, TodoDo, Ids
<1>5. CASE r \in [do : {"compact"}, ses : Names, checkpoint : BOOLEAN]
  BY <1>5, SessionsAssumption DEF SesOf, TodoDo, Ids
<1>6. CASE r \in [do : {"checkpoint", "artifact"}, ses : Names, id : ItemIds,
                  turn : TurnIds \cup {None}]
  BY <1>6, SessionsAssumption DEF SesOf, TodoDo, Ids
<1>7. CASE r \in [do : {"remove"}, id : ItemIds]
  BY <1>7 DEF SesOf, TodoDo
<1>8. CASE r \in [do : {"create"}]
  BY <1>8 DEF SesOf, TodoDo
<1>9. CASE r \in [do : {"prune", "export"}, ses : Names]
  BY <1>9, SessionsAssumption DEF SesOf, TodoDo, Ids
<1>10. CASE r \in [do : {"import"}, as : Names \cup {None}, overwrite : BOOLEAN]
  BY <1>10 DEF SesOf, TodoDo
<1> QED BY <1>1, <1>2, <1>3, <1>4, <1>5, <1>6, <1>7, <1>8, <1>9, <1>10 DEF Request

\* The types of a bundle.
LEMMA BundleFields ==
  ASSUME TypeInv, NEW b \in Bundles
  PROVE  /\ b.ses \in Names /\ b.row \in Row /\ b.turns \in Seq(TurnIds)
         /\ b.events \subseteq TurnIds
         /\ b.todos \in TodoList /\ ItemTurns(b.items) /\ b.stale \in BOOLEAN
<1>1. CASE b \in Backups
  <2>1. b.turns \in Seq(TurnIds) /\ b.stale \in BOOLEAN
    BY BundleTurns DEF TypeInv, KeepInv, OwnInv, Ready
  <2>2. IsBundle(b)
    BY <1>1, SessionsAssumption
  <2> QED BY <2>1, <2>2 DEF IsBundle, TurnIds
<1>2. CASE \E x \in Exports : b = Exported(w[x])
  <2>1. PICK x \in Workers : w[x].pc = "done" /\ w[x].req.do = "export" /\ b = Exported(w[x])
    BY <1>2 DEF Exports
  <2>2. WorkerOK(w[x]) /\ w[x].ses \in Names /\ w[x].todos \in TodoList
    BY <2>1 DEF TypeInv, WorkersWhole, Whole, KeepInv, Housed, Listed
  <2> QED BY <2>1, <2>2 DEF Exported, WorkerOK
<1> QED BY <1>1, <1>2 DEF Bundles

\* What is known of a worker at work.
LEMMA AtWork ==
  ASSUME TypeInv, NEW a \in Workers, w[a].pc = "busy"
  PROVE  /\ Whole(w[a]) /\ WorkerOK(w[a]) /\ w[a].steps # <<>> /\ w[a].req \in Request
         /\ w[a].ses \in Names \cup {None, a}
         /\ Head(w[a].steps) \notin {"create", "remove"} => w[a].ses \in Ids
<1>1. Ready /\ Tasked /\ Courses /\ Housed /\ Placed /\ WorkersWhole
  BY DEF TypeInv, KeepInv, OwnInv
<1>2. Whole(w[a]) /\ WorkerOK(w[a]) /\ w[a].steps # <<>> /\ w[a].req \in Request
      /\ w[a].ses \in Names \cup {None, a}
  BY <1>1, NextOfWorker DEF WorkersWhole, Whole, Tasked, Housed
<1>3. ASSUME w[a].ses = None
      PROVE  Head(w[a].steps) \in {"create", "remove"}
  <2>1. CASE "create" \in Left(w[a])
    BY <1>1, <2>1, HeadAndTail DEF Left
  <2>2. CASE w[a].req.do = "remove"
    <3>1. Serving(Head(w[a].steps), "remove")
      BY <1>1, <2>2, NextOfWorker
    <3> QED BY <3>1 DEF Serving
  <2> QED BY <1>1, <1>3, <2>1, <2>2 DEF Placed
<1> QED BY <1>2, <1>3 DEF Ids

\* A step that leaves request and steps.
LEMMA TakenOnly ==
  ASSUME NEW a \in Workers, w[a].pc = "busy", NEW r, Whole(r), NEW changed,
         Only(w[a], r, changed), changed \cap {"pc", "req", "steps"} = {}
  PROVE  Taken(a, r) /\ r.steps = w[a].steps
BY DEF Taken, Only, Fields

\* A step that changes nothing first.
LEMMA NothingChanges ==
  ASSUME NEW a \in Workers, w[a].pc = "busy", Whole(w[a])
  PROVE  Taken(a, w[a]) /\ Only(w[a], w[a], {})
BY DEF Taken, Only

Worked(a, r, changed) == Works(a, r) /\ Only(w[a], r, changed) /\ r.steps = w[a].steps

\* The reads of a session.
LEMMA ReadRowWorks ==
  ASSUME TypeInv, NEW a \in Workers, ReadRow(a)
  PROVE  \E r : /\ Worked(a, r, {"row", "stale"}) /\ r.row = rows[w[a].ses]
                /\ (r.stale <=> w[a].stale \/ w[a].ses \in mixed)
<1> DEFINE st == w[a].stale \/ w[a].ses \in mixed
           v == rows[w[a].ses]
           r == [w[a] EXCEPT !.row = v, !.stale = st]
<1>1. w[a].pc = "busy" /\ w[a].ses \in DOMAIN rows /\ Reads(a, r)
  BY DEF ReadRow, At
<1>2. Whole(w[a]) /\ w[a].steps # <<>> /\ WorkersWhole
  BY <1>1, AtWork DEF TypeInv
<1>3. v \in Row /\ st \in BOOLEAN
  BY <1>1, <1>2 DEF TypeInv, RowsTyped, Whole, WorkerOK
<1>4. r = [w[a] EXCEPT !.row = v, !.stale = st]
  OBVIOUS
<1>5. v = rows[w[a].ses] /\ (st <=> w[a].stale \/ w[a].ses \in mixed)
  OBVIOUS
<1> HIDE DEF r, v, st
<1>6. Whole(r) /\ r.row = v /\ (r.stale <=> st) /\ Only(w[a], r, {"row", "stale"})
  <2>0. DOMAIN w[a] = Fields /\ w[a] = [x \in Fields |-> w[a][x]]
    BY <1>2, BlankFields DEF Whole, WorkerOK
  <2>1. r = [y \in Fields |-> r[y]] /\ r.row = v /\ (r.stale <=> st) /\ r.stale \in BOOLEAN
    BY <1>3, <1>4, <2>0 DEF Fields
  <2>2. Only(w[a], r, {"row", "stale"})
    BY <1>4, <2>0 DEF Only
  <2>3. Whole(r)
    BY <1>2, <1>3, <2>1, <2>2, WholeFields DEF Whole, WorkerOK, Only, Fields
  <2> QED BY <2>1, <2>2, <2>3
<1>7. Taken(a, r) /\ r.steps = w[a].steps
  BY <1>1, <1>6, TakenOnly
<1>8. Works(a, r)
  BY <1>1, <1>2, <1>7, ReadsWork
<1> QED BY <1>5, <1>6, <1>7, <1>8 DEF Worked

\* The same, for the turns.
LEMMA ReadTurnsWorks ==
  ASSUME TypeInv, NEW a \in Workers, ReadTurns(a)
  PROVE  \E r : Worked(a, r, {"turns"}) /\ r.turns = turns[w[a].ses]
<1> DEFINE v == turns[w[a].ses]
           r == [w[a] EXCEPT !.turns = v]
<1>1. w[a].pc = "busy" /\ Head(w[a].steps) = "turns" /\ Reads(a, r)
  BY DEF ReadTurns, At
<1>2. Whole(w[a]) /\ w[a].steps # <<>> /\ WorkersWhole /\ w[a].ses \in Ids
  BY <1>1, AtWork DEF TypeInv
<1>3. v \in Seq(TurnIds)
  BY <1>2 DEF TypeInv, KeepInv, OwnInv, TurnsTyped
<1>4. r = [w[a] EXCEPT !.turns = v] /\ v = turns[w[a].ses]
  OBVIOUS
<1> HIDE DEF r, v
<1>6. Whole(r) /\ r.turns = v /\ Only(w[a], r, {"turns"})
  BY <1>2, <1>3, <1>4, TurnsChange
<1>7. Taken(a, r) /\ r.steps = w[a].steps
  BY <1>1, <1>6, TakenOnly
<1>8. Works(a, r)
  BY <1>1, <1>2, <1>7, ReadsWork
<1> QED BY <1>4, <1>6, <1>7, <1>8 DEF Worked

\* The same, for the events.
LEMMA ReadEventsWorks ==
  ASSUME TypeInv, NEW a \in Workers, ReadEvents(a)
  PROVE  \E r : Worked(a, r, {"events"}) /\ r.events = TurnSet(turns[w[a].ses])
<1> DEFINE v == TurnSet(turns[w[a].ses])
           r == [w[a] EXCEPT !.events = v]
<1>1. w[a].pc = "busy" /\ Head(w[a].steps) = "events" /\ Reads(a, r)
  BY DEF ReadEvents, At
<1>2. Whole(w[a]) /\ w[a].steps # <<>> /\ WorkersWhole /\ w[a].ses \in Ids
  BY <1>1, AtWork DEF TypeInv
<1>3. v \subseteq TurnIds
  <2>1. turns[w[a].ses] \in Seq(TurnIds)
    BY <1>2 DEF TypeInv, KeepInv, OwnInv, TurnsTyped
  <2> QED BY <2>1 DEF TurnSet
<1>4. r = [w[a] EXCEPT !.events = v] /\ v = TurnSet(turns[w[a].ses])
  OBVIOUS
<1> HIDE DEF r, v
<1>6. Whole(r) /\ r.events = v /\ Only(w[a], r, {"events"})
  <2>1. ASSUME NEW x, x \subseteq TurnIds, NEW d, d = [w[a] EXCEPT !.events = x]
        PROVE  Whole(d) /\ d.events = x /\ Only(w[a], d, {"events"})
    BY <1>2, <2>1, EventsChange
  <2> QED BY <1>3, <1>4, <2>1
<1>7. Taken(a, r) /\ r.steps = w[a].steps
  BY <1>1, <1>6, TakenOnly
<1>8. Works(a, r)
  BY <1>1, <1>2, <1>7, ReadsWork
<1> QED BY <1>4, <1>6, <1>7, <1>8 DEF Worked

\* The same, for the todos.
LEMMA ReadTodosWorks ==
  ASSUME TypeInv, NEW a \in Workers, ReadTodos(a)
  PROVE  \E r : /\ Worked(a, r, {"todos"}) /\ r.todos = todos[w[a].ses]
                /\ r.todos \in TodoList
<1> DEFINE v == todos[w[a].ses]
           r == [w[a] EXCEPT !.todos = v]
<1>1. w[a].pc = "busy" /\ Head(w[a].steps) = "todos" /\ Reads(a, r)
  BY DEF ReadTodos, At
<1>2. Whole(w[a]) /\ w[a].steps # <<>> /\ WorkersWhole /\ w[a].ses \in Ids
  BY <1>1, AtWork DEF TypeInv
<1>3. v \in TodoList
  BY <1>2 DEF TypeInv, TodosTyped
<1>4. r = [w[a] EXCEPT !.todos = v] /\ v = todos[w[a].ses]
  OBVIOUS
<1> HIDE DEF r, v
<1>6. Whole(r) /\ r.todos = v /\ Only(w[a], r, {"todos"})
  BY <1>2, <1>3, <1>4, TodosChange
<1>7. Taken(a, r) /\ r.steps = w[a].steps
  BY <1>1, <1>6, TakenOnly
<1>8. Works(a, r)
  BY <1>1, <1>2, <1>7, ReadsWork
<1> QED BY <1>3, <1>4, <1>6, <1>7, <1>8 DEF Worked

\* The same, for what is attached to it.
LEMMA ReadItemsWorks ==
  ASSUME TypeInv, NEW a \in Workers, ReadItems(a)
  PROVE  \E r : /\ Worked(a, r, {"items"})
                /\ \A k \in DOMAIN r.items :
                     \/ k \in DOMAIN w[a].items /\ r.items[k] = w[a].items[k]
                     \/ k \in DOMAIN items /\ items[k].ses = w[a].ses /\ r.items[k] = items[k].turn
<1> DEFINE own == {k \in DOMAIN items : k[1] = Head(w[a].steps) /\ items[k].ses = w[a].ses}
           v == [k \in DOMAIN w[a].items \cup own |->
                   IF k \in own THEN items[k].turn ELSE w[a].items[k]]
           r == [w[a] EXCEPT !.items = v]
<1>1. w[a].pc = "busy" /\ Reads(a, r)
  BY DEF ReadItems
<1>2. Whole(w[a]) /\ w[a].steps # <<>> /\ WorkersWhole
  BY <1>1, AtWork DEF TypeInv
<1>3. /\ DOMAIN v = DOMAIN w[a].items \cup own
      /\ \A k \in own : v[k] = items[k].turn /\ k \in DOMAIN items /\ items[k].ses = w[a].ses
      /\ \A k \in DOMAIN w[a].items \ own : v[k] = w[a].items[k]
  OBVIOUS
<1>4. r = [w[a] EXCEPT !.items = v]
  OBVIOUS
<1> HIDE DEF r, v, own
<1>5. ItemTurns(v)
  <2>1. ItemTurns(w[a].items) /\ DOMAIN items \subseteq Items
        /\ \A k \in DOMAIN items : items[k].turn \in TurnIds \cup {None}
    BY <1>2 DEF TypeInv, ItemsTyped, ItemShape, Whole, WorkerOK
  <2> QED BY <1>3, <2>1 DEF ItemTurns
<1>6. Whole(r) /\ r.items = v /\ Only(w[a], r, {"items"})
  BY <1>2, <1>4, <1>5, ItemsChange
<1>7. Taken(a, r) /\ r.steps = w[a].steps
  BY <1>1, <1>6, TakenOnly
<1>8. Works(a, r)
  BY <1>1, <1>2, <1>7, ReadsWork
<1>9. \A k \in DOMAIN v :
        \/ k \in DOMAIN w[a].items /\ v[k] = w[a].items[k]
        \/ k \in DOMAIN items /\ items[k].ses = w[a].ses /\ v[k] = items[k].turn
  BY <1>3
<1> QED BY <1>6, <1>7, <1>8, <1>9 DEF Worked

\* What a summary covers are turns of the session.
LEMMA SummaryIsOfTurns ==
  ASSUME NEW seq \in Seq(TurnIds)
  PROVE  Summary(seq) \subseteq TurnSet(seq) /\ TurnSet(seq) \subseteq TurnIds
<1>1. KeepLast \in Nat /\ Len(seq) \in Nat /\ DOMAIN seq = 1..Len(seq)
  BY SessionsAssumption
<1>2. \A i \in 1..(Len(seq) - KeepLast) : i \in 1..Len(seq)
  BY <1>1
<1>3. \A i \in DOMAIN seq : seq[i] \in TurnIds
  BY <1>1
<1> QED BY <1>1, <1>2, <1>3 DEF Summary, TurnSet

\* A request is accepted with empty hands.
Accepts(a) ==
  /\ w[a].pc = "idle" /\ Others(a) /\ Whole(w'[a]) /\ w'[a].pc = "busy" /\ w'[a].req \in Request
  /\ w'[a].req.do # "import" /\ w'[a].steps = Steps(w'[a].req) /\ w'[a].ses = SesOf(w'[a].req)
  /\ w'[a].stale = FALSE /\ w'[a].alone = TRUE /\ Holds(w'[a], Blank)

\* Accepting a request is that.
LEMMA AcceptWorks ==
  ASSUME TypeInv, NEW a \in Workers, Accept(a)
  PROVE  Accepts(a) /\ DbSame
<1>1. PICK r \in Serves[a] :
        /\ r.do # "import"
        /\ w' = [w EXCEPT ![a] = [Blank EXCEPT !.pc = "busy", !.req = r, !.steps = Steps(r),
                 !.ses = IF "ses" \in DOMAIN r THEN r.ses ELSE None]]
  BY DEF Accept
<1>2. r \in Request /\ w[a].pc = "idle" /\ DbSame /\ WorkersWhole
  BY SessionsAssumption DEF Accept, TypeInv
<1>3. Steps(r) \in Seq(StepNames) /\ SesOf(r) \in Ids \cup {None}
  BY <1>2, StepsAreOrderly, SesIsNamed DEF Orderly, Ids
<1> DEFINE ses == SesOf(r)
           steps == Steps(r)
           d == [Blank EXCEPT !.pc = "busy", !.req = r, !.steps = steps, !.ses = ses]
<1>4. w'[a] = d /\ \A b \in Workers \ {a} : w'[b] = w[b]
  BY <1>1, <1>2 DEF SesOf, WorkersWhole
<1> HIDE DEF ses, steps
<1>5. /\ d = [x \in Fields |-> d[x]] /\ d.pc = "busy" /\ d.req = r /\ d.steps = steps
      /\ d.ses = ses /\ d.alone = TRUE /\ d.stale = FALSE /\ Holds(d, Blank)
  <2>1. ASSUME NEW x, x = d
        PROVE  /\ x = [y \in Fields |-> x[y]] /\ x.pc = "busy" /\ x.req = r /\ x.steps = steps
               /\ x.ses = ses /\ x.alone = TRUE /\ x.stale = FALSE /\ Holds(x, Blank)
    BY <2>1, BlankFields DEF Fields, Holds
  <2> QED BY <2>1
<1> HIDE DEF d
<1>6. Whole(d)
  <2>1. /\ d.row = EmptyRow /\ d.turns = <<>> /\ d.events = {} /\ d.todos = None
        /\ d.items = <<>> /\ d.left = {}
    BY <1>5, BlankFields DEF Holds
  <2>2. /\ steps \in Seq(StepNames) /\ ses \in Ids \cup {None} /\ r \in Request
        /\ d.alone \in BOOLEAN /\ d.stale \in BOOLEAN
    BY <1>2, <1>3, <1>5 DEF ses, steps
  <2>3. /\ d.turns \in Seq(TurnIds) /\ d.row \in Row /\ ItemTurns(d.items)
        /\ d.events \subseteq TurnIds /\ d.left \subseteq Items
        /\ d.todos \in TodoList \cup {None}
    BY <2>1, BlankTypes
  <2> QED BY <1>5, <2>2, <2>3, WholeFields
<1>7. w' = [b \in Workers |-> w'[b]]
  BY <1>1, <1>2 DEF WorkersWhole
<1>8. Others(a)
  BY <1>2, <1>4, <1>7, SameIsLike DEF Others, WorkersWhole
<1> QED BY <1>1, <1>2, <1>4, <1>5, <1>6, <1>8 DEF Accepts, ses, steps

\* An import is accepted with its bundle.
Takes(a, b) ==
  /\ w[a].pc = "idle" /\ Others(a) /\ Whole(w'[a]) /\ w'[a].pc = "busy" /\ w'[a].req \in Request
  /\ w'[a].req.do = "import" /\ w'[a].steps = Steps(w'[a].req) /\ w'[a].ses \in Names
  /\ w'[a].stale = b.stale /\ w'[a].alone = TRUE /\ w'[a].row = b.row /\ w'[a].turns = b.turns
  /\ w'[a].events = b.events /\ w'[a].todos = b.todos /\ w'[a].items = b.items
  /\ w'[a].left = DOMAIN b.items

\* Accepting an import is that.
LEMMA AcceptImportWorks ==
  ASSUME TypeInv, NEW a \in Workers, AcceptImport(a)
  PROVE  (\E b \in Bundles : Takes(a, b)) /\ DbSame
<1>1. PICK r \in Serves[a], b \in Bundles :
        /\ r.do = "import"
        /\ w' = [w EXCEPT ![a] = [Blank EXCEPT !.pc = "busy", !.req = r, !.steps = Steps(r),
                 !.ses = IF r.as = None THEN b.ses ELSE r.as, !.row = b.row,
                 !.turns = b.turns, !.events = b.events, !.todos = b.todos,
                 !.items = b.items, !.left = DOMAIN b.items, !.stale = b.stale]]
  BY DEF AcceptImport
<1>2. r \in Request /\ w[a].pc = "idle" /\ DbSame /\ WorkersWhole
  BY SessionsAssumption DEF AcceptImport, TypeInv
<1> DEFINE ses == IF r.as = None THEN b.ses ELSE r.as
           steps == Steps(r)
           left == DOMAIN b.items
           d == [Blank EXCEPT !.pc = "busy", !.req = r, !.steps = steps,
                 !.ses = ses, !.row = b.row,
                 !.turns = b.turns, !.events = b.events, !.todos = b.todos,
                 !.items = b.items, !.left = left, !.stale = b.stale]
<1>3. steps \in Seq(StepNames) /\ ses \in Names /\ left \subseteq Items
  <2>1. steps \in Seq(StepNames)
    BY <1>2, StepsAreOrderly DEF Orderly
  <2>2. b.ses \in Names /\ r.as \in Names \cup {None} /\ ItemTurns(b.items)
    BY <1>1, <1>2, BundleFields, SesIsNamed
  <2> QED BY <2>1, <2>2 DEF ItemTurns
<1>4. w'[a] = d /\ \A c \in Workers \ {a} : w'[c] = w[c]
  BY <1>1, <1>2 DEF WorkersWhole
<1> HIDE DEF ses, steps, left
<1>5. /\ d = [x \in Fields |-> d[x]] /\ d.pc = "busy" /\ d.req = r /\ d.steps = steps
      /\ d.ses = ses /\ d.alone = TRUE /\ d.stale = b.stale /\ d.row = b.row
      /\ d.turns = b.turns /\ d.events = b.events /\ d.todos = b.todos /\ d.items = b.items
      /\ d.left = left
  <2>1. ASSUME NEW x, x = d
        PROVE  /\ x = [y \in Fields |-> x[y]] /\ x.pc = "busy" /\ x.req = r /\ x.steps = steps
               /\ x.ses = ses /\ x.alone = TRUE /\ x.stale = b.stale /\ x.row = b.row
               /\ x.turns = b.turns /\ x.events = b.events /\ x.todos = b.todos
               /\ x.items = b.items /\ x.left = left
    BY <2>1, BlankFields DEF Fields
  <2> QED BY <2>1
<1> HIDE DEF d
<1>6. Whole(d)
  BY <1>2, <1>3, <1>5, WholeFields, BundleFields DEF Ids
<1>7. w' = [c \in Workers |-> w'[c]]
  BY <1>1, <1>2 DEF WorkersWhole
<1>8. Others(a)
  BY <1>2, <1>4, <1>7, SameIsLike DEF Others, WorkersWhole
<1>9. Takes(a, b)
  BY <1>1, <1>2, <1>3, <1>4, <1>5, <1>6, <1>8 DEF Takes, steps, left
<1> QED BY <1>2, <1>9

\* The agent changes the row the run will save.
LEMMA AgentWorks ==
  ASSUME TypeInv, NEW a \in Workers, Agent(a)
  PROVE  \E r : /\ Worked(a, r, {"row"}) /\ r.row.last \in {w[a].row.last, a}
                /\ \/ r.row.sum = w[a].row.sum
                   \/ r.row.sum \subseteq TurnSet(w[a].turns) \cup {a}
<1>1. PICK answered \in BOOLEAN :
        LET row == [w[a].row EXCEPT !.last = IF answered THEN a ELSE @]
        IN Reads(a, [w[a] EXCEPT !.row = Compacted(row, Append(w[a].turns, a))])
  BY DEF Agent
<1>2. w[a].pc = "busy"
  BY DEF Agent, At
<1>3. Whole(w[a]) /\ w[a].steps # <<>> /\ WorkersWhole /\ w[a].row \in Row
      /\ w[a].turns \in Seq(TurnIds)
  BY <1>2, AtWork DEF TypeInv, WorkerOK
<1> DEFINE last == IF answered THEN a ELSE w[a].row.last
           row == [w[a].row EXCEPT !.last = last]
           seq == Append(w[a].turns, a)
           v == Compacted(row, seq)
           r == [w[a] EXCEPT !.row = v]
<1>4. Reads(a, r)
  BY <1>1
<1>5. a \in TurnIds /\ last \in {w[a].row.last, a} /\ last \in TurnIds \cup {None}
  BY <1>3 DEF TurnIds, Row
<1>6. seq \in Seq(TurnIds) /\ TurnSet(seq) = TurnSet(w[a].turns) \cup {a}
  BY <1>3, <1>5, AppendTurns
<1>7. Summary(seq) \subseteq TurnSet(seq) /\ TurnSet(seq) \subseteq TurnIds
  BY <1>6, SummaryIsOfTurns
<1> HIDE DEF last, seq
<1>8. row \in Row /\ row.last = last /\ row.sum = w[a].row.sum
  BY <1>3, <1>5 DEF Row
<1> HIDE DEF row
<1>9. v \in Row /\ v.last = last /\ (v.sum = w[a].row.sum \/ v.sum \subseteq TurnSet(seq))
  BY <1>7, <1>8 DEF Compacted, Row
<1>10. r = [w[a] EXCEPT !.row = v]
  OBVIOUS
<1> HIDE DEF v, r
<1>11. Whole(r) /\ r.row = v /\ Only(w[a], r, {"row"})
  BY <1>3, <1>9, <1>10, RowChanges
<1>12. Taken(a, r) /\ r.steps = w[a].steps
  BY <1>2, <1>11, TakenOnly
<1>13. Works(a, r)
  BY <1>3, <1>4, <1>12, ReadsWork
<1> QED BY <1>5, <1>6, <1>9, <1>11, <1>12, <1>13 DEF Worked

\* Creating a session.
LEMMA CreateWorks ==
  ASSUME TypeInv, NEW a \in Workers, Create(a)
  PROVE  Heard(a) /\ \E r : Worked(a, r, {"ses"}) /\ r.ses = a
<1> DEFINE r == [w[a] EXCEPT !.ses = a]
<1>1. w[a].pc = "busy" /\ Writes(a, r) /\ a \in Ids
  BY DEF Create, At, Ids
<1>2. Whole(w[a]) /\ w[a].steps # <<>> /\ WorkersWhole
  BY <1>1, AtWork DEF TypeInv
<1>3. Whole(r) /\ r.ses = a /\ Only(w[a], r, {"ses"})
  BY <1>1, <1>2, SesChanges
<1> HIDE DEF r
<1>4. Taken(a, r) /\ r.steps = w[a].steps
  BY <1>1, <1>3, TakenOnly
<1>5. Works(a, r) /\ Heard(a)
  BY <1>1, <1>2, <1>4, WritesWork
<1> QED BY <1>3, <1>4, <1>5 DEF Worked

\* Forking a session: the turns kept are a front of those read.
LEMMA ForkWorks ==
  ASSUME TypeInv, NEW a \in Workers, Fork(a)
  PROVE  Heard(a) /\ \E r, n :
           /\ Worked(a, r, {"ses", "row", "turns"}) /\ r.ses = a
           /\ n \in 0..Len(w[a].turns) /\ r.turns = SubSeq(w[a].turns, 1, n)
           /\ n = 0 => w[a].turns = <<>>
           /\ r.row.sum = w[a].row.sum
           /\ r.row.last = IF r.turns = <<>> THEN None ELSE Last(r.turns)
           /\ ~Conflict(a, r.turns)
           /\ rows' = Put(rows, a, r.row)
           /\ turns' = [turns EXCEPT ![a] = r.turns]
           /\ todos' = [todos EXCEPT ![a] = w[a].todos]
<1> DEFINE seq == Retained(w[a].turns, w[a].req.at)
           row == ForkRow(w[a].row, seq)
           r == [w[a] EXCEPT !.ses = a, !.row = row, !.turns = seq]
<1>1. /\ w[a].pc = "busy" /\ Writes(a, r) /\ a \in Ids
      /\ w[a].req.at \in TurnSet(w[a].turns) \cup {None} /\ ~Conflict(a, seq)
      /\ rows' = Put(rows, a, row) /\ turns' = [turns EXCEPT ![a] = seq]
      /\ todos' = [todos EXCEPT ![a] = w[a].todos]
  BY DEF Fork, At, Ids, SaveSession
<1>2. Whole(w[a]) /\ w[a].steps # <<>> /\ WorkersWhole /\ w[a].row \in Row
      /\ w[a].turns \in Seq(TurnIds)
  BY <1>1, AtWork DEF TypeInv, WorkerOK
<1>3. PICK n \in 0..Len(w[a].turns) : seq = SubSeq(w[a].turns, 1, n)
  BY <1>1, <1>2, RetainedIsFront
<1>4. seq = <<>> => w[a].turns = <<>>
  <2>1. CASE w[a].req.at = None
    BY <2>1 DEF Retained
  <2>2. CASE w[a].req.at # None
    <3> DEFINE i == CHOOSE i \in DOMAIN w[a].turns : w[a].turns[i] = w[a].req.at
    <3>1. i \in DOMAIN w[a].turns
      BY <1>1, <2>2 DEF TurnSet
    <3>2. seq = SubSeq(w[a].turns, 1, i)
      BY <2>2 DEF Retained
    <3> HIDE DEF i, seq
    <3>3. i \in 0..Len(w[a].turns) /\ i # 0
      BY <1>2, <3>1
    <3>4. Len(seq) = i
      BY <1>2, <3>2, <3>3, FrontTurns
    <3>5. Len(<<>>) = 0
      OBVIOUS
    <3> QED BY <3>3, <3>4, <3>5
  <2> QED BY <2>1, <2>2
<1>5. row = [w[a].row EXCEPT !.last = IF seq = <<>> THEN None ELSE Last(seq)]
  BY DEF ForkRow
<1>6. r = [w[a] EXCEPT !.ses = a, !.row = row, !.turns = seq]
  OBVIOUS
<1> HIDE DEF r, row, seq
<1>7. seq \in Seq(TurnIds) /\ Len(seq) = n
  BY <1>2, <1>3, FrontTurns
<1>8. n = 0 => w[a].turns = <<>>
  BY <1>4, <1>7
<1>9. seq # <<>> => Last(seq) \in TurnIds
  BY <1>7 DEF Last
<1>10. /\ row \in Row /\ row.sum = w[a].row.sum
       /\ row.last = IF seq = <<>> THEN None ELSE Last(seq)
  BY <1>2, <1>5, <1>9 DEF Row
<1>11. Whole(r) /\ r.ses = a /\ r.row = row /\ r.turns = seq
       /\ Only(w[a], r, {"ses", "row", "turns"})
  <2>0. DOMAIN w[a] = Fields /\ w[a] = [x \in Fields |-> w[a][x]]
    BY <1>2, BlankFields DEF Whole, WorkerOK
  <2>1. r = [y \in Fields |-> r[y]] /\ r.ses = a /\ r.row = row /\ r.turns = seq
    BY <1>6, <2>0 DEF Fields
  <2>2. Only(w[a], r, {"ses", "row", "turns"})
    BY <1>6, <2>0 DEF Only
  <2>3. /\ r.pc = w[a].pc /\ r.req = w[a].req /\ r.steps = w[a].steps
        /\ r.events = w[a].events /\ r.todos = w[a].todos /\ r.items = w[a].items
        /\ r.left = w[a].left /\ r.alone = w[a].alone /\ r.stale = w[a].stale
    BY <2>2 DEF Only, Fields
  <2>4. /\ r.ses \in Ids \cup {None} /\ r.row \in Row /\ r.turns \in Seq(TurnIds)
    BY <1>1, <1>7, <1>10, <2>1
  <2>5. Whole(r)
    BY <1>2, <2>1, <2>3, <2>4, WholeFields DEF Whole, WorkerOK
  <2> QED BY <2>1, <2>2, <2>5
<1>12. Taken(a, r) /\ r.steps = w[a].steps
  BY <1>1, <1>11, TakenOnly
<1>13. Works(a, r) /\ Heard(a)
  BY <1>1, <1>2, <1>12, WritesWork
<1> QED BY <1>1, <1>3, <1>8, <1>10, <1>11, <1>12, <1>13 DEF Worked

\* The writes of a worker that changes nothing of itself first.
LEMMA PlainWrites ==
  ASSUME TypeInv, NEW a \in Workers,
         AppendTurn(a) \/ RecordRun(a) \/ SaveState(a) \/ RemoveArtifact(a) \/ PruneArtifacts(a)
  PROVE  Worked(a, w[a], {}) /\ Heard(a)
<1>1. w[a].pc = "busy" /\ Writes(a, w[a])
  BY DEF AppendTurn, RecordRun, SaveState, RemoveArtifact, PruneArtifacts, Drop, At
<1>2. Whole(w[a]) /\ w[a].steps # <<>> /\ WorkersWhole
  BY <1>1, AtWork DEF TypeInv
<1>3. Taken(a, w[a]) /\ Only(w[a], w[a], {})
  BY <1>1, <1>2, NothingChanges
<1> QED BY <1>1, <1>2, <1>3, WritesWork DEF Worked

\* An import that is admitted.
LEMMA AdmitWorks ==
  ASSUME TypeInv, NEW a \in Workers, Admit(a)
  PROVE  Worked(a, w[a], {})
<1>1. w[a].pc = "busy" /\ Reads(a, w[a])
  BY DEF Admit, At
<1>2. Whole(w[a]) /\ w[a].steps # <<>> /\ WorkersWhole
  BY <1>1, AtWork DEF TypeInv
<1>3. Taken(a, w[a]) /\ Only(w[a], w[a], {})
  BY <1>1, <1>2, NothingChanges
<1> QED BY <1>1, <1>2, <1>3, ReadsWork DEF Worked

\* Attaching.
LEMMA AttachWorks ==
  ASSUME TypeInv, NEW a \in Workers, Attach(a)
  PROVE  (Worked(a, w[a], {}) \/ Failed(a)) /\ Heard(a)
<1>1. w[a].pc = "busy" /\ (Becomes(a, After(w[a])) \/ Becomes(a, Stopped(w[a])))
  BY DEF Attach, At
<1>2. Whole(w[a]) /\ w[a].steps # <<>> /\ WorkersWhole
  BY <1>1, AtWork DEF TypeInv
<1>3. Taken(a, w[a]) /\ Only(w[a], w[a], {})
  BY <1>1, <1>2, NothingChanges
<1>4. CASE Becomes(a, After(w[a]))
  BY <1>2, <1>3, <1>4, WritesWork DEF Worked, Writes
<1>5. CASE Becomes(a, Stopped(w[a]))
  BY <1>1, <1>2, <1>5, BecomesIsHeard, StoppedIsEmpty DEF Failed
<1> QED BY <1>1, <1>4, <1>5

\* The steps that fail.
LEMMA FailuresWork ==
  ASSUME TypeInv, NEW a \in Workers,
         NotFound(a) \/ ForkFails(a) \/ NoSuchTodo(a) \/ NoSuchTurn(a) \/ Refuse(a)
           \/ ImportConflict(a) \/ Abandon(a)
  PROVE  Failed(a) /\ DbSame
<1>1. w[a].pc = "busy" /\ Fails(a)
  BY DEF NotFound, ForkFails, NoSuchTodo, NoSuchTurn, Refuse, ImportConflict, Abandon, At
<1> QED BY <1>1, FailsEmpties DEF TypeInv, Fails

\* Saving a list of todos: the mark of the writer says whether anyone held the
\* list, and those who did, and those it makes obsolete, lose theirs.
LEMMA SaveTodosWorks ==
  ASSUME TypeInv, NEW a \in Workers, SaveTodos(a)
  PROVE  /\ Heard(a)
         /\ \A b \in Holding(a, w[a].ses) \cup Obsolete(a, w[a].ses) : ~w'[b].alone
         /\ \E r : /\ Worked(a, r, {"alone"})
                   /\ (r.alone <=> (w[a].alone /\ Holding(a, w[a].ses) = {}))
<1> DEFINE rivals == Holding(a, w[a].ses)
           losers == rivals \cup Obsolete(a, w[a].ses)
           v == w[a].alone /\ rivals = {}
           r == [w[a] EXCEPT !.alone = v]
<1>1. /\ w[a].pc = "busy"
      /\ w' = [b \in Workers |-> IF b = a THEN After(r)
                                 ELSE IF b \in losers THEN [w[b] EXCEPT !.alone = FALSE]
                                 ELSE Disturbed(w[b], None, FALSE)]
  BY DEF SaveTodos, At
<1>2. losers \subseteq Workers \ {a}
  BY DEF Holding, Obsolete
<1>3. Whole(w[a]) /\ w[a].steps # <<>> /\ WorkersWhole
  BY <1>1, AtWork DEF TypeInv
<1>4. v \in BOOLEAN /\ r = [w[a] EXCEPT !.alone = v]
  BY <1>3 DEF Whole, WorkerOK
<1>5. v <=> (w[a].alone /\ Holding(a, w[a].ses) = {})
  OBVIOUS
<1>6. losers = Holding(a, w[a].ses) \cup Obsolete(a, w[a].ses)
  OBVIOUS
<1> HIDE DEF r, v, losers, rivals
<1>7. Whole(r) /\ (r.alone <=> v) /\ Only(w[a], r, {"alone"})
  BY <1>3, <1>4, AloneChanges
<1>8. Taken(a, r) /\ r.steps = w[a].steps
  BY <1>1, <1>7, TakenOnly
<1>9. Whole(After(r)) /\ Gone(r, After(r))
  BY <1>3, <1>8, AfterIsGone DEF Taken
<1>10. w'[a] = After(r) /\ w' = [b \in Workers |-> w'[b]]
  BY <1>1
<1>11. ASSUME NEW b \in Workers \ {a}
       PROVE  /\ Whole(w'[b]) /\ Like(w[b], w'[b]) /\ (Watching(w[b]) => ~w'[b].alone)
              /\ b \in losers => ~w'[b].alone
  <2>1. Whole(w[b]) /\ FALSE \in BOOLEAN
    BY <1>3 DEF WorkersWhole
  <2>2. CASE b \in losers
    <3>1. ASSUME NEW d, d = [w[b] EXCEPT !.alone = FALSE]
          PROVE  Whole(d) /\ ~d.alone /\ Only(w[b], d, {"alone"})
      BY <2>1, <3>1, AloneChanges
    <3>2. w'[b] = [w[b] EXCEPT !.alone = FALSE]
      BY <1>1, <2>2
    <3>3. Whole(w'[b]) /\ ~w'[b].alone /\ Only(w[b], w'[b], {"alone"})
      BY <3>1, <3>2
    <3> QED BY <3>3 DEF Only, Fields, Like, Holds
  <2>3. CASE b \notin losers
    <3>1. LET d == Disturbed(w[b], None, FALSE) IN
          Whole(d) /\ Like(w[b], d) /\ d.alone = (w[b].alone /\ ~Watching(w[b]))
      BY <2>1, DisturbedIsLike
    <3>2. w'[b] = Disturbed(w[b], None, FALSE)
      BY <1>1, <2>3
    <3> QED BY <2>3, <3>1, <3>2
  <2> QED BY <2>2, <2>3
<1>12. Others(a) /\ Heard(a) /\ \A b \in losers : ~w'[b].alone
  BY <1>2, <1>10, <1>11 DEF Others, Heard
<1>13. Works(a, r)
  BY <1>8, <1>9, <1>10, <1>12 DEF Works
<1> QED BY <1>5, <1>6, <1>7, <1>8, <1>12, <1>13 DEF Worked

\* Importing the session: who is in it is no longer alone, and holds stale data
\* when it replaces one.
LEMMA ImportSessionWorks ==
  ASSUME TypeInv, NEW a \in Workers, ImportSession(a)
  PROVE  /\ Heard(a)
         /\ \A b \in Workers \ {a} : w[b].ses = w[a].ses /\ w[b].pc # "idle" =>
              ~w'[b].alone /\ (w[a].ses \in DOMAIN rows => w'[b].stale)
         /\ \E r : /\ Works(a, r) /\ Only(w[a], r, {"steps"})
                   /\ r.steps = IF w[a].left = {} THEN <<"session">> ELSE w[a].steps
<1> DEFINE s == w[a].ses
           replaced == s \in DOMAIN rows
           r == IF w[a].left = {} THEN [w[a] EXCEPT !.steps = <<"session">>] ELSE w[a]
<1>1. /\ w[a].pc = "busy"
      /\ w' = [b \in Workers |-> IF b = a THEN After(r)
                                 ELSE [Disturbed(w[b], s, replaced) EXCEPT
                                         !.alone = @ /\ ~(w[b].ses = s /\ w[b].pc # "idle")]]
  BY DEF ImportSession, At
<1>2. Whole(w[a]) /\ w[a].steps # <<>> /\ WorkersWhole
  BY <1>1, AtWork DEF TypeInv
<1>3. /\ Whole(r) /\ Only(w[a], r, {"steps"})
      /\ r.steps = IF w[a].left = {} THEN <<"session">> ELSE w[a].steps
  <2>1. CASE w[a].left = {}
    <3>1. <<"session">> \in Seq(StepNames)
      BY DEF StepNames
    <3>2. ASSUME NEW q \in Seq(StepNames), NEW d, d = [w[a] EXCEPT !.steps = q]
          PROVE  Whole(d) /\ d.steps = q /\ Only(w[a], d, {"steps"})
      BY <1>2, <3>2, StepsChange
    <3>3. r = [w[a] EXCEPT !.steps = <<"session">>]
      BY <2>1
    <3> HIDE DEF r
    <3> QED BY <2>1, <3>1, <3>2, <3>3
  <2>2. CASE w[a].left # {}
    BY <1>2, <2>2 DEF Only
  <2> QED BY <2>1, <2>2
<1> HIDE DEF r
<1>4. Taken(a, r) /\ r.steps # <<>>
  <2>1. r.steps # <<>>
    BY <1>2, <1>3
  <2> QED BY <1>1, <1>3, <2>1 DEF Taken, Only, Fields
<1>5. Whole(After(r)) /\ Gone(r, After(r))
  BY <1>4, AfterIsGone DEF Taken
<1>6. w'[a] = After(r) /\ w' = [b \in Workers |-> w'[b]]
  BY <1>1
<1>7. ASSUME NEW b \in Workers \ {a}
      PROVE  /\ Whole(w'[b]) /\ Like(w[b], w'[b]) /\ (Watching(w[b]) => ~w'[b].alone)
             /\ w[b].ses = s /\ w[b].pc # "idle" => ~w'[b].alone /\ (replaced => w'[b].stale)
  <2> DEFINE e == Disturbed(w[b], s, replaced)
             v == e.alone /\ ~(w[b].ses = s /\ w[b].pc # "idle")
  <2>1. Whole(w[b]) /\ replaced \in BOOLEAN
    BY <1>2 DEF WorkersWhole
  <2>2. /\ Whole(e) /\ Like(w[b], e) /\ e.alone = (w[b].alone /\ ~Watching(w[b]))
        /\ e.stale = (w[b].stale \/ (replaced /\ w[b].pc # "idle" /\ w[b].ses = s))
    <3> HIDE DEF replaced, s
    <3> QED BY <2>1, DisturbedIsLike
  <2>3. w'[b] = [e EXCEPT !.alone = v]
    BY <1>1
  <2> HIDE DEF e
  <2>4. v \in BOOLEAN /\ (v => e.alone) /\ (w[b].ses = s /\ w[b].pc # "idle" => ~v)
    BY <2>2 DEF Whole, WorkerOK
  <2> HIDE DEF v, replaced, s
  <2>5. ASSUME NEW d, d = [e EXCEPT !.alone = v]
        PROVE  Whole(d) /\ (d.alone <=> v) /\ Only(e, d, {"alone"})
    BY <2>2, <2>4, <2>5, AloneChanges
  <2>6. Whole(w'[b]) /\ (w'[b].alone <=> v) /\ Only(e, w'[b], {"alone"})
    BY <2>3, <2>5
  <2>7. Like(e, w'[b]) /\ w'[b].stale = e.stale
    BY <2>4, <2>6 DEF Only, Fields, Like, Holds
  <2>8. Like(w[b], w'[b])
    BY <2>2, <2>7 DEF Like, Holds
  <2> QED BY <2>2, <2>4, <2>6, <2>7, <2>8
<1>8. Others(a) /\ Heard(a)
  BY <1>6, <1>7 DEF Others, Heard
<1>9. Works(a, r)
  BY <1>4, <1>5, <1>6, <1>8 DEF Works
<1>10. \A b \in Workers \ {a} : w[b].ses = w[a].ses /\ w[b].pc # "idle" =>
         ~w'[b].alone /\ (w[a].ses \in DOMAIN rows => w'[b].stale)
  BY <1>7
<1> QED BY <1>3, <1>8, <1>9, <1>10

\* Restoring an item: the next step is the same unless it was the last one.
LEMMA RestoreItemWorks ==
  ASSUME TypeInv, NEW a \in Workers, RestoreItem(a)
  PROVE  /\ Heard(a)
         /\ \E k \in w[a].left : \E r :
              /\ SaveItem(k, w[a].ses, w[a].items[k])
              /\ Works(a, r) /\ Only(w[a], r, {"left", "steps"}) /\ r.left = w[a].left \ {k}
              /\ Tail(r.steps) = IF r.left = {} THEN Tail(w[a].steps) ELSE w[a].steps
<1>1. PICK k \in w[a].left :
        LET rest == w[a].left \ {k}
            next == [w[a] EXCEPT !.left = rest]
        IN /\ SaveItem(k, w[a].ses, w[a].items[k])
           /\ Writes(a, IF rest = {} THEN next ELSE [next EXCEPT !.steps = <<"restore">> \o @])
  BY DEF RestoreItem
<1> DEFINE rest == w[a].left \ {k}
           next == [w[a] EXCEPT !.left = rest]
           r == IF rest = {} THEN next ELSE [next EXCEPT !.steps = <<"restore">> \o @]
<1>2. SaveItem(k, w[a].ses, w[a].items[k]) /\ Writes(a, r)
  BY <1>1
<1>3. w[a].pc = "busy"
  BY DEF RestoreItem, At
<1>4. Whole(w[a]) /\ w[a].steps # <<>> /\ WorkersWhole /\ w[a].left \subseteq Items
      /\ w[a].steps \in Seq(StepNames)
  BY <1>3, AtWork DEF TypeInv, WorkerOK
<1>5. rest \subseteq Items /\ rest = w[a].left \ {k}
  BY <1>4
<1>6. Whole(next) /\ next.left = rest /\ Only(w[a], next, {"left"})
  <2>0. Whole(w[a])
    BY <1>4
  <2>1. ASSUME NEW x, x \subseteq Items, NEW d, d = [w[a] EXCEPT !.left = x]
        PROVE  Whole(d) /\ d.left = x /\ Only(w[a], d, {"left"})
    BY <2>0, <2>1, LeftChanges, SMTT(40)
  <2> HIDE DEF rest
  <2> QED BY <1>5, <2>1
<1>7. next.steps = w[a].steps /\ next.pc = w[a].pc /\ next.req = w[a].req
  BY <1>6 DEF Only, Fields
<1>8. /\ r = IF rest = {} THEN next ELSE [next EXCEPT !.steps = <<"restore">> \o w[a].steps]
  BY <1>7
<1> HIDE DEF rest, next, r
<1>9. /\ Whole(r) /\ Only(w[a], r, {"left", "steps"}) /\ r.left = rest /\ r.steps # <<>>
      /\ Tail(r.steps) = IF rest = {} THEN Tail(w[a].steps) ELSE w[a].steps
  <2>1. CASE rest = {}
    BY <1>4, <1>6, <1>7, <1>8, <2>1 DEF Only
  <2>2. CASE rest # {}
    <3> DEFINE q == <<"restore">> \o w[a].steps
    <3>1. q \in Seq(StepNames) /\ Tail(q) = w[a].steps /\ q # <<>>
      <4>1. <<"restore">> \in Seq(StepNames)
        BY DEF StepNames
      <4>2. q \in Seq(StepNames) /\ Len(q) = 1 + Len(w[a].steps) /\ Len(w[a].steps) \in Nat
            /\ \A i \in 1..Len(w[a].steps) : q[i + 1] = w[a].steps[i]
        BY <1>4, <4>1
      <4> HIDE DEF q
      <4>3. Len(<<>>) = 0 /\ q # <<>>
        BY <4>2
      <4>4. Tail(q) \in Seq(StepNames) /\ Len(Tail(q)) = Len(w[a].steps)
            /\ \A i \in 1..Len(w[a].steps) : Tail(q)[i] = w[a].steps[i]
        BY <4>2, <4>3
      <4>5. Tail(q) = w[a].steps
        BY <1>4, <4>4, SeqEqual
      <4> QED BY <4>2, <4>3, <4>5
    <3>2. ASSUME NEW y \in Seq(StepNames), NEW d, d = [next EXCEPT !.steps = y]
          PROVE  Whole(d) /\ d.steps = y /\ Only(next, d, {"steps"})
      BY <1>6, <3>2, StepsChange
    <3>3. r = [next EXCEPT !.steps = q]
      BY <1>8, <2>2
    <3> HIDE DEF q
    <3>4. Whole(r) /\ r.steps = q /\ Only(next, r, {"steps"})
      BY <3>1, <3>2, <3>3
    <3>5. Only(w[a], r, {"left", "steps"}) /\ r.left = next.left
      BY <1>6, <3>4 DEF Only, Fields
    <3> QED BY <1>6, <2>2, <3>1, <3>4, <3>5
  <2> QED BY <2>1, <2>2
<1>10. Taken(a, r)
  BY <1>3, <1>9 DEF Taken, Only, Fields
<1>11. Works(a, r) /\ Heard(a)
  BY <1>2, <1>4, <1>9, <1>10, WritesWork
<1> QED BY <1>2, <1>5, <1>9, <1>11

-----------------------------------------------------------------------------
(* Every step.                                                              *)

\* A worker takes a step: what it is in and what it holds afterwards.
Progress(a, r) ==
  /\ Works(a, r)
  /\ \/ Tail(r.steps) = Tail(w[a].steps)
     \/ w[a].req.do = "import" /\ Tail(r.steps) \in {w[a].steps, <<>>}
  /\ \/ r.ses = w[a].ses
     \/ Head(w[a].steps) \in {"create", "fork"} /\ r.ses = a
  /\ Head(w[a].steps) = "create" => r.ses = a
  /\ r.todos = w[a].todos \/ r.todos \in TodoList
  /\ r.todos = w[a].todos \/ (r.todos = todos[w[a].ses] /\ r.ses = w[a].ses)
  /\ Head(w[a].steps) = "todos" => r.todos \in TodoList
  /\ w[a].req.do = "import" =>
       r.items = w[a].items /\ r.todos = w[a].todos /\ r.left \subseteq w[a].left

Moved(a) == Accepts(a) \/ (\E b \in Bundles : Takes(a, b)) \/ Failed(a) \/ \E r : Progress(a, r)

\* A step that changes neither the session nor what an import holds.
LEMMA PlainProgress ==
  ASSUME NEW a \in Workers, NEW r, NEW changed, Worked(a, r, changed),
         changed \cap {"ses", "todos", "items", "left"} = {},
         Head(w[a].steps) \notin {"create", "todos"}
  PROVE  Progress(a, r)
<1>1. r.ses = w[a].ses /\ r.todos = w[a].todos /\ r.items = w[a].items /\ r.left = w[a].left
  BY DEF Worked, Only, Fields
<1> QED BY <1>1 DEF Worked, Progress

\* Every step is one of these.
LEMMA StepWorks ==
  ASSUME TypeInv, NEW a \in Workers, Step(a)
  PROVE  Moved(a)
<1> DEFINE h == Head(w[a].steps)
           do == w[a].req.do
<1>0. w[a].pc = "busy" => Serving(h, do)
  BY NextOfWorker DEF TypeInv, KeepInv, OwnInv
<1>1. CASE Accept(a)
  BY <1>1, AcceptWorks DEF Moved
<1>2. CASE AcceptImport(a)
  BY <1>2, AcceptImportWorks DEF Moved
<1>3. ASSUME ReadRow(a) PROVE Moved(a)
  <2>1. PICK r : Worked(a, r, {"row", "stale"})
    BY <1>3, ReadRowWorks
  <2>2. h = "row"
    BY <1>3 DEF ReadRow, At
  <2> QED BY <2>1, <2>2, PlainProgress DEF Moved
<1>4. ASSUME ReadTurns(a) PROVE Moved(a)
  <2>1. PICK r : Worked(a, r, {"turns"})
    BY <1>4, ReadTurnsWorks
  <2>2. h = "turns"
    BY <1>4 DEF ReadTurns, At
  <2> QED BY <2>1, <2>2, PlainProgress DEF Moved
<1>5. ASSUME ReadEvents(a) PROVE Moved(a)
  <2>1. PICK r : Worked(a, r, {"events"})
    BY <1>5, ReadEventsWorks
  <2>2. h = "events"
    BY <1>5 DEF ReadEvents, At
  <2> QED BY <2>1, <2>2, PlainProgress DEF Moved
<1>6. ASSUME ReadTodos(a) PROVE Moved(a)
  <2>1. PICK r : Worked(a, r, {"todos"}) /\ r.todos \in TodoList /\ r.todos = todos[w[a].ses]
    BY <1>6, ReadTodosWorks
  <2>2. h = "todos" /\ w[a].pc = "busy"
    BY <1>6 DEF ReadTodos, At
  <2>3. do # "import"
    BY <1>0, <2>2 DEF Serving
  <2>4. r.ses = w[a].ses
    BY <2>1 DEF Worked, Only, Fields
  <2> QED BY <2>1, <2>2, <2>3, <2>4 DEF Moved, Worked, Progress
<1>7. ASSUME ReadItems(a) PROVE Moved(a)
  <2>1. PICK r : Worked(a, r, {"items"})
    BY <1>7, ReadItemsWorks
  <2>2. h \in {"checkpoint", "artifact", "run"} /\ w[a].pc = "busy"
    BY <1>7 DEF ReadItems, Kinds
  <2>3. do # "import"
    BY <1>0, <2>2 DEF Serving
  <2>4. r.ses = w[a].ses /\ r.todos = w[a].todos
    BY <2>1 DEF Worked, Only, Fields
  <2> QED BY <2>1, <2>2, <2>3, <2>4 DEF Moved, Worked, Progress
<1>8. ASSUME Create(a) PROVE Moved(a)
  <2>1. PICK r : Worked(a, r, {"ses"}) /\ r.ses = a
    BY <1>8, CreateWorks
  <2>2. h = "create" /\ w[a].pc = "busy"
    BY <1>8 DEF Create, At
  <2>3. do # "import"
    BY <1>0, <2>2 DEF Serving
  <2>4. r.todos = w[a].todos
    BY <2>1 DEF Worked, Only, Fields
  <2> QED BY <2>1, <2>2, <2>3, <2>4 DEF Moved, Worked, Progress
<1>9. ASSUME Fork(a) PROVE Moved(a)
  <2>1. PICK r : Worked(a, r, {"ses", "row", "turns"}) /\ r.ses = a
    BY <1>9, ForkWorks
  <2>2. h = "fork" /\ w[a].pc = "busy"
    BY <1>9 DEF Fork, At
  <2>3. do # "import"
    BY <1>0, <2>2 DEF Serving
  <2>4. r.todos = w[a].todos
    BY <2>1 DEF Worked, Only, Fields
  <2> QED BY <2>1, <2>2, <2>3, <2>4 DEF Moved, Worked, Progress
<1>10. ASSUME Agent(a) PROVE Moved(a)
  <2>1. PICK r : Worked(a, r, {"row"})
    BY <1>10, AgentWorks
  <2>2. h = "agent"
    BY <1>10 DEF Agent, At
  <2> QED BY <2>1, <2>2, PlainProgress DEF Moved
<1>11. ASSUME AppendTurn(a) \/ RecordRun(a) \/ SaveState(a) \/ RemoveArtifact(a)
                \/ PruneArtifacts(a)
       PROVE  Moved(a)
  <2>1. Worked(a, w[a], {})
    BY <1>11, PlainWrites
  <2>2. h \notin {"create", "todos"}
    BY <1>11 DEF AppendTurn, RecordRun, SaveState, RemoveArtifact, PruneArtifacts, At
  <2> QED BY <2>1, <2>2, PlainProgress DEF Moved
<1>12. ASSUME SaveTodos(a) PROVE Moved(a)
  <2>1. PICK r : Worked(a, r, {"alone"})
    BY <1>12, SaveTodosWorks
  <2>2. h = "save"
    BY <1>12 DEF SaveTodos, At
  <2> QED BY <2>1, <2>2, PlainProgress DEF Moved
<1>13. ASSUME Attach(a) PROVE Moved(a)
  <2>1. Worked(a, w[a], {}) \/ Failed(a)
    BY <1>13, AttachWorks
  <2>2. h = "attach"
    BY <1>13 DEF Attach, At
  <2> QED BY <2>1, <2>2, PlainProgress DEF Moved
<1>14. ASSUME Admit(a) PROVE Moved(a)
  <2>1. Worked(a, w[a], {})
    BY <1>14, AdmitWorks
  <2>2. h = "admit"
    BY <1>14 DEF Admit, At
  <2> QED BY <2>1, <2>2, PlainProgress DEF Moved
<1>15. ASSUME ImportSession(a) PROVE Moved(a)
  <2>1. PICK r : /\ Works(a, r) /\ Only(w[a], r, {"steps"})
                 /\ r.steps = IF w[a].left = {} THEN <<"session">> ELSE w[a].steps
    BY <1>15, ImportSessionWorks
  <2>2. h = "session" /\ w[a].pc = "busy"
    BY <1>15 DEF ImportSession, At
  <2>3. do = "import"
    BY <1>0, <2>2 DEF Serving
  <2>4. r.ses = w[a].ses /\ r.todos = w[a].todos /\ r.items = w[a].items /\ r.left = w[a].left
    BY <2>1 DEF Only, Fields
  <2>5. Tail(<<"session">>) = <<>>
    OBVIOUS
  <2>6. r.steps = w[a].steps \/ Tail(r.steps) = <<>>
    BY <2>1, <2>5
  <2> QED BY <2>1, <2>2, <2>3, <2>4, <2>6 DEF Moved, Progress
<1>16. ASSUME RestoreItem(a) PROVE Moved(a)
  <2>0. PICK k \in w[a].left : \E r :
          /\ Works(a, r) /\ Only(w[a], r, {"left", "steps"}) /\ r.left = w[a].left \ {k}
          /\ Tail(r.steps) = IF r.left = {} THEN Tail(w[a].steps) ELSE w[a].steps
    BY <1>16, RestoreItemWorks
  <2>1. PICK r :
          /\ Works(a, r) /\ Only(w[a], r, {"left", "steps"}) /\ r.left = w[a].left \ {k}
          /\ Tail(r.steps) = IF r.left = {} THEN Tail(w[a].steps) ELSE w[a].steps
    BY <2>0
  <2>2. h = "restore" /\ w[a].pc = "busy"
    BY <1>16 DEF RestoreItem, At
  <2>3. do = "import"
    BY <1>0, <2>2 DEF Serving
  <2>4. /\ r.ses = w[a].ses /\ r.todos = w[a].todos /\ r.items = w[a].items
        /\ r.left \subseteq w[a].left
    BY <2>1 DEF Only, Fields
  <2>5. Tail(r.steps) = Tail(w[a].steps) \/ Tail(r.steps) = w[a].steps
    BY <2>1
  <2> QED BY <2>1, <2>2, <2>3, <2>4, <2>5 DEF Moved, Progress
<1>17. ASSUME NotFound(a) \/ ForkFails(a) \/ NoSuchTodo(a) \/ NoSuchTurn(a) \/ Refuse(a)
                \/ ImportConflict(a) \/ Abandon(a)
       PROVE  Moved(a)
  BY <1>17, FailuresWork DEF Moved
<1> QED BY <1>1, <1>2, <1>3, <1>4, <1>5, <1>6, <1>7, <1>8, <1>9, <1>10, <1>11, <1>12, <1>13, <1>14,
           <1>15, <1>16, <1>17 DEF Step

-----------------------------------------------------------------------------
(* The types are kept.                                                      *)

\* The records of the workers stay whole.
LEMMA WholeStays ==
  ASSUME TypeInv, NEW a \in Workers, Moved(a)
  PROVE  WorkersWhole' /\ \A b \in Workers \ {a} : Like(w[b], w'[b])
<1>1. Others(a) /\ Whole(w'[a])
  BY DEF Moved, Accepts, Takes, Failed, Progress, Works
<1>2. \A b \in Workers : Whole(w'[b])
  BY <1>1 DEF Others
<1> QED BY <1>1, <1>2 DEF Others, WorkersWhole, Whole, WorkerOK

\* Whoever is in no session is still about to create one.
LEMMA PlacedStays ==
  ASSUME TypeInv, NEW a \in Workers, Moved(a)
  PROVE  Placed'
<1>1. ASSUME NEW b \in Workers \ {a}, w'[b].pc = "busy", w'[b].ses = None
      PROVE  "create" \in Left(w'[b]) \/ w'[b].req.do = "remove"
  <2>1. Like(w[b], w'[b])
    BY WholeStays
  <2>2. w[b].pc = "busy" /\ w[b].ses = None
    BY <1>1, <2>1 DEF Like
  <2>3. "create" \in Left(w[b]) \/ w[b].req.do = "remove"
    BY <2>2 DEF TypeInv, Placed
  <2> QED BY <2>1, <2>3 DEF Like, Left
<1>2. ASSUME w'[a].pc = "busy", w'[a].ses = None
      PROVE  "create" \in Left(w'[a]) \/ w'[a].req.do = "remove"
  <2>1. CASE Accepts(a)
    <3>1. w'[a].req \in Request /\ SesOf(w'[a].req) = None /\ w'[a].steps = Steps(w'[a].req)
          /\ w'[a].req.do # "import"
      BY <1>2, <2>1 DEF Accepts
    <3>2. CASE w'[a].req.do = "remove"
      BY <3>2
    <3>3. CASE w'[a].req.do = "create"
      <4>1. w'[a].steps = <<"create">>
        BY <3>1, <3>3 DEF Steps, CreateSteps
      <4> QED BY <4>1 DEF Left, TurnSet
    <3>4. CASE w'[a].req.do = "run" /\ w'[a].req.ses = None
      <4>1. w'[a].steps = <<"create", "agent", "todos", "append", "record">>
        BY <3>1, <3>4 DEF Steps, NewRunSteps
      <4>2. 1 \in DOMAIN w'[a].steps /\ w'[a].steps[1] = "create"
        BY <4>1
      <4> QED BY <4>2 DEF Left, TurnSet
    <3> QED BY <3>1, <3>2, <3>3, <3>4, RequestFields
  <2>2. CASE \E b \in Bundles : Takes(a, b)
    BY <1>2, <2>2, SessionsAssumption DEF Takes, Ids
  <2>3. CASE Failed(a)
    BY <1>2, <2>3 DEF Failed
  <2>4. ASSUME NEW r, Progress(a, r)
        PROVE  "create" \in Left(w'[a]) \/ w'[a].req.do = "remove"
    <3>1. /\ w[a].pc = "busy" /\ w'[a].ses = r.ses /\ w'[a].req = w[a].req
          /\ w'[a].steps = Tail(r.steps)
      BY <2>4 DEF Progress, Works, Taken, Gone
    <3>2. w[a].ses = None /\ Head(w[a].steps) # "create"
      BY <1>2, <2>4, <3>1, SessionsAssumption DEF Progress, Ids
    <3>3. "create" \in Left(w[a]) \/ w[a].req.do = "remove"
      BY <3>1, <3>2 DEF TypeInv, Placed
    <3>4. Left(w[a]) = {Head(w[a].steps)} \cup TurnSet(Tail(w[a].steps))
      BY <3>1, NextOfWorker DEF TypeInv, KeepInv, OwnInv
    <3>5. w[a].req.do # "import"
      BY <3>1, <3>2, SessionsAssumption DEF TypeInv, KeepInv, Housed, Ids
    <3> QED BY <2>4, <3>1, <3>2, <3>3, <3>4, <3>5 DEF Progress, Left
  <2> QED BY <2>1, <2>2, <2>3, <2>4 DEF Moved
<1> QED BY <1>1, <1>2 DEF Placed

\* Lists of todos are read before they are used, and imports keep to their items.
LEMMA ListedStays ==
  ASSUME TypeInv, NEW a \in Workers, Moved(a)
  PROVE  Listed'
<1> DEFINE OK(r) ==
      /\ r.pc = "busy" /\ r.req.do \in {"fork", "upsert", "drop", "export"} =>
           r.todos \in TodoList \/ TodosFirst(r.steps)
      /\ r.pc = "done" /\ r.req.do = "export" => r.todos \in TodoList
      /\ r.pc = "busy" /\ r.req.do = "import" =>
           r.todos \in TodoList /\ r.left \subseteq DOMAIN r.items
<1>1. \A b \in Workers : OK(w[b])
  BY DEF TypeInv, Listed
<1>2. ASSUME NEW b \in Workers \ {a} PROVE OK(w'[b])
  <2>1. Like(w[b], w'[b])
    BY WholeStays
  <2> QED BY <1>1, <2>1 DEF Like, Holds
<1>3. OK(w'[a])
  <2>1. CASE Accepts(a)
    BY <2>1, StepsKeepCourse DEF Accepts
  <2>2. ASSUME NEW b \in Bundles, Takes(a, b) PROVE OK(w'[a])
    <3>1. b.todos \in TodoList
      BY BundleFields
    <3> QED BY <2>2, <3>1 DEF Takes
  <2>3. CASE Failed(a)
    BY <2>3 DEF Failed
  <2>4. ASSUME NEW r, Progress(a, r) PROVE OK(w'[a])
    <3>1. /\ w[a].pc = "busy" /\ w'[a].req = w[a].req /\ w'[a].steps = Tail(r.steps)
          /\ r.req = w[a].req
          /\ \/ w'[a].pc = "busy" /\ Holds(w'[a], r)
             \/ /\ w'[a].pc = "done" /\ Tail(r.steps) = <<>>
                /\ w[a].req.do = "export" /\ Holds(w'[a], r)
             \/ w'[a].pc = "done" /\ w[a].req.do # "export"
      BY <2>4 DEF Progress, Works, Taken, Gone
    <3>2. ASSUME w[a].req.do \in {"fork", "upsert", "drop", "export"}
          PROVE  r.todos \in TodoList \/ TodosFirst(Tail(r.steps))
      <4>1. Tail(r.steps) = Tail(w[a].steps) /\ (r.todos = w[a].todos \/ r.todos \in TodoList)
            /\ (Head(w[a].steps) = "todos" => r.todos \in TodoList)
        BY <2>4, <3>2 DEF Progress
      <4>2. w[a].todos \in TodoList \/ TodosFirst(w[a].steps)
        BY <1>1, <3>1, <3>2
      <4>3. TodosFirst(w[a].steps) /\ Head(w[a].steps) # "todos" => TodosFirst(Tail(w[a].steps))
        BY <3>1, NextOfWorker DEF TypeInv, KeepInv, OwnInv
      <4> QED BY <4>1, <4>2, <4>3
    <3>3. ~TodosFirst(<<>>)
      <4>1. Len(<<>>) = 0 /\ \A i \in 1..0 : FALSE
        OBVIOUS
      <4> QED BY <4>1 DEF TodosFirst
    <3>4. w[a].req.do = "import" => r.todos \in TodoList /\ r.left \subseteq DOMAIN r.items
      BY <1>1, <2>4, <3>1 DEF Progress
    <3> QED BY <3>1, <3>2, <3>3, <3>4 DEF Holds
  <2> QED BY <2>1, <2>2, <2>3, <2>4 DEF Moved
<1> QED BY <1>2, <1>3 DEF Listed

\* What saving an item does to the items.
LEMMA SaveItemSaves ==
  ASSUME ItemsTyped, MarksTyped, NEW k \in Items, NEW s \in Ids, NEW turn \in TurnIds \cup {None},
         SaveItem(k, s, turn)
  PROVE  /\ ItemsTyped' /\ Owner(k, s) \in Ids
         /\ DOMAIN items' = DOMAIN items \cup {k}
         /\ items'[k].ses = Owner(k, s) /\ items'[k].turn = turn
         /\ \A l \in DOMAIN items \ {k} : items'[l] = items[l]
         /\ torn' = IF Owner(k, s) = s THEN torn ELSE torn \cup {Owner(k, s)}
<1> DEFINE it == [ses |-> Owner(k, s), turn |-> turn, at |-> Now]
<1>1. items' = Put(items, k, it)
      /\ torn' = IF Owner(k, s) = s THEN torn ELSE torn \cup {Owner(k, s)}
  BY DEF SaveItem
<1>2. DOMAIN items \subseteq Items /\ \A l \in DOMAIN items : items[l] \in ItemShape
  BY DEF ItemsTyped
<1>3. Owner(k, s) \in Ids
  BY <1>2 DEF Owner, ItemShape
<1>4. Now \in Nat \ {0} /\ \A l \in DOMAIN items : items[l].at < Now
  BY NowIsLater
<1> HIDE DEF ItemsTyped
<1>5. it \in ItemShape /\ it.ses = Owner(k, s) /\ it.turn = turn /\ it.at = Now
  BY <1>3, <1>4 DEF ItemShape
<1> HIDE DEF it
<1>6. /\ DOMAIN items' = DOMAIN items \cup {k} /\ items'[k] = it
      /\ \A l \in DOMAIN items \ {k} : items'[l] = items[l]
  BY <1>1 DEF Put
<1>7. \A l \in DOMAIN items' : items'[l] \in ItemShape /\ items'[l].at <= Now
  <2>1. \A l \in DOMAIN items : items[l].at \in Nat
    BY <1>2 DEF ItemShape
  <2> QED BY <1>2, <1>4, <1>5, <1>6, <2>1
<1>8. ItemsTyped'
  BY <1>2, <1>4, <1>6, <1>7 DEF ItemsTyped
<1> QED BY <1>1, <1>3, <1>5, <1>6, <1>8

\* What saving a session does to the tables.
LEMMA SaveSessionSaves ==
  ASSUME RowsTyped, TodosTyped, TurnsTyped, NEW s \in Ids, NEW row \in Row, NEW seq,
         NEW list \in TodoList,
         SaveSession(s, row, seq, list)
  PROVE  /\ RowsTyped' /\ TodosTyped'
         /\ DOMAIN rows' = DOMAIN rows \cup {s} /\ rows'[s] = row
         /\ \A x \in DOMAIN rows \ {s} : rows'[x] = rows[x]
         /\ turns'[s] = seq /\ \A x \in Ids \ {s} : turns'[x] = turns[x]
         /\ todos'[s] = list /\ \A x \in Ids \ {s} : todos'[x] = todos[x]
<1>1. /\ rows' = Put(rows, s, row) /\ turns' = [turns EXCEPT ![s] = seq]
      /\ todos' = [todos EXCEPT ![s] = list]
  BY DEF SaveSession
<1>2. /\ DOMAIN rows' = DOMAIN rows \cup {s} /\ rows'[s] = row
      /\ \A x \in DOMAIN rows \ {s} : rows'[x] = rows[x]
  BY <1>1 DEF Put
<1>3. /\ todos' \in [Ids -> TodoList] /\ todos'[s] = list
      /\ \A x \in Ids \ {s} : todos'[x] = todos[x]
  BY <1>1 DEF TodosTyped
<1>4. turns'[s] = seq /\ \A x \in Ids \ {s} : turns'[x] = turns[x]
  BY <1>1 DEF TurnsTyped
<1>5. RowsTyped'
  BY <1>2 DEF RowsTyped
<1>6. TodosTyped'
  BY <1>2, <1>3 DEF TodosTyped
<1> QED BY <1>2, <1>3, <1>4, <1>5, <1>6

DbTyped == RowsTyped /\ TodosTyped /\ ItemsTyped /\ MarksTyped

\* The tables keep their types.
LEMMA DbTypedStays ==
  ASSUME TypeInv, NEW a \in Workers, Step(a)
  PROVE  DbTyped'
<1>0. /\ RowsTyped /\ TodosTyped /\ ItemsTyped /\ MarksTyped /\ TurnsTyped
      /\ a \in Ids /\ a \in TurnIds
  BY DEF TypeInv, KeepInv, OwnInv, Ids, TurnIds
<1>1. ASSUME DbSame PROVE DbTyped'
  BY <1>0, <1>1 DEF DbSame, DbTyped, RowsTyped, TodosTyped, ItemsTyped, MarksTyped
<1>2. ASSUME Create(a) PROVE DbTyped'
  <2>1. SaveSession(a, EmptyRow, <<>>, <<>>) /\ items' = items /\ torn' = torn /\ mixed' = mixed
    BY <1>2 DEF Create
  <2>2. RowsTyped' /\ TodosTyped'
    BY <1>0, <2>1, BlankTypes, SaveSessionSaves
  <2> QED BY <1>0, <2>1, <2>2 DEF DbTyped, ItemsTyped, MarksTyped
<1>3. ASSUME Fork(a) PROVE DbTyped'
  <2>1. PICK r : Works(a, r) /\ rows' = Put(rows, a, r.row)
                 /\ turns' = [turns EXCEPT ![a] = r.turns]
                 /\ todos' = [todos EXCEPT ![a] = w[a].todos] /\ ~Conflict(a, r.turns)
    BY <1>3, ForkWorks DEF Worked
  <2>2. SaveSession(a, r.row, r.turns, w[a].todos) /\ r.row \in Row
    BY <2>1 DEF SaveSession, Works, Taken, Whole, WorkerOK
  <2>3. w[a].pc = "busy" /\ Head(w[a].steps) = "fork"
    BY <1>3 DEF Fork, At
  <2>4. w[a].todos \in TodoList
    <3>1. /\ Serving("fork", w[a].req.do)
          /\ TodosFirst(w[a].steps) /\ "fork" # "todos" => "fork" \notin Users
      BY <2>3, NextOfWorker DEF TypeInv, KeepInv, OwnInv
    <3> QED BY <2>3, <3>1 DEF Serving, Users, TypeInv, Listed
  <2>5. RowsTyped' /\ TodosTyped'
    BY <1>0, <2>2, <2>4, SaveSessionSaves
  <2>6. items' = items /\ torn' = torn /\ mixed' \subseteq mixed \cup {a}
    BY <1>3 DEF Fork
  <2> QED BY <1>0, <2>5, <2>6 DEF DbTyped, ItemsTyped, MarksTyped
<1>4. ASSUME AppendTurn(a) PROVE DbTyped'
  <2>1. w[a].pc = "busy" /\ Head(w[a].steps) = "append"
    BY <1>4 DEF AppendTurn, At
  <2>2. w[a].ses \in Ids /\ w[a].row \in Row
    BY <2>1, AtWork DEF WorkerOK
  <2>3. /\ rows' = [rows EXCEPT ![w[a].ses] = w[a].row] /\ todos' = todos /\ items' = items
        /\ torn' = torn /\ mixed' \subseteq mixed \cup {w[a].ses}
    BY <1>4 DEF AppendTurn
  <2>4. DOMAIN rows' = DOMAIN rows /\ RowsTyped'
    BY <1>0, <2>2, <2>3 DEF RowsTyped
  <2> QED BY <1>0, <2>2, <2>3, <2>4 DEF DbTyped, TodosTyped, ItemsTyped, MarksTyped
<1>5. ASSUME NEW k \in Items, NEW s \in Ids, NEW turn \in TurnIds \cup {None}, SaveItem(k, s, turn),
             UNCHANGED <<rows, todos, mixed>>
      PROVE  DbTyped'
  <2>1. ItemsTyped' /\ torn' \subseteq torn \cup {Owner(k, s)} /\ Owner(k, s) \in Ids
    BY <1>0, <1>5, SaveItemSaves
  <2> QED BY <1>0, <1>5, <2>1 DEF DbTyped, RowsTyped, TodosTyped, MarksTyped
<1>6. ASSUME RecordRun(a) PROVE DbTyped'
  <2>1. w[a].pc = "busy" /\ Head(w[a].steps) = "record"
    BY <1>6 DEF RecordRun, At
  <2>2. w[a].ses \in Ids /\ <<"run", a>> \in Items
    BY <2>1, AtWork DEF Items, Kinds
  <2> QED BY <1>0, <1>5, <1>6, <2>2 DEF RecordRun
<1>7. ASSUME SaveTodos(a) PROVE DbTyped'
  <2>1. w[a].pc = "busy" /\ Head(w[a].steps) = "save" /\ w[a].ses \in DOMAIN rows
    BY <1>7 DEF SaveTodos, At
  <2>2. w[a].ses \in Ids /\ w[a].req \in Request
    BY <2>1, AtWork
  <2>3. NewTodos(a) \in TodoList
    <3>1. /\ Serving("save", w[a].req.do)
          /\ TodosFirst(w[a].steps) /\ "save" # "todos" => "save" \notin Users
      BY <2>1, NextOfWorker DEF TypeInv, KeepInv, OwnInv
    <3>2. w[a].req.do \in {"upsert", "drop"} => w[a].todos \in TodoList
      BY <2>1, <3>1 DEF Users, TypeInv, Listed
    <3>3. CASE w[a].req.do = "put"
      <4>1. w[a].req.todos \subseteq TodoIds
        BY <2>2, <3>3, RequestFields
      <4>2. [d \in w[a].req.todos |-> a] \in [w[a].req.todos -> Workers \cup {None}]
        OBVIOUS
      <4> QED BY <3>3, <4>1, <4>2 DEF NewTodos, TodoList
    <3>4. CASE w[a].req.do \in {"upsert", "drop"}
      <4>1. w[a].req.todo \in TodoIds
        BY <2>2, <3>4, RequestFields
      <4>2. PICK D \in SUBSET TodoIds : w[a].todos \in [D -> Workers \cup {None}]
        BY <3>2, <3>4 DEF TodoList
      <4>3. CASE w[a].req.do = "upsert"
        <5>1. Put(w[a].todos, w[a].req.todo, a) \in [D \cup {w[a].req.todo} -> Workers \cup {None}]
          BY <4>2 DEF Put
        <5> QED BY <4>1, <4>3, <5>1 DEF NewTodos, TodoList
      <4>4. CASE w[a].req.do = "drop"
        <5>1. [d \in DOMAIN w[a].todos \ {w[a].req.todo} |-> w[a].todos[d]]
                \in [D \ {w[a].req.todo} -> Workers \cup {None}]
          BY <4>2
        <5> QED BY <4>1, <4>4, <5>1 DEF NewTodos, TodoList
      <4> QED BY <3>4, <4>3, <4>4
    <3> QED BY <3>1, <3>3, <3>4 DEF Serving, TodoDo
  <2>4. /\ todos' = [todos EXCEPT ![w[a].ses] = NewTodos(a)]
        /\ rows' = rows /\ items' = items /\ torn' = torn /\ mixed' = mixed
    BY <1>7 DEF SaveTodos
  <2>5. TodosTyped'
    BY <1>0, <2>1, <2>2, <2>3, <2>4 DEF TodosTyped
  <2> QED BY <1>0, <2>4, <2>5 DEF DbTyped, RowsTyped, ItemsTyped, MarksTyped
<1>8. ASSUME SaveState(a) PROVE DbTyped'
  <2> DEFINE sum == Summary(w[a].turns)
             row == [w[a].row EXCEPT !.sum = IF sum = {} THEN @ ELSE sum]
  <2>1. w[a].pc = "busy" /\ Head(w[a].steps) = "state"
    BY <1>8 DEF SaveState, At
  <2>2. w[a].ses \in Ids /\ w[a].row \in Row /\ w[a].turns \in Seq(TurnIds)
    BY <2>1, AtWork DEF WorkerOK
  <2>3. row \in Row
    <3>1. sum \subseteq TurnIds
      BY <2>2, SummaryIsOfTurns
    <3> HIDE DEF sum
    <3> QED BY <2>2, <3>1 DEF Row
  <2>4. /\ rows' = (IF sum = {} THEN rows ELSE [rows EXCEPT ![w[a].ses] = row])
        /\ todos' = todos /\ items' = items /\ torn' = torn
        /\ mixed' \subseteq mixed \cup {w[a].ses}
    BY <1>8 DEF SaveState
  <2> HIDE DEF row, sum
  <2>5. DOMAIN rows' = DOMAIN rows /\ RowsTyped'
    BY <1>0, <2>3, <2>4 DEF RowsTyped
  <2> QED BY <1>0, <2>2, <2>4, <2>5 DEF DbTyped, TodosTyped, ItemsTyped, MarksTyped
<1>9. ASSUME Attach(a) PROVE DbTyped'
  <2> DEFINE it == Attached(a)
  <2>1. w[a].pc = "busy" /\ Head(w[a].steps) = "attach"
    BY <1>9 DEF Attach, At
  <2>2. w[a].ses \in Ids /\ w[a].turns \in Seq(TurnIds) /\ w[a].req \in Request
    BY <2>1, AtWork DEF WorkerOK
  <2>3. Serving("attach", w[a].req.do)
    BY <2>1, NextOfWorker DEF TypeInv, KeepInv, OwnInv
  <2>4. it.key \in Items
    <3>1. CASE w[a].req.do = "compact"
      BY <3>1 DEF Attached, Items, Kinds
    <3>2. CASE w[a].req.do # "compact"
      <4>1. w[a].req.id \in ItemIds
        BY <2>2, <2>3, <3>2, RequestFields DEF Serving
      <4> QED BY <2>3, <3>2, <4>1 DEF Attached, Items, Kinds, Serving
    <3> QED BY <3>1, <3>2
  <2>5. it.turn \in TurnIds \cup {None}
    <3>1. it.turn \in TurnSet(w[a].turns) \cup {None}
      BY <1>9 DEF Attach
    <3>2. TurnSet(w[a].turns) \subseteq TurnIds
      BY <2>2, SummaryIsOfTurns
    <3> QED BY <3>1, <3>2
  <2>6. SaveItem(it.key, w[a].ses, it.turn) /\ UNCHANGED <<rows, todos, mixed>>
    BY <1>9 DEF Attach
  <2> HIDE DEF it
  <2> QED BY <1>5, <2>2, <2>4, <2>5, <2>6
<1>10. ASSUME RemoveArtifact(a) \/ PruneArtifacts(a) PROVE DbTyped'
  <2>1. PICK keys : /\ items' = [k \in DOMAIN items \ keys |-> items[k]]
                    /\ UNCHANGED <<rows, turns, todos, torn, mixed>>
    BY <1>10 DEF RemoveArtifact, PruneArtifacts, Drop
  <2>2. ItemsTyped'
    BY <1>0, <2>1 DEF ItemsTyped
  <2> QED BY <1>0, <2>1, <2>2 DEF DbTyped, RowsTyped, TodosTyped, MarksTyped
<1>11. ASSUME ImportSession(a) PROVE DbTyped'
  <2>1. w[a].pc = "busy" /\ Head(w[a].steps) = "session"
    BY <1>11 DEF ImportSession, At
  <2>2. w[a].ses \in Ids /\ w[a].row \in Row
    BY <2>1, AtWork DEF WorkerOK
  <2>3. Serving("session", w[a].req.do)
    BY <2>1, NextOfWorker DEF TypeInv, KeepInv, OwnInv
  <2>4. w[a].todos \in TodoList
    BY <2>1, <2>3 DEF Serving, TypeInv, Listed
  <2>5. /\ SaveSession(w[a].ses, w[a].row, w[a].turns, w[a].todos) /\ items' = items
        /\ torn' \subseteq torn \cup {w[a].ses} /\ mixed' \subseteq mixed \cup {w[a].ses}
    BY <1>11 DEF ImportSession
  <2>6. RowsTyped' /\ TodosTyped'
    BY <1>0, <2>2, <2>4, <2>5, SaveSessionSaves
  <2> QED BY <1>0, <2>2, <2>5, <2>6 DEF DbTyped, ItemsTyped, MarksTyped
<1>12. ASSUME RestoreItem(a) PROVE DbTyped'
  <2>1. PICK k \in w[a].left :
          SaveItem(k, w[a].ses, w[a].items[k]) /\ UNCHANGED <<rows, todos, mixed>>
    BY <1>12 DEF RestoreItem
  <2>2. w[a].pc = "busy" /\ Head(w[a].steps) = "restore"
    BY <1>12 DEF RestoreItem, At
  <2>3. w[a].ses \in Ids /\ ItemTurns(w[a].items)
    BY <2>2, AtWork DEF WorkerOK
  <2>4. Serving("restore", w[a].req.do)
    BY <2>2, NextOfWorker DEF TypeInv, KeepInv, OwnInv
  <2>5. k \in DOMAIN w[a].items
    BY <2>2, <2>4 DEF Serving, TypeInv, Listed
  <2>6. k \in Items /\ w[a].items[k] \in TurnIds \cup {None}
    BY <2>3, <2>5 DEF ItemTurns
  <2> QED BY <1>5, <2>1, <2>3, <2>6
<1>13. ASSUME NotFound(a) \/ ForkFails(a) \/ NoSuchTodo(a) \/ NoSuchTurn(a) \/ Refuse(a)
                \/ ImportConflict(a) \/ Abandon(a)
       PROVE  DbSame
  BY <1>13, FailuresWork
<1>14. ASSUME Accept(a) \/ AcceptImport(a) \/ ReadRow(a) \/ ReadTurns(a) \/ ReadEvents(a)
                \/ ReadTodos(a) \/ Agent(a) \/ ReadItems(a) \/ Admit(a)
       PROVE  DbSame
  BY <1>14 DEF Accept, AcceptImport, ReadRow, ReadTurns, ReadEvents, ReadTodos, Agent, ReadItems,
     Admit
<1> QED BY <1>1, <1>2, <1>3, <1>4, <1>6, <1>7, <1>8, <1>9, <1>10, <1>11, <1>12, <1>13, <1>14
       DEF Step

\* TypeInv holds at first.
LEMMA TypeInitial == Init => TypeInv
<1> SUFFICES ASSUME Init PROVE TypeInv
  OBVIOUS
<1>1. /\ w = [b \in Workers |-> Blank] /\ rows = Rows /\ items = <<>> /\ torn = {} /\ mixed = {}
      /\ todos = [s \in Ids |-> IF s \in Names THEN Todos[s] ELSE <<>>]
  BY DEF Init
<1>2. WorkersWhole
  BY <1>1, BlankIsWhole DEF WorkersWhole
<1>3. Courses /\ Placed /\ Listed
  BY <1>1, BlankFields DEF Courses, Placed, Listed
<1>4. RowsTyped
  BY <1>1, SessionsAssumption DEF RowsTyped
<1>5. TodosTyped
  <2>1. /\ \A s \in Names : Todos[s] \in TodoList
        /\ \A s \in Names : s \notin DOMAIN Rows => Todos[s] = <<>>
    BY SessionsAssumption
  <2>2. \A s \in Ids : (IF s \in Names THEN Todos[s] ELSE <<>>) \in TodoList
    BY <2>1, BlankTypes
  <2> QED BY <1>1, <2>1, <2>2 DEF TodosTyped
<1>6. ItemsTyped
  <2>1. DOMAIN <<>> = {}
    OBVIOUS
  <2>2. 0 \in Nat
    OBVIOUS
  <2> QED BY <1>1, <2>1, <2>2 DEF ItemsTyped
<1>7. MarksTyped
  BY <1>1 DEF MarksTyped
<1> QED BY <1>2, <1>3, <1>4, <1>5, <1>6, <1>7, KeepInitial DEF TypeInv

\* TypeInv is inductive.
LEMMA TypeStep == TypeInv /\ [Next]_vars => TypeInv'
<1> SUFFICES ASSUME TypeInv, [Next]_vars PROVE TypeInv'
  OBVIOUS
<1>1. KeepInv /\ Ready /\ TurnsTyped /\ Seated /\ Courses
  BY DEF TypeInv, KeepInv, OwnInv
<1>2. KeepInv'
  BY <1>1, KeepStep
<1>3. CASE UNCHANGED vars
  BY <1>2, <1>3 DEF vars, TypeInv, WorkersWhole, Courses, Placed, Listed, RowsTyped, TodosTyped,
     ItemsTyped, MarksTyped
<1>4. CASE Next
  <2>1. PICK a \in Workers : Step(a)
    BY <1>4 DEF Next
  <2>2. Moved(a) /\ DbTyped'
    BY <2>1, StepWorks, DbTypedStays
  <2>3. Courses'
    BY <1>1, <1>4, NextMoves, CoursesStay
  <2>4. WorkersWhole' /\ Placed' /\ Listed'
    BY <2>2, WholeStays, PlacedStays, ListedStays
  <2> QED BY <1>2, <2>2, <2>3, <2>4 DEF TypeInv, DbTyped
<1> QED BY <1>3, <1>4

\* Every table of the database, and what every request holds of it between two
\* queries, keeps its shape, and a session without a row has neither turns nor
\* todos: the tables refer to sessions(id) and foreign_keys is on.
THEOREM SessionsTyped == Spec => []TypeOK
<1>1. TypeInv => TypeOK
  <2> SUFFICES ASSUME TypeInv PROVE TypeOK
    OBVIOUS
  <2>1. \A a \in Workers : WorkerOK(w[a])
    BY DEF TypeInv, WorkersWhole, Whole
  <2>2. TurnsTyped /\ Rowed
    BY DEF TypeInv, KeepInv, OwnInv
  <2> QED BY <2>1, <2>2 DEF TypeInv, TurnsTyped, Rowed, RowsTyped, TodosTyped, ItemsTyped,
          ItemShape,           MarksTyped, TypeOK
<1> QED BY <1>1, TypeInitial, TypeStep, PTL DEF Spec

-----------------------------------------------------------------------------
(* What a session's row speaks of.                                          *)

\* Whom a row that is held may speak of beside the turns of the session: after
\* the agent, the worker whose turn is not yet saved.
Own(a) ==
  IF MakesTurn(w[a].req.do) /\ Left(w[a]) \cap {"fork", "agent"} = {} THEN {a} ELSE {}

RowHeld(a) ==
  w[a].pc = "busy" /\ w[a].req.do # "import" =>
    /\ (w[a].ses = None \/ "create" \in Left(w[a])) => w[a].row = EmptyRow
    /\ (w[a].ses # None /\ ~w[a].stale) =>
         /\ w[a].row.sum \subseteq TurnSet(turns[w[a].ses]) \cup Own(a)
         /\ w[a].row.last \in TurnSet(turns[w[a].ses]) \cup Own(a) \cup {None}

\* Who holds a row and turns that will be written or shown together.
HoldsBoth(a) ==
  \/ w[a].pc = "busy" /\ (w[a].req.do \in {"export", "import"} \/ "fork" \in Left(w[a]))
  \/ w[a].pc = "done" /\ w[a].req.do = "export"
SesHeld(a) ==
  HoldsBoth(a) /\ ~w[a].stale /\ "turns" \notin Left(w[a]) => Sound(w[a].row, w[a].turns)

\* They read the turns after the row.
ReadsBoth ==
  \A a \in Workers :
    w[a].pc = "busy" /\ w[a].req.do \in {"fork", "export"} /\ "row" \in Left(w[a]) =>
      "turns" \in Left(w[a])

\* A fork is in the session it forks until it is one.
Unforked ==
  \A a \in Workers : w[a].pc = "busy" /\ "fork" \in Left(w[a]) => w[a].ses \in Names

RowInv ==
  /\ \A a \in Workers : RowHeld(a) /\ SesHeld(a)
  /\ ReadsBoth /\ Unforked /\ RowSpeaksOfItsTurns

\* Every step is a move of SessionsProofs.
LEMMA StepIsMove ==
  ASSUME TypeInv, NEW a \in Workers, Step(a)
  PROVE  Moves(a)
<1>1. At(a, "turns") => w[a].ses \in Ids
  BY AtWork DEF At
<1> QED BY <1>1, StepMoves DEF TypeInv, KeepInv, OwnInv

\* The turns of a session somebody else is in only become more.
LEMMA OthersTurnsGrow ==
  ASSUME TypeInv, NEW a \in Workers, Step(a),
         NEW b \in Workers \ {a}, w[b].ses # None, w[b].pc # "idle", ~w'[b].stale
  PROVE  /\ w[b].ses \in Ids /\ ~w[b].stale
         /\ TurnSet(turns[w[b].ses]) \subseteq TurnSet(turns'[w[b].ses])
<1> DEFINE s == w[b].ses
<1>1. Moves(a)
  BY StepIsMove
<1>2. /\ s \in Ids /\ ~w[b].stale
      /\ turns'[s] = turns[s] \/ turns'[s] = Append(turns[s], a) \/ turns[s] = <<>>
  BY <1>1, OtherSessions DEF TypeInv, KeepInv, OwnInv
<1> HIDE DEF s
<1>3. turns[s] \in Seq(TurnIds) /\ a \in TurnIds
  BY <1>2 DEF TypeInv, KeepInv, OwnInv, TurnsTyped, TurnIds
<1>4. TurnSet(Append(turns[s], a)) = TurnSet(turns[s]) \cup {a}
  BY <1>3, AppendTurns
<1>5. TurnSet(<<>>) = {}
  BY DEF TurnSet
<1>6. TurnSet(turns[s]) \subseteq TurnSet(turns'[s])
  BY <1>2, <1>4, <1>5
<1> QED BY <1>2, <1>6 DEF s

\* What others hold stays sound.
LEMMA OthersHeld ==
  ASSUME TypeInv, RowInv, NEW a \in Workers, Step(a), NEW b \in Workers \ {a}
  PROVE  RowHeld(b)' /\ SesHeld(b)'
<1>1. Moved(a)
  BY StepWorks
<1>2. Like(w[b], w'[b])
  BY <1>1, WholeStays
<1>3. RowHeld(b) /\ SesHeld(b)
  BY DEF RowInv
<1>4. Own(b)' = Own(b) /\ Left(w'[b]) = Left(w[b])
  BY <1>2 DEF Like, Own, Left
<1>5. RowHeld(b)'
  <2>1. w[b].pc = "busy" /\ w[b].ses # None /\ ~w'[b].stale =>
          ~w[b].stale /\ TurnSet(turns[w[b].ses]) \subseteq TurnSet(turns'[w[b].ses])
    BY OthersTurnsGrow
  <2> QED BY <1>2, <1>3, <1>4, <2>1 DEF RowHeld, Like, Holds
<1>6. SesHeld(b)'
  BY <1>2, <1>3, <1>4 DEF SesHeld, HoldsBoth, Like, Holds
<1> QED BY <1>5, <1>6

\* What follows a step of a worker that is not an import.
LEMMA Follows ==
  ASSUME TypeInv, NEW a \in Workers, NEW r, Works(a, r), r.steps = w[a].steps
  PROVE  /\ w[a].pc = "busy" /\ w'[a].req = w[a].req /\ w'[a].ses = r.ses
         /\ w'[a].stale = r.stale /\ w'[a].alone = r.alone
         /\ w'[a].steps = Tail(w[a].steps)
         /\ Left(w'[a]) \subseteq Left(w[a])
         /\ Left(w[a]) = {Head(w[a].steps)} \cup Left(w'[a])
         /\ \A x \in Left(w'[a]) :
              Head(w[a].steps) # "todos" /\ x # "todos" => Place[Head(w[a].steps)] < Place[x]
         /\ w'[a].pc = "busy" \/ (w'[a].pc = "done" /\ w[a].req.do = "export") => Holds(w'[a], r)
         /\ w'[a].pc \in {"busy", "done"} /\ (w'[a].pc = "done" <=> Tail(w[a].steps) = <<>>)
<1>1. /\ w[a].pc = "busy" /\ w'[a].req = w[a].req /\ w'[a].ses = r.ses
      /\ w'[a].stale = r.stale /\ w'[a].alone = r.alone
      /\ w'[a].steps = Tail(w[a].steps)
      /\ w'[a].pc = "busy" \/ (w'[a].pc = "done" /\ w[a].req.do = "export") => Holds(w'[a], r)
      /\ w'[a].pc \in {"busy", "done"} /\ (w'[a].pc = "done" <=> Tail(w[a].steps) = <<>>)
  BY DEF Works, Taken, Gone
<1>2. /\ Left(w[a]) = {Head(w[a].steps)} \cup TurnSet(Tail(w[a].steps))
      /\ \A x \in TurnSet(Tail(w[a].steps)) :
           Head(w[a].steps) # "todos" /\ x # "todos" => Place[Head(w[a].steps)] < Place[x]
  BY <1>1, NextOfWorker DEF TypeInv, KeepInv, OwnInv
<1> QED BY <1>1, <1>2 DEF Left

\* A worker that goes on with the same row and turns.
LEMMA SameHeld ==
  ASSUME TypeInv, RowInv, NEW a \in Workers, NEW r, NEW changed, Worked(a, r, changed),
         changed \cap {"ses", "row", "turns", "stale"} = {},
         Head(w[a].steps) \notin {"turns", "create", "fork", "agent"},
         w[a].ses # None => TurnSet(turns[w[a].ses]) \subseteq TurnSet(turns'[w[a].ses])
  PROVE  RowHeld(a)' /\ SesHeld(a)'
<1>1. r.ses = w[a].ses /\ r.row = w[a].row /\ r.turns = w[a].turns /\ (r.stale <=> w[a].stale)
  BY DEF Worked, Only, Fields
<1>2. RowHeld(a) /\ SesHeld(a)
  BY DEF RowInv
<1>3. /\ w[a].pc = "busy" /\ w'[a].req = w[a].req /\ w'[a].ses = r.ses
      /\ w'[a].stale = r.stale /\ Left(w'[a]) \subseteq Left(w[a])
      /\ Left(w[a]) = {Head(w[a].steps)} \cup Left(w'[a])
      /\ w'[a].pc = "busy" \/ (w'[a].pc = "done" /\ w[a].req.do = "export") => Holds(w'[a], r)
      /\ w'[a].pc = "done" <=> Tail(w[a].steps) = <<>>
      /\ w'[a].steps = Tail(w[a].steps)
  BY Follows DEF Worked
<1>4. Own(a)' = Own(a)
  BY <1>3 DEF Own
<1>5. RowHeld(a)'
  BY <1>1, <1>2, <1>3, <1>4 DEF RowHeld, Holds
<1>6. SesHeld(a)'
  <2>1. TurnSet(<<>>) = {}
    BY DEF TurnSet
  <2>2. w'[a].pc = "done" => "fork" \notin Left(w'[a])
    BY <1>3, <2>1 DEF Left
  <2> QED BY <1>1, <1>2, <1>3, <2>2 DEF SesHeld, HoldsBoth, Holds
<1> QED BY <1>5, <1>6

\* A row that speaks of nothing is sound.
LEMMA EmptyIsSound ==
  /\ EmptyRow.sum = {} /\ EmptyRow.last = None
  /\ \A row, seq : row.sum = {} /\ row.last = None => Sound(row, seq)
BY DEF EmptyRow, Sound

\* A bundle that is not stale is sound.
LEMMA BundlesAreSound ==
  ASSUME TypeInv, RowInv, NEW b \in Bundles, ~b.stale
  PROVE  Sound(b.row, b.turns)
<1>1. CASE b \in Backups
  BY <1>1, SessionsAssumption
<1>2. CASE \E x \in Exports : b = Exported(w[x])
  <2>1. PICK x \in Workers : w[x].pc = "done" /\ w[x].req.do = "export" /\ b = Exported(w[x])
    BY <1>2 DEF Exports
  <2>2. b.row = w[x].row /\ b.turns = w[x].turns /\ b.stale = w[x].stale
    BY <2>1 DEF Exported
  <2>3. w[x].steps = <<>>
    BY <2>1 DEF TypeInv, KeepInv, DoneIsOver
  <2>4. "turns" \notin Left(w[x])
    BY <2>3 DEF Left, TurnSet
  <2>5. Sound(w[x].row, w[x].turns)
    BY <2>1, <2>2, <2>4 DEF RowInv, SesHeld, HoldsBoth
  <2> QED BY <2>2, <2>5
<1> QED BY <1>1, <1>2 DEF Bundles

\* What was read of a session are turns of it.
LEMMA ReadAreThere ==
  ASSUME TypeInv, NEW a \in Workers, w[a].ses # None, w[a].req.do # "import", w[a].pc = "busy",
         ~w[a].stale
  PROVE  /\ w[a].ses \in Ids /\ w[a].turns \in Seq(TurnIds) /\ turns[w[a].ses] \in Seq(TurnIds)
         /\ Len(w[a].turns) <= Len(turns[w[a].ses])
         /\ \A i \in 1..Len(w[a].turns) : w[a].turns[i] = turns[w[a].ses][i]
         /\ TurnSet(w[a].turns) \subseteq TurnSet(turns[w[a].ses])
<1> DEFINE s == w[a].turns
           t == turns[w[a].ses]
<1>1. IsPrefix(s, t)
  BY DEF TypeInv, KeepInv, HistoryIsAppendOnly, Reader
<1>2. w[a].ses \in Ids /\ s \in Seq(TurnIds)
  BY AtWork DEF Ids, WorkerOK
<1>3. t \in Seq(TurnIds)
  BY <1>2 DEF TypeInv, KeepInv, OwnInv, TurnsTyped
<1> HIDE DEF s, t
<1>4. Len(s) <= Len(t) /\ \A i \in 1..Len(s) : s[i] = t[i]
  BY <1>1, <1>2, <1>3, PrefixIs
<1>5. Len(s) \in Nat /\ Len(t) \in Nat /\ DOMAIN s = 1..Len(s) /\ DOMAIN t = 1..Len(t)
  BY <1>2, <1>3
<1>6. \A i \in 1..Len(s) : i \in 1..Len(t)
  BY <1>4, <1>5
<1>7. TurnSet(s) \subseteq TurnSet(t)
  BY <1>4, <1>5, <1>6 DEF TurnSet
<1> QED BY <1>2, <1>3, <1>4, <1>7 DEF s, t

\* A fork that does not fail because of its turns has none: they are those of the
\* session it forks, unless that was replaced meanwhile.
LEMMA ForksKeepNothing ==
  ASSUME TypeInv, RowInv, NEW a \in Workers, Fork(a), ~w[a].stale,
         NEW r, NEW n \in 0..Len(w[a].turns), r.turns = SubSeq(w[a].turns, 1, n),
         n = 0 => w[a].turns = <<>>, ~Conflict(a, r.turns), r.row.sum = w[a].row.sum,
         r.row.last = IF r.turns = <<>> THEN None ELSE Last(r.turns)
  PROVE  r.turns = <<>> /\ r.row.sum = {} /\ r.row.last = None
<1>1. w[a].pc = "busy" /\ Head(w[a].steps) = "fork"
  BY DEF Fork, At
<1>2. /\ Serving("fork", w[a].req.do)
      /\ Left(w[a]) = {"fork"} \cup TurnSet(Tail(w[a].steps))
      /\ \A x \in TurnSet(Tail(w[a].steps)) :
           "fork" # "todos" /\ x # "todos" => Place["fork"] < Place[x]
  BY <1>1, NextOfWorker DEF TypeInv, KeepInv, OwnInv
<1>3. w[a].req.do = "fork" /\ "turns" \notin Left(w[a])
  <2>1. w[a].req.do = "fork"
    BY <1>2 DEF Serving
  <2>2. ~(Place["fork"] < Place["turns"])
    BY DEF Place
  <2>3. "turns" \notin TurnSet(Tail(w[a].steps))
    BY <1>2, <2>2
  <2> QED BY <1>2, <2>1, <2>3
<1>4. Sound(w[a].row, w[a].turns)
  BY <1>1, <1>2, <1>3 DEF RowInv, SesHeld, HoldsBoth
<1>5. w[a].ses \in Names /\ w[a].ses # None /\ w[a].ses # a
  <2>1. w[a].ses \in Names
    BY <1>1, <1>2 DEF RowInv, Unforked
  <2> QED BY <2>1, SessionsAssumption DEF Ids
<1>6. /\ w[a].turns \in Seq(TurnIds) /\ turns[w[a].ses] \in Seq(TurnIds)
      /\ Len(w[a].turns) <= Len(turns[w[a].ses])
      /\ \A i \in 1..Len(w[a].turns) : w[a].turns[i] = turns[w[a].ses][i]
  BY <1>1, <1>3, <1>5, ReadAreThere
<1>7. n = 0
  <2> SUFFICES ASSUME n # 0 PROVE FALSE
    OBVIOUS
  <2>1. /\ Len(r.turns) = n /\ r.turns \in Seq(TurnIds)
        /\ \A i \in 1..n : r.turns[i] = w[a].turns[i]
    BY <1>6, FrontTurns
  <2>2. 1 \in 1..n /\ 1 \in 1..Len(w[a].turns) /\ 1 \in 1..Len(turns[w[a].ses])
    BY <1>6
  <2>3. r.turns[1] = turns[w[a].ses][1]
    BY <1>6, <2>1, <2>2
  <2>4. 1 \in DOMAIN r.turns /\ 1 \in DOMAIN turns[w[a].ses]
    BY <1>6, <2>1, <2>2
  <2>5. w[a].ses \in Ids \ {a}
    BY <1>5 DEF Ids
  <2>6. Conflict(a, r.turns)
    BY <2>3, <2>4, <2>5 DEF Conflict, TurnSet
  <2> QED BY <2>6
<1>8. r.turns = <<>> /\ w[a].turns = <<>>
  <2>1. Len(r.turns) = 0 /\ r.turns \in Seq(TurnIds)
    BY <1>6, <1>7, FrontTurns
  <2>2. r.turns = <<>>
    BY <2>1
  <2> QED BY <1>7, <2>2
<1>9. TurnSet(<<>>) = {}
  BY DEF TurnSet
<1> QED BY <1>4, <1>8, <1>9 DEF Sound

\* What a worker holds of a session stays sound when it takes a step.
LEMMA SelfHeld ==
  ASSUME TypeInv, RowInv, NEW a \in Workers, Step(a)
  PROVE  RowHeld(a)' /\ SesHeld(a)'
<1> DEFINE h == Head(w[a].steps)
           do == w[a].req.do
<1>0. w[a].pc = "busy" =>
        /\ Serving(h, do) /\ Left(w[a]) = {h} \cup TurnSet(Tail(w[a].steps))
        /\ \A x \in TurnSet(Tail(w[a].steps)) :
             Serving(x, do) /\ (h # "todos" /\ x # "todos" => Place[h] < Place[x])
  BY NextOfWorker DEF TypeInv, KeepInv, OwnInv
<1>1. TurnsTyped /\ RowHeld(a) /\ SesHeld(a)
  BY DEF TypeInv, KeepInv, OwnInv, RowInv
<1>2. ASSUME Accept(a) PROVE RowHeld(a)' /\ SesHeld(a)'
  <2>1. w'[a].row = EmptyRow
    BY <1>2, AcceptWorks, BlankFields DEF Accepts, Holds
  <2> QED BY <2>1, EmptyIsSound DEF RowHeld, SesHeld
<1>3. ASSUME AcceptImport(a) PROVE RowHeld(a)' /\ SesHeld(a)'
  <2>1. PICK b \in Bundles : Takes(a, b)
    BY <1>3, AcceptImportWorks
  <2>2. ~b.stale => Sound(b.row, b.turns)
    BY BundlesAreSound
  <2> QED BY <2>1, <2>2 DEF Takes, RowHeld, SesHeld
<1>4. ASSUME Failed(a) PROVE RowHeld(a)' /\ SesHeld(a)'
  BY <1>4 DEF Failed, RowHeld, SesHeld, HoldsBoth
<1>5. ASSUME ReadRow(a) PROVE RowHeld(a)' /\ SesHeld(a)'
  <2>1. PICK r : /\ Worked(a, r, {"row", "stale"}) /\ r.row = rows[w[a].ses]
                 /\ (r.stale <=> w[a].stale \/ w[a].ses \in mixed)
    BY <1>5, ReadRowWorks
  <2>2. w[a].pc = "busy" /\ h = "row" /\ w[a].ses \in DOMAIN rows /\ turns' = turns
    BY <1>5 DEF ReadRow, At, DbSame
  <2>3. r.ses = w[a].ses
    BY <2>1 DEF Worked, Only, Fields
  <2>4. /\ w'[a].req = w[a].req /\ w'[a].ses = w[a].ses /\ (w'[a].stale <=> r.stale)
        /\ Left(w[a]) = {h} \cup Left(w'[a])
        /\ \A x \in Left(w'[a]) : h # "todos" /\ x # "todos" => Place[h] < Place[x]
        /\ w'[a].pc = "busy" => w'[a].row = rows[w[a].ses]
        /\ w'[a].steps = Tail(w[a].steps)
    BY <2>1, <2>3, Follows DEF Worked, Holds
  <2>5. do # "import" /\ "create" \notin Left(w'[a])
    BY <1>0, <2>2, <2>4 DEF Serving, Place
  <2>6. w[a].ses \in Ids
    BY <2>2 DEF TypeInv, KeepInv, Rowed
  <2>7. ~w'[a].stale => Sound(rows[w[a].ses], turns[w[a].ses])
    BY <2>1, <2>2, <2>4 DEF RowInv, RowSpeaksOfItsTurns
  <2>8. RowHeld(a)'
    BY <2>2, <2>4, <2>5, <2>6, <2>7, SessionsAssumption DEF RowHeld, Sound
  <2>9. "fork" \in Left(w'[a]) => do = "fork"
    BY <1>0, <2>2, <2>4 DEF Serving, Left
  <2>10. do \in {"fork", "export"} => "turns" \in Left(w'[a])
    BY <2>2, <2>4 DEF RowInv, ReadsBoth
  <2>11. SesHeld(a)'
    BY <2>4, <2>5, <2>9, <2>10 DEF SesHeld, HoldsBoth
  <2> QED BY <2>8, <2>11
<1>6. ASSUME ReadTurns(a) PROVE RowHeld(a)' /\ SesHeld(a)'
  <2>1. PICK r : Worked(a, r, {"turns"}) /\ r.turns = turns[w[a].ses]
    BY <1>6, ReadTurnsWorks
  <2>2. w[a].pc = "busy" /\ h = "turns" /\ turns' = turns
    BY <1>6 DEF ReadTurns, At, DbSame
  <2>3. r.ses = w[a].ses /\ r.row = w[a].row /\ (r.stale <=> w[a].stale)
    BY <2>1 DEF Worked, Only, Fields
  <2>4. /\ w'[a].req = w[a].req /\ w'[a].ses = w[a].ses /\ (w'[a].stale <=> w[a].stale)
        /\ Left(w[a]) = {h} \cup Left(w'[a])
        /\ w'[a].pc = "busy" \/ (w'[a].pc = "done" /\ do = "export") =>
             w'[a].row = w[a].row /\ w'[a].turns = turns[w[a].ses]
        /\ w'[a].steps = Tail(w[a].steps)
    BY <2>1, <2>3, Follows DEF Worked, Holds
  <2>5. w[a].ses \in Ids /\ w[a].ses # None
    BY <2>2, AtWork, SessionsAssumption
  <2>6. Own(a)' = Own(a)
    BY <2>2, <2>4 DEF Own
  <2>7. RowHeld(a)'
    BY <1>1, <2>2, <2>4, <2>6 DEF RowHeld
  <2>8. do # "import"
    BY <1>0, <2>2 DEF Serving
  <2>9. ASSUME do = "export" \/ "fork" \in Left(w'[a]), ~w[a].stale
        PROVE  Sound(w[a].row, turns[w[a].ses])
    <3>1. Own(a) = {}
      BY <2>4, <2>9 DEF Own, MakesTurn
    <3> QED BY <1>1, <2>2, <2>5, <2>8, <2>9, <3>1 DEF RowHeld, Sound
  <2>10. SesHeld(a)'
    BY <2>4, <2>8, <2>9 DEF SesHeld, HoldsBoth
  <2> QED BY <2>7, <2>10
<1>7. ASSUME ReadEvents(a) \/ ReadTodos(a) \/ ReadItems(a) \/ SaveTodos(a)
      PROVE  RowHeld(a)' /\ SesHeld(a)'
  <2>1. \E r : Worked(a, r, {"events"}) \/ Worked(a, r, {"todos"}) \/ Worked(a, r, {"items"})
               \/ Worked(a, r, {"alone"})
    BY <1>7, ReadEventsWorks, ReadTodosWorks, ReadItemsWorks, SaveTodosWorks
  <2>2. h \in {"events", "todos", "checkpoint", "artifact", "run", "save"} /\ turns' = turns
    BY <1>7 DEF ReadEvents, ReadTodos, ReadItems, SaveTodos, At, Kinds, DbSame
  <2>3. TurnSet(turns[w[a].ses]) \subseteq TurnSet(turns'[w[a].ses])
    BY <2>2
  <2> QED BY <2>1, <2>2, <2>3, SameHeld
<1>8. ASSUME Create(a) PROVE RowHeld(a)' /\ SesHeld(a)'
  <2>1. PICK r : Worked(a, r, {"ses"}) /\ r.ses = a
    BY <1>8, CreateWorks
  <2>2. w[a].pc = "busy" /\ h = "create"
    BY <1>8 DEF Create, At
  <2>3. r.row = w[a].row
    BY <2>1 DEF Worked, Only, Fields
  <2>4. do \in {"create", "run"} /\ "create" \in Left(w[a])
    BY <1>0, <2>2 DEF Serving
  <2>5. w[a].row = EmptyRow
    BY <1>1, <2>2, <2>4 DEF RowHeld
  <2>6. /\ w'[a].pc = "busy" => w'[a].row = w[a].row
        /\ w'[a].req = w[a].req /\ w'[a].steps = Tail(w[a].steps)
    BY <2>1, <2>3, Follows DEF Worked, Holds
  <2>7. "fork" \notin Left(w'[a])
    BY <1>0, <2>2, <2>4, <2>6 DEF Serving, Left
  <2>8. RowHeld(a)'
    BY <2>5, <2>6, EmptyIsSound DEF RowHeld
  <2>9. SesHeld(a)'
    BY <2>4, <2>6, <2>7 DEF SesHeld, HoldsBoth
  <2> QED BY <2>8, <2>9
<1>9. ASSUME Fork(a) PROVE RowHeld(a)' /\ SesHeld(a)'
  <2>0. PICK r : \E n :
          /\ Worked(a, r, {"ses", "row", "turns"}) /\ r.ses = a
          /\ n \in 0..Len(w[a].turns) /\ r.turns = SubSeq(w[a].turns, 1, n)
          /\ n = 0 => w[a].turns = <<>>
          /\ r.row.sum = w[a].row.sum
          /\ r.row.last = IF r.turns = <<>> THEN None ELSE Last(r.turns)
          /\ ~Conflict(a, r.turns)
    BY <1>9, ForkWorks
  <2>1. Worked(a, r, {"ses", "row", "turns"})
    BY <2>0
  <2>2. w[a].pc = "busy" /\ h = "fork"
    BY <1>9 DEF Fork, At
  <2>3. ~w[a].stale => r.row.sum = {} /\ r.row.last = None
    BY <1>9, <2>0, ForksKeepNothing
  <2>4. (r.stale <=> w[a].stale) /\ do = "fork"
    BY <1>0, <2>1, <2>2 DEF Worked, Only, Fields, Serving
  <2>5. /\ w'[a].req = w[a].req /\ (w'[a].stale <=> w[a].stale)
        /\ w'[a].pc = "busy" => w'[a].row = r.row
        /\ w'[a].steps = Tail(w[a].steps)
    BY <2>1, <2>4, Follows DEF Worked, Holds
  <2>6. "create" \notin Left(w'[a]) /\ "fork" \notin Left(w'[a])
    BY <1>0, <2>2, <2>4, <2>5 DEF Serving, Left, Place
  <2>7. w'[a].ses # None
    <3>1. w'[a].ses = a
      BY <2>0, Follows DEF Worked
    <3> QED BY <3>1, SessionsAssumption DEF Ids
  <2>8. RowHeld(a)'
    BY <2>3, <2>5, <2>6, <2>7 DEF RowHeld
  <2>9. SesHeld(a)'
    BY <2>4, <2>5, <2>6 DEF SesHeld, HoldsBoth
  <2> QED BY <2>8, <2>9
<1>10. ASSUME Agent(a) PROVE RowHeld(a)' /\ SesHeld(a)'
  <2>1. PICK r : /\ Worked(a, r, {"row"}) /\ r.row.last \in {w[a].row.last, a}
                 /\ \/ r.row.sum = w[a].row.sum
                    \/ r.row.sum \subseteq TurnSet(w[a].turns) \cup {a}
    BY <1>10, AgentWorks
  <2>2. w[a].pc = "busy" /\ h = "agent" /\ turns' = turns
    BY <1>10 DEF Agent, At, DbSame
  <2>3. r.ses = w[a].ses /\ (r.stale <=> w[a].stale) /\ MakesTurn(do)
    BY <1>0, <2>1, <2>2 DEF Worked, Only, Fields, Serving
  <2>4. /\ w'[a].req = w[a].req /\ w'[a].ses = w[a].ses /\ (w'[a].stale <=> w[a].stale)
        /\ w'[a].pc = "busy" => w'[a].row = r.row
        /\ w'[a].steps = Tail(w[a].steps)
    BY <2>1, <2>3, Follows DEF Worked, Holds
  <2>5. /\ "create" \notin Left(w'[a]) /\ "fork" \notin Left(w'[a]) /\ "agent" \notin Left(w'[a])
    BY <1>0, <2>2, <2>4 DEF Left, Place
  <2>6. Own(a)' = {a} /\ Own(a) \subseteq {a} /\ do # "import"
    BY <2>3, <2>4, <2>5 DEF Own, MakesTurn
  <2>7. w[a].ses # None
    BY <2>2, AtWork, SessionsAssumption
  <2>8. ~w[a].stale => TurnSet(w[a].turns) \subseteq TurnSet(turns[w[a].ses])
    BY <2>2, <2>6, <2>7, ReadAreThere
  <2>9. RowHeld(a)'
    BY <1>1, <2>1, <2>2, <2>4, <2>5, <2>6, <2>7, <2>8 DEF RowHeld
  <2>10. SesHeld(a)'
    BY <2>3, <2>4, <2>5 DEF SesHeld, HoldsBoth, MakesTurn
  <2> QED BY <2>9, <2>10
<1>11. ASSUME AppendTurn(a) PROVE RowHeld(a)' /\ SesHeld(a)'
  <2>1. Worked(a, w[a], {})
    BY <1>11, PlainWrites
  <2>2. w[a].pc = "busy" /\ h = "append" /\ turns' = [turns EXCEPT ![w[a].ses] = Append(@, a)]
    BY <1>11 DEF AppendTurn, At
  <2>3. w[a].ses \in Ids
    BY <2>2, AtWork
  <2>4. turns'[w[a].ses] = Append(turns[w[a].ses], a) /\ turns[w[a].ses] \in Seq(TurnIds)
        /\ a \in TurnIds
    BY <1>1, <2>2, <2>3 DEF TurnsTyped, TurnIds
  <2>5. TurnSet(turns[w[a].ses]) \subseteq TurnSet(turns'[w[a].ses])
    BY <2>4, AppendTurns
  <2> QED BY <2>1, <2>2, <2>5, SameHeld
<1>12. ASSUME RecordRun(a) \/ SaveState(a) \/ RemoveArtifact(a) \/ PruneArtifacts(a) \/ Admit(a)
       PROVE  RowHeld(a)' /\ SesHeld(a)'
  <2>1. Worked(a, w[a], {})
    BY <1>12, PlainWrites, AdmitWorks
  <2>2. h \in {"record", "state", "remove", "prune", "admit"} /\ turns' = turns
    BY <1>12 DEF RecordRun, SaveState, RemoveArtifact, PruneArtifacts, Admit, Drop, At, DbSame
  <2>3. TurnSet(turns[w[a].ses]) \subseteq TurnSet(turns'[w[a].ses])
    BY <2>2
  <2> QED BY <2>1, <2>2, <2>3, SameHeld
<1>13. ASSUME Attach(a) PROVE RowHeld(a)' /\ SesHeld(a)'
  <2>1. CASE Worked(a, w[a], {})
    <3>1. h = "attach" /\ turns' = turns
      BY <1>13 DEF Attach, At
    <3>2. TurnSet(turns[w[a].ses]) \subseteq TurnSet(turns'[w[a].ses])
      BY <3>1
    <3> QED BY <2>1, <3>1, <3>2, SameHeld
  <2> QED BY <1>4, <1>13, <2>1, AttachWorks
<1>14. ASSUME NEW r, Works(a, r), Only(w[a], r, {"left", "steps"}), h \in {"session", "restore"}
       PROVE  RowHeld(a)' /\ SesHeld(a)'
  <2>1. w[a].pc = "busy" /\ w'[a].req = w[a].req /\ w'[a].stale = r.stale
        /\ (w'[a].pc = "busy" => Holds(w'[a], r)) /\ w'[a].pc \in {"busy", "done"}
    BY <1>14 DEF Works, Taken, Gone
  <2>2. do = "import" /\ r.row = w[a].row /\ r.turns = w[a].turns /\ (r.stale <=> w[a].stale)
    BY <1>0, <1>14, <2>1 DEF Serving, Only, Fields
  <2>3. "turns" \notin Left(w[a])
    BY <1>0, <2>1, <2>2 DEF Serving
  <2>4. RowHeld(a)'
    BY <2>1, <2>2 DEF RowHeld
  <2>5. SesHeld(a)'
    BY <1>1, <2>1, <2>2, <2>3 DEF SesHeld, HoldsBoth, Holds
  <2> QED BY <2>4, <2>5
<1>15. ASSUME ImportSession(a) PROVE RowHeld(a)' /\ SesHeld(a)'
  <2>1. PICK r : Works(a, r) /\ Only(w[a], r, {"steps"})
    BY <1>15, ImportSessionWorks
  <2>2. h = "session" /\ Only(w[a], r, {"left", "steps"})
    BY <1>15, <2>1 DEF ImportSession, At, Only
  <2> QED BY <1>14, <2>1, <2>2
<1>16. ASSUME RestoreItem(a) PROVE RowHeld(a)' /\ SesHeld(a)'
  <2>1. PICK k \in w[a].left : \E r : Works(a, r) /\ Only(w[a], r, {"left", "steps"})
    BY <1>16, RestoreItemWorks
  <2>2. h = "restore"
    BY <1>16 DEF RestoreItem, At
  <2> QED BY <1>14, <2>1, <2>2
<1>17. ASSUME NotFound(a) \/ ForkFails(a) \/ NoSuchTodo(a) \/ NoSuchTurn(a) \/ Refuse(a)
                \/ ImportConflict(a) \/ Abandon(a)
       PROVE  Failed(a)
  BY <1>17, FailuresWork
<1> QED BY <1>2, <1>3, <1>4, <1>5, <1>6, <1>7, <1>8, <1>9, <1>10, <1>11, <1>12, <1>13, <1>15, <1>16,
           <1>17 DEF Step

\* Requests go on reading the row before the turns, and forks in the session they
\* fork.
LEMMA ReadsStay ==
  ASSUME TypeInv, RowInv, NEW a \in Workers, Step(a)
  PROVE  ReadsBoth' /\ Unforked'
<1> DEFINE h == Head(w[a].steps)
           do == w[a].req.do
<1>0. w[a].pc = "busy" =>
        /\ Serving(h, do) /\ Left(w[a]) = {h} \cup TurnSet(Tail(w[a].steps))
        /\ \A x \in TurnSet(Tail(w[a].steps)) :
             Serving(x, do) /\ (h # "todos" /\ x # "todos" => Place[h] < Place[x])
  BY NextOfWorker DEF TypeInv, KeepInv, OwnInv
<1>1. Moved(a) /\ ReadsBoth /\ Unforked
  BY StepWorks DEF RowInv
<1>2. ASSUME NEW b \in Workers \ {a}
      PROVE  Like(w[b], w'[b]) /\ Left(w'[b]) = Left(w[b])
  BY <1>1, WholeStays DEF Like, Left
<1>3. /\ w'[a].pc = "busy" /\ w'[a].req.do \in {"fork", "export"} /\ "row" \in Left(w'[a]) =>
           "turns" \in Left(w'[a])
      /\ w'[a].pc = "busy" /\ "fork" \in Left(w'[a]) => w'[a].ses \in Names
  <2>1. CASE Accepts(a)
    <3>1. w'[a].req \in Request /\ w'[a].steps = Steps(w'[a].req) /\ w'[a].ses = SesOf(w'[a].req)
      BY <2>1 DEF Accepts
    <3>2. w'[a].req.do = "fork" => "turns" \in Left(w'[a]) /\ w'[a].ses \in Names
      <4> SUFFICES ASSUME w'[a].req.do = "fork" PROVE "turns" \in Left(w'[a]) /\ w'[a].ses \in Names
        OBVIOUS
      <4>1. w'[a].steps =
              <<"row", "turns", "todos", "fork", "agent", "todos", "append", "record">>
        BY <3>1 DEF Steps, ForkSteps
      <4>2. 2 \in DOMAIN w'[a].steps /\ w'[a].steps[2] = "turns"
        BY <4>1
      <4> QED BY <3>1, <4>2, RequestFields DEF Left, TurnSet
    <3>3. w'[a].req.do = "export" => "turns" \in Left(w'[a])
      <4> SUFFICES ASSUME w'[a].req.do = "export" PROVE "turns" \in Left(w'[a])
        OBVIOUS
      <4>1. w'[a].steps =
              <<"row", "turns", "events", "todos", "checkpoint", "artifact", "run">>
        BY <3>1 DEF Steps, ExportSteps
      <4>2. 2 \in DOMAIN w'[a].steps /\ w'[a].steps[2] = "turns"
        BY <4>1
      <4> QED BY <4>2 DEF Left, TurnSet
    <3>4. "fork" \in Left(w'[a]) => w'[a].req.do = "fork"
      <4>1. Course(w'[a].steps, w'[a].req.do) /\ Orderly(w'[a].steps, w'[a].req.do)
        BY <3>1, StepsKeepCourse, StepsAreOrderly
      <4>2. DOMAIN w'[a].steps = 1..Len(w'[a].steps)
        BY <4>1 DEF Orderly
      <4> QED BY <4>1, <4>2 DEF Left, TurnSet, Course, Serving
    <3> QED BY <3>2, <3>3, <3>4
  <2>2. CASE \E b \in Bundles : Takes(a, b)
    BY <2>2 DEF Takes
  <2>3. CASE Failed(a)
    BY <2>3 DEF Failed
  <2>4. ASSUME NEW r, Progress(a, r)
        PROVE  /\ w'[a].pc = "busy" /\ w'[a].req.do \in {"fork", "export"}
                  /\ "row" \in Left(w'[a]) =>
                    "turns" \in Left(w'[a])
               /\ w'[a].pc = "busy" /\ "fork" \in Left(w'[a]) => w'[a].ses \in Names
    <3>1. /\ w[a].pc = "busy" /\ w'[a].req = w[a].req /\ w'[a].ses = r.ses
          /\ w'[a].steps = Tail(r.steps) /\ Whole(w'[a])
      BY <2>4 DEF Progress, Works, Taken, Gone
    <3>2. CASE do = "import"
      <4>1. w'[a].ses \in Names
        <5>1. h \notin {"create", "fork"}
          BY <1>0, <3>1, <3>2 DEF Serving
        <5> QED BY <2>4, <3>1, <3>2, <5>1 DEF Progress, TypeInv, KeepInv, Housed
      <4> QED BY <3>1, <3>2, <4>1
    <3>3. CASE do # "import"
      <4>1. Left(w'[a]) = TurnSet(Tail(w[a].steps))
        BY <2>4, <3>1, <3>3 DEF Progress, Left
      <4>2. ~(Place["turns"] < Place["row"]) /\ ~(Place["fork"] < Place["fork"])
        BY DEF Place
      <4>3. ASSUME do \in {"fork", "export"}, "row" \in Left(w'[a])
            PROVE  "turns" \in Left(w'[a])
        <5>1. "row" \in Left(w[a])
          BY <1>0, <3>1, <4>1, <4>3
        <5>2. "turns" \in Left(w[a])
          BY <1>1, <3>1, <4>3, <5>1 DEF ReadsBoth
        <5>3. h # "turns"
          BY <1>0, <3>1, <4>1, <4>2, <4>3
        <5> QED BY <1>0, <3>1, <4>1, <5>2, <5>3
      <4>4. ASSUME "fork" \in Left(w'[a])
            PROVE  w'[a].ses \in Names
        <5>1. "fork" \in Left(w[a]) /\ h # "fork" /\ Serving("fork", do)
          BY <1>0, <3>1, <4>1, <4>2, <4>4
        <5>2. h # "create"
          BY <1>0, <3>1, <5>1 DEF Serving
        <5> QED BY <1>1, <2>4, <3>1, <5>1, <5>2 DEF Unforked, Progress
      <4> QED BY <3>1, <4>3, <4>4
    <3> QED BY <3>2, <3>3
  <2> QED BY <1>1, <2>1, <2>2, <2>3, <2>4 DEF Moved
<1>4. ReadsBoth'
  BY <1>1, <1>2, <1>3 DEF ReadsBoth, Like
<1>5. Unforked'
  BY <1>1, <1>2, <1>3 DEF Unforked, Like
<1> QED BY <1>4, <1>5

\* The rows stay sound.
LEMMA RowsStaySound ==
  ASSUME TypeInv, RowInv, NEW a \in Workers, Step(a)
  PROVE  RowSpeaksOfItsTurns'
<1> DEFINE h == Head(w[a].steps)
           do == w[a].req.do
           s == w[a].ses
<1>0. /\ RowsTyped /\ TodosTyped /\ ItemsTyped /\ MarksTyped /\ TurnsTyped
      /\ RowHeld(a) /\ SesHeld(a) /\ RowSpeaksOfItsTurns
      /\ a \in Ids /\ a \in TurnIds
  BY DEF TypeInv, KeepInv, OwnInv, RowInv, Ids, TurnIds
<1>1. w[a].pc = "busy" =>
        /\ Serving(h, do) /\ Left(w[a]) = {h} \cup TurnSet(Tail(w[a].steps))
        /\ \A x \in TurnSet(Tail(w[a].steps)) :
             Serving(x, do) /\ (h # "todos" /\ x # "todos" => Place[h] < Place[x])
  BY NextOfWorker DEF TypeInv, KeepInv, OwnInv
<1>2. ASSUME UNCHANGED <<rows, turns, mixed>> PROVE RowSpeaksOfItsTurns'
  BY <1>0, <1>2 DEF RowSpeaksOfItsTurns
<1>3. ASSUME NEW x \in Ids, DOMAIN rows' \subseteq DOMAIN rows \cup {x},
             \A y \in DOMAIN rows \ {x} : rows'[y] = rows[y],
             \A y \in Ids \ {x} : turns'[y] = turns[y],
             mixed \subseteq mixed' \cup {x},
             x \notin mixed' /\ x \in DOMAIN rows' => Sound(rows'[x], turns'[x])
      PROVE  RowSpeaksOfItsTurns'
  <2>1. DOMAIN rows \subseteq Ids
    BY DEF TypeInv, KeepInv, Rowed
  <2> SUFFICES ASSUME NEW y \in DOMAIN rows' \ mixed' PROVE Sound(rows'[y], turns'[y])
    BY DEF RowSpeaksOfItsTurns
  <2>2. CASE y = x
    BY <1>3, <2>2
  <2>3. CASE y # x
    BY <1>0, <1>3, <2>1, <2>3 DEF RowSpeaksOfItsTurns
  <2> QED BY <2>2, <2>3
<1>4. ASSUME Create(a) PROVE RowSpeaksOfItsTurns'
  <2>1. SaveSession(a, EmptyRow, <<>>, <<>>) /\ mixed' = mixed
    BY <1>4 DEF Create
  <2>2. /\ DOMAIN rows' = DOMAIN rows \cup {a} /\ rows'[a] = EmptyRow
        /\ \A y \in DOMAIN rows \ {a} : rows'[y] = rows[y]
        /\ \A y \in Ids \ {a} : turns'[y] = turns[y]
    BY <1>0, <2>1, BlankTypes, SaveSessionSaves
  <2>3. Sound(rows'[a], turns'[a])
    BY <2>2, EmptyIsSound
  <2> QED BY <1>0, <1>3, <2>1, <2>2, <2>3
<1>5. ASSUME Fork(a) PROVE RowSpeaksOfItsTurns'
  <2>0. PICK r : \E n :
          /\ Worked(a, r, {"ses", "row", "turns"}) /\ r.ses = a
          /\ n \in 0..Len(w[a].turns) /\ r.turns = SubSeq(w[a].turns, 1, n)
          /\ n = 0 => w[a].turns = <<>>
          /\ r.row.sum = w[a].row.sum
          /\ r.row.last = IF r.turns = <<>> THEN None ELSE Last(r.turns)
          /\ ~Conflict(a, r.turns)
          /\ rows' = Put(rows, a, r.row)
          /\ turns' = [turns EXCEPT ![a] = r.turns]
          /\ todos' = [todos EXCEPT ![a] = w[a].todos]
    BY <1>5, ForkWorks
  <2>1. mixed' = IF w[a].stale THEN mixed \cup {a} ELSE mixed
    BY <1>5 DEF Fork
  <2>2. /\ DOMAIN rows' = DOMAIN rows \cup {a} /\ rows'[a] = r.row
        /\ \A y \in DOMAIN rows \ {a} : rows'[y] = rows[y]
        /\ \A y \in Ids \ {a} : turns'[y] = turns[y]
    BY <1>0, <2>0 DEF Put, TurnsTyped
  <2>3. ~w[a].stale => r.row.sum = {} /\ r.row.last = None
    BY <1>5, <2>0, ForksKeepNothing
  <2>4. a \notin mixed' => Sound(rows'[a], turns'[a])
    BY <2>1, <2>2, <2>3, EmptyIsSound
  <2> QED BY <1>0, <1>3, <2>1, <2>2, <2>4
<1>6. ASSUME AppendTurn(a) PROVE RowSpeaksOfItsTurns'
  <2>1. /\ w[a].pc = "busy" /\ h = "append" /\ turns' = [turns EXCEPT ![s] = Append(@, a)]
        /\ rows' = [rows EXCEPT ![s] = w[a].row]
        /\ mixed' = IF w[a].stale THEN mixed \cup {s} ELSE mixed
    BY <1>6 DEF AppendTurn, At
  <2>2. s \in Ids /\ s # None
    BY <2>1, AtWork, SessionsAssumption
  <2>3. /\ turns'[s] = Append(turns[s], a) /\ turns[s] \in Seq(TurnIds)
        /\ \A y \in Ids \ {s} : turns'[y] = turns[y]
    BY <1>0, <2>1, <2>2 DEF TurnsTyped
  <2>4. TurnSet(turns'[s]) = TurnSet(turns[s]) \cup {a}
    BY <1>0, <2>3, AppendTurns
  <2>5. /\ DOMAIN rows' = DOMAIN rows /\ \A y \in DOMAIN rows \ {s} : rows'[y] = rows[y]
        /\ s \in DOMAIN rows => rows'[s] = w[a].row
    BY <2>1
  <2>6. do # "import"
    BY <1>1, <2>1 DEF Serving
  <2>7. ~w[a].stale => Sound(w[a].row, turns'[s])
    BY <1>0, <2>1, <2>2, <2>4, <2>6 DEF RowHeld, Own, Sound
  <2> HIDE DEF s
  <2>8. mixed \subseteq mixed' \cup {s} /\ (s \notin mixed' => ~w[a].stale)
    BY <2>1
  <2> QED BY <1>3, <2>2, <2>3, <2>5, <2>7, <2>8
<1>7. ASSUME SaveState(a) PROVE RowSpeaksOfItsTurns'
  <2> DEFINE sum == Summary(w[a].turns)
             row == [w[a].row EXCEPT !.sum = IF sum = {} THEN @ ELSE sum]
  <2>1. /\ w[a].pc = "busy" /\ h = "state" /\ turns' = turns
        /\ rows' = IF sum = {} THEN rows ELSE [rows EXCEPT ![s] = row]
        /\ mixed' = IF w[a].stale /\ sum # {} THEN mixed \cup {s} ELSE mixed
    BY <1>7 DEF SaveState, At
  <2>2. s \in Ids /\ s # None /\ w[a].row \in Row /\ w[a].turns \in Seq(TurnIds)
    BY <2>1, AtWork, SessionsAssumption DEF WorkerOK
  <2>3. do = "compact"
    BY <1>1, <2>1 DEF Serving
  <2>4. sum \subseteq TurnSet(w[a].turns)
    BY <2>2, SummaryIsOfTurns
  <2>5. ~w[a].stale => TurnSet(w[a].turns) \subseteq TurnSet(turns[s])
    BY <2>1, <2>2, <2>3, ReadAreThere
  <2>6. sum # {} => row.sum = sum /\ row.last = w[a].row.last
    <3> HIDE DEF sum
    <3> QED BY <2>2 DEF Row
  <2>7. ~w[a].stale => w[a].row.last \in TurnSet(turns[s]) \cup {None}
    BY <1>0, <2>1, <2>2, <2>3 DEF RowHeld, Own, MakesTurn
  <2>8. sum # {} /\ ~w[a].stale => Sound(row, turns[s])
    BY <2>4, <2>5, <2>6, <2>7 DEF Sound
  <2> HIDE DEF sum, row, s
  <2>9. CASE sum = {}
    BY <1>2, <2>1, <2>9
  <2>10. CASE sum # {}
    <3>1. /\ DOMAIN rows' = DOMAIN rows /\ \A y \in DOMAIN rows \ {s} : rows'[y] = rows[y]
          /\ s \in DOMAIN rows => rows'[s] = row
      BY <2>1, <2>10
    <3>2. mixed \subseteq mixed' \cup {s} /\ (s \notin mixed' => ~w[a].stale)
      BY <2>1, <2>10
    <3> QED BY <1>3, <2>1, <2>2, <2>8, <2>10, <3>1, <3>2
  <2> QED BY <2>9, <2>10
<1>8. ASSUME ImportSession(a) PROVE RowSpeaksOfItsTurns'
  <2>1. /\ w[a].pc = "busy" /\ h = "session" /\ SaveSession(s, w[a].row, w[a].turns, w[a].todos)
        /\ mixed' = IF w[a].stale THEN mixed \cup {s} ELSE mixed \ {s}
    BY <1>8 DEF ImportSession, At
  <2>2. s \in Ids /\ w[a].row \in Row
    BY <2>1, AtWork DEF WorkerOK
  <2>3. do = "import" /\ "turns" \notin Left(w[a])
    BY <1>1, <2>1 DEF Serving
  <2>4. w[a].todos \in TodoList
    BY <2>1, <2>3 DEF TypeInv, Listed
  <2>5. /\ DOMAIN rows' = DOMAIN rows \cup {s} /\ rows'[s] = w[a].row
        /\ \A y \in DOMAIN rows \ {s} : rows'[y] = rows[y]
        /\ turns'[s] = w[a].turns /\ \A y \in Ids \ {s} : turns'[y] = turns[y]
    <3>1. /\ RowsTyped /\ TodosTyped /\ TurnsTyped /\ s \in Ids
          /\ w[a].row \in Row /\ w[a].todos \in TodoList
          /\ SaveSession(s, w[a].row, w[a].turns, w[a].todos)
      BY <1>0, <2>1, <2>2, <2>4
    <3> HIDE DEF s
    <3>2. rows' = Put(rows, s, w[a].row) /\ turns' = [turns EXCEPT ![s] = w[a].turns]
      BY <3>1 DEF SaveSession
    <3>3. /\ DOMAIN rows' = DOMAIN rows \cup {s} /\ rows'[s] = w[a].row
          /\ \A y \in DOMAIN rows \ {s} : rows'[y] = rows[y]
      BY <3>2 DEF Put
    <3>4. turns'[s] = w[a].turns /\ \A y \in Ids \ {s} : turns'[y] = turns[y]
      BY <3>1, <3>2 DEF TurnsTyped
    <3> QED BY <3>3, <3>4
  <2>6. ~w[a].stale => Sound(w[a].row, w[a].turns)
    BY <1>0, <2>1, <2>3 DEF SesHeld, HoldsBoth
  <2> HIDE DEF s
  <2>7. mixed \subseteq mixed' \cup {s} /\ (s \notin mixed' => ~w[a].stale)
    BY <2>1
  <2> QED BY <1>3, <2>2, <2>5, <2>6, <2>7
<1>9. ASSUME NotFound(a) \/ ForkFails(a) \/ NoSuchTodo(a) \/ NoSuchTurn(a) \/ Refuse(a)
                \/ ImportConflict(a) \/ Abandon(a)
       PROVE  UNCHANGED <<rows, turns, mixed>>
  BY <1>9, FailuresWork DEF DbSame
<1>10. ASSUME Accept(a) \/ AcceptImport(a) \/ ReadRow(a) \/ ReadTurns(a) \/ ReadEvents(a)
                \/ ReadTodos(a) \/ Agent(a) \/ ReadItems(a) \/ Admit(a)
       PROVE  UNCHANGED <<rows, turns, mixed>>
  BY <1>10 DEF Accept, AcceptImport, ReadRow, ReadTurns, ReadEvents, ReadTodos, Agent, ReadItems,
     Admit, DbSame
<1>11. ASSUME RecordRun(a) \/ SaveTodos(a) \/ Attach(a) \/ RemoveArtifact(a) \/ PruneArtifacts(a)
                \/ RestoreItem(a)
       PROVE  UNCHANGED <<rows, turns, mixed>>
  BY <1>11 DEF RecordRun, SaveTodos, Attach, RemoveArtifact, PruneArtifacts, Drop, RestoreItem
<1> QED BY <1>2, <1>4, <1>5, <1>6, <1>7, <1>8, <1>9, <1>10, <1>11 DEF Step

\* RowInv holds at first.
LEMMA RowInitial == Init => RowInv
<1> SUFFICES ASSUME Init PROVE RowInv
  OBVIOUS
<1>1. /\ w = [b \in Workers |-> Blank] /\ rows = Rows /\ mixed = {}
      /\ turns = [s \in Ids |-> IF s \in Names THEN Stored[s] ELSE <<>>]
  BY DEF Init
<1>2. \A a \in Workers : RowHeld(a) /\ SesHeld(a)
  BY <1>1, BlankFields DEF RowHeld, SesHeld, HoldsBoth
<1>3. ReadsBoth /\ Unforked
  BY <1>1, BlankFields DEF ReadsBoth, Unforked
<1>4. RowSpeaksOfItsTurns
  <2>1. \A s \in DOMAIN Rows : s \in Names /\ Sound(Rows[s], Stored[s])
    BY SessionsAssumption
  <2> QED BY <1>1, <2>1 DEF RowSpeaksOfItsTurns, Ids
<1> QED BY <1>2, <1>3, <1>4 DEF RowInv

\* RowInv is inductive.
LEMMA RowStep == TypeInv /\ RowInv /\ [Next]_vars => RowInv'
<1> SUFFICES ASSUME TypeInv, RowInv, [Next]_vars PROVE RowInv'
  OBVIOUS
<1>1. CASE UNCHANGED vars
  BY <1>1 DEF vars, RowInv, RowHeld, SesHeld, HoldsBoth, Own, ReadsBoth, Unforked,
     RowSpeaksOfItsTurns
<1>2. CASE Next
  <2>1. PICK a \in Workers : Step(a)
    BY <1>2 DEF Next
  <2>2. \A b \in Workers : RowHeld(b)' /\ SesHeld(b)'
    BY <2>1, OthersHeld, SelfHeld
  <2>3. ReadsBoth' /\ Unforked' /\ RowSpeaksOfItsTurns'
    BY <2>1, ReadsStay, RowsStaySound
  <2> QED BY <2>2, <2>3 DEF RowInv
<1> QED BY <1>1, <1>2

\* The summary and the last response of a session are about turns it has, also
\* when runs, forks, compactions, exports and imports of it overlap: the row each
\* of them writes was computed from a row and turns that it read at different
\* times, and between them turns are only added.
THEOREM RowsSpeakOfTheirTurns == Spec => []RowSpeaksOfItsTurns
<1>1. RowInv => RowSpeaksOfItsTurns
  BY DEF RowInv
<1> QED BY <1>1, TypeInitial, TypeStep, RowInitial, RowStep, PTL DEF Spec

-----------------------------------------------------------------------------
(* Todos.                                                                   *)

\* What the writer a of request r says of a list.
Claims(r, a, list) ==
  /\ r.do = "upsert" => r.todo \in DOMAIN list /\ list[r.todo] = a
  /\ r.do = "drop" => r.todo \notin DOMAIN list
  /\ r.do = "put" => \A d \in TodoIds : IF d \in r.todos THEN d \in DOMAIN list /\ list[d] = a
                                        ELSE d \notin DOMAIN list

\* It is true of the list that is stored, and of every copy that will be written
\* back.
TodoHeld(a) ==
  w[a].pc = "done" /\ w[a].alone /\ w[a].req.do \in TodoDo =>
    /\ Claims(w[a].req, a, todos[w[a].ses])
    /\ \A b \in Holding(a, w[a].ses) : Claims(w[a].req, a, w[b].todos)
TodoInv == \A a \in Workers : TodoHeld(a)

\* A request makes its claim true.
LEMMA NewTodosClaim ==
  ASSUME NEW a \in Workers, w[a].req.do \in TodoDo
  PROVE  Claims(w[a].req, a, NewTodos(a))
<1> DEFINE r == w[a].req
<1>1. CASE r.do = "put"
  <2>1. NewTodos(a) = [d \in r.todos |-> a]
    BY <1>1 DEF NewTodos
  <2> HIDE DEF r
  <2>2. Claims(r, a, NewTodos(a))
    BY <1>1, <2>1 DEF Claims
  <2> QED BY <2>2 DEF r
<1>2. CASE r.do = "upsert"
  <2>1. NewTodos(a) = Put(w[a].todos, r.todo, a)
    BY <1>2 DEF NewTodos
  <2> HIDE DEF r
  <2>2. Claims(r, a, NewTodos(a))
    BY <1>2, <2>1 DEF Claims, Put
  <2> QED BY <2>2 DEF r
<1>3. CASE r.do = "drop"
  <2>1. NewTodos(a) = [d \in DOMAIN w[a].todos \ {r.todo} |-> w[a].todos[d]]
    BY <1>3 DEF NewTodos
  <2> HIDE DEF r
  <2>2. Claims(r, a, NewTodos(a))
    BY <1>3, <2>1 DEF Claims
  <2> QED BY <2>2 DEF r
<1> QED BY <1>1, <1>2, <1>3 DEF TodoDo

\* A request about other todos keeps the claims on the list it has read.
LEMMA NewTodosKeep ==
  ASSUME NEW a \in Workers, w[a].req \in Request, w[a].req.do \in {"upsert", "drop"},
         NEW q \in Request, NEW c, Claims(q, c, w[a].todos),
         Subject(q) \cap Subject(w[a].req) = {}
  PROVE  Claims(q, c, NewTodos(a))
<1> DEFINE r == w[a].req
<1>1. Subject(r) = {r.todo} /\ r.todo \in TodoIds
  BY RequestFields DEF Subject
<1>2. q.do # "put"
  BY <1>1 DEF Subject
<1>3. q.do \in {"upsert", "drop"} => q.todo # r.todo
  BY <1>1 DEF Subject
<1>4. CASE r.do = "upsert"
  <2>1. NewTodos(a) = Put(w[a].todos, r.todo, a)
    BY <1>4 DEF NewTodos
  <2> HIDE DEF r
  <2> QED BY <1>2, <1>3, <2>1 DEF Claims, Put
<1>5. CASE r.do = "drop"
  <2>1. NewTodos(a) = [d \in DOMAIN w[a].todos \ {r.todo} |-> w[a].todos[d]]
    BY <1>5 DEF NewTodos
  <2> HIDE DEF r
  <2> QED BY <1>2, <1>3, <2>1 DEF Claims
<1> QED BY <1>4, <1>5

\* Who saves todos has what that takes.
LEMMA Saving ==
  ASSUME TypeInv, NEW a \in Workers, SaveTodos(a)
  PROVE  /\ w[a].pc = "busy" /\ w[a].req \in Request /\ w[a].req.do \in TodoDo
         /\ w[a].ses \in Ids
         /\ w[a].req.do \in {"upsert", "drop"} => w[a].todos \in TodoList
         /\ todos'[w[a].ses] = NewTodos(a)
         /\ \A x \in Ids \ {w[a].ses} : todos'[x] = todos[x]
<1>1. w[a].pc = "busy" /\ Head(w[a].steps) = "save"
      /\ todos' = [todos EXCEPT ![w[a].ses] = NewTodos(a)]
  BY DEF SaveTodos, At
<1>2. w[a].ses \in Ids /\ w[a].req \in Request
  BY <1>1, AtWork
<1>3. /\ Serving("save", w[a].req.do)
      /\ TodosFirst(w[a].steps) /\ "save" # "todos" => "save" \notin Users
  BY <1>1, NextOfWorker DEF TypeInv, KeepInv, OwnInv
<1>4. w[a].req.do \in {"upsert", "drop"} => w[a].todos \in TodoList
  BY <1>1, <1>3 DEF Users, TypeInv, Listed
<1>5. todos'[w[a].ses] = NewTodos(a) /\ \A x \in Ids \ {w[a].ses} : todos'[x] = todos[x]
  BY <1>1, <1>2 DEF TypeInv, TodosTyped
<1> QED BY <1>1, <1>2, <1>3, <1>4, <1>5 DEF Serving

\* Only a save ends a request about todos well.
LEMMA OnlySavesEnd ==
  ASSUME TypeInv, NEW a \in Workers, Step(a), w'[a].pc = "done", w'[a].req.do \in TodoDo,
         w[a].pc # "done"
  PROVE  SaveTodos(a)
<1>1. CASE Accept(a) \/ AcceptImport(a)
  BY <1>1, AcceptWorks, AcceptImportWorks DEF Accepts, Takes
<1>2. CASE NotFound(a) \/ ForkFails(a) \/ NoSuchTodo(a) \/ NoSuchTurn(a) \/ Refuse(a)
             \/ ImportConflict(a) \/ Abandon(a)
  BY <1>2, FailuresWork DEF Failed
<1>3. ASSUME w[a].pc = "busy", Head(w[a].steps) # "save", ~Failed(a)
      PROVE  FALSE
  <2>1. Moved(a)
    BY StepWorks
  <2>2. PICK r : Progress(a, r)
    BY <1>3, <2>1 DEF Moved, Accepts, Takes
  <2>3. /\ w'[a].req = w[a].req /\ Tail(r.steps) = <<>>
    BY <2>2 DEF Progress, Works, Taken, Gone
  <2>4. w[a].req.do \in TodoDo /\ w[a].req.do # "import"
    BY <2>3 DEF TodoDo
  <2>5. Tail(w[a].steps) = <<>>
    BY <2>2, <2>3, <2>4 DEF Progress
  <2>6. w[a].req.do \in TodoDo => (Tail(w[a].steps) = <<>> <=> Head(w[a].steps) = "save")
    BY <1>3, NextOfWorker DEF TypeInv, KeepInv, OwnInv
  <2> QED BY <1>3, <2>4, <2>5, <2>6
<1>4. ASSUME ReadRow(a) \/ ReadTurns(a) \/ ReadEvents(a) \/ ReadTodos(a) \/ Create(a) \/ Fork(a)
               \/ Agent(a) \/ AppendTurn(a) \/ RecordRun(a) \/ SaveState(a) \/ Attach(a)
      PROVE  w[a].pc = "busy" /\ Head(w[a].steps) # "save"
  BY <1>4 DEF ReadRow, ReadTurns, ReadEvents, ReadTodos, Create, Fork, Agent, AppendTurn, RecordRun,
     SaveState, Attach, At
<1>5. ASSUME RemoveArtifact(a) \/ PruneArtifacts(a) \/ ReadItems(a) \/ Admit(a) \/ ImportSession(a)
               \/ RestoreItem(a)
      PROVE  w[a].pc = "busy" /\ Head(w[a].steps) # "save"
  BY <1>5 DEF RemoveArtifact, PruneArtifacts, ReadItems, Admit, ImportSession, RestoreItem, At,
     Kinds
<1>6. ~Failed(a)
  BY DEF Failed
<1> QED BY <1>1, <1>2, <1>3, <1>4, <1>5, <1>6 DEF Step

\* What happens to the todos of a session in which somebody else has saved some.
LEMMA OthersTodos ==
  ASSUME TypeInv, NEW a \in Workers, Step(a), NEW c \in Workers \ {a}, w[c].pc = "done",
         w[c].req.do \in TodoDo, w'[c].alone
  PROVE  \/ todos'[w[c].ses] = todos[w[c].ses]
         \/ SaveTodos(a) /\ w[a].ses = w[c].ses /\ Subject(w[c].req) \cap Subject(w[a].req) = {}
<1> DEFINE s == w[c].ses
<1>0. w[c].ses \in Names \cup {None, c} /\ a \in Ids /\ c # a
  BY DEF TypeInv, KeepInv, Housed, Ids
<1>1. todos \in [Ids -> TodoList] /\ w[c].ses # a
  BY <1>0, SessionsAssumption DEF TypeInv, TodosTyped, Ids
<1>2. ASSUME Create(a) PROVE todos'[s] = todos[s]
  BY <1>0, <1>1, <1>2 DEF Create, SaveSession
<1>3. ASSUME Fork(a) PROVE todos'[s] = todos[s]
  <2>1. PICK list : todos' = [todos EXCEPT ![a] = list]
    BY <1>3 DEF Fork, SaveSession
  <2> QED BY <1>0, <1>1, <2>1
<1>4. ASSUME ImportSession(a) PROVE todos'[s] = todos[s]
  <2>1. w[c].ses # w[a].ses
    BY <1>4, ImportSessionWorks
  <2>2. todos' = [todos EXCEPT ![w[a].ses] = w[a].todos]
    BY <1>4 DEF ImportSession, SaveSession
  <2> QED BY <1>1, <2>1, <2>2
<1>5. ASSUME SaveTodos(a)
      PROVE  \/ todos'[s] = todos[s]
             \/ w[a].ses = s /\ Subject(w[c].req) \cap Subject(w[a].req) = {}
  <2>1. todos' = [todos EXCEPT ![w[a].ses] = NewTodos(a)]
    BY <1>5 DEF SaveTodos
  <2>2. CASE w[a].ses # s
    BY <1>1, <2>1, <2>2
  <2>3. CASE w[a].ses = s
    <3>1. c \notin Obsolete(a, w[a].ses)
      BY <1>5, SaveTodosWorks
    <3> QED BY <2>3, <3>1 DEF Obsolete
  <2> QED BY <2>2, <2>3
<1>6. ASSUME NotFound(a) \/ ForkFails(a) \/ NoSuchTodo(a) \/ NoSuchTurn(a) \/ Refuse(a)
                \/ ImportConflict(a) \/ Abandon(a)
       PROVE  todos' = todos
  BY <1>6, FailuresWork DEF DbSame
<1>7. ASSUME Accept(a) \/ AcceptImport(a) \/ ReadRow(a) \/ ReadTurns(a) \/ ReadEvents(a)
                \/ ReadTodos(a) \/ Agent(a) \/ ReadItems(a) \/ Admit(a)
       PROVE  todos' = todos
  BY <1>7 DEF Accept, AcceptImport, ReadRow, ReadTurns, ReadEvents, ReadTodos, Agent, ReadItems,
     Admit, DbSame
<1>8. ASSUME RecordRun(a) \/ SaveState(a) \/ Attach(a) \/ RemoveArtifact(a) \/ PruneArtifacts(a)
                \/ RestoreItem(a) \/ AppendTurn(a)
       PROVE  todos' = todos
  BY <1>8 DEF RecordRun, SaveState, Attach, RemoveArtifact, PruneArtifacts, Drop, RestoreItem,
     AppendTurn
<1> QED BY <1>2, <1>3, <1>4, <1>5, <1>6, <1>7, <1>8 DEF Step

\* Claims that were true stay true.
LEMMA TodosStay ==
  ASSUME TypeInv, TodoInv, NEW a \in Workers, Step(a)
  PROVE  TodoInv'
<1>1. Moved(a)
  BY StepWorks
<1>2. \A b \in Workers \ {a} : Like(w[b], w'[b])
  BY <1>1, WholeStays
<1>3. ASSUME NEW c \in Workers \ {a}, w'[c].pc = "done", w'[c].alone, w'[c].req.do \in TodoDo
      PROVE  /\ Claims(w'[c].req, c, todos'[w'[c].ses])
             /\ \A b \in Holding(c, w[c].ses)' : Claims(w'[c].req, c, w'[b].todos)
  <2> DEFINE q == w[c].req
             s == w[c].ses
  <2>1. /\ w[c].pc = "done" /\ w[c].alone /\ q.do \in TodoDo
        /\ w'[c].req = q /\ w'[c].ses = s
    BY <1>2, <1>3 DEF Like
  <2>2. Claims(q, c, todos[s]) /\ \A b \in Holding(c, s) : Claims(q, c, w[b].todos)
    BY <2>1 DEF TodoInv, TodoHeld
  <2>3. q \in Request
    BY <2>1 DEF TypeInv, KeepInv, OwnInv, Tasked
  <2>4. ASSUME w[a].pc = "busy", w[a].req.do \in {"upsert", "drop"}, w[a].ses = s,
               w[a].todos # None
        PROVE  Claims(q, c, w[a].todos)
    <3>1. a \in Holding(c, s)
      BY <2>4 DEF Holding
    <3> QED BY <2>2, <3>1
  <2>5. Claims(q, c, todos'[s])
    <3>1. CASE todos'[s] = todos[s]
      BY <2>2, <3>1
    <3>2. CASE SaveTodos(a) /\ w[a].ses = s /\ Subject(q) \cap Subject(w[a].req) = {}
      <4>1. /\ w[a].pc = "busy" /\ w[a].req \in Request /\ w[a].req.do \in TodoDo
            /\ w[a].req.do \in {"upsert", "drop"} => w[a].todos \in TodoList
            /\ todos'[s] = NewTodos(a)
        BY <3>2, Saving
      <4>2. CASE w[a].req.do = "put"
        <5>1. Subject(w[a].req) = TodoIds
          BY <4>2 DEF Subject
        <5>2. Subject(q) = {}
          <6>1. Subject(q) \subseteq TodoIds
            BY <2>3, RequestFields DEF Subject
          <6> QED BY <3>2, <5>1, <6>1
        <5>3. q.do = "put" /\ TodoIds = {}
          BY <2>1, <5>2 DEF Subject, TodoDo
        <5> QED BY <5>3 DEF Claims
      <4>3. CASE w[a].req.do \in {"upsert", "drop"}
        <5>1. w[a].todos # None
          BY <4>1, <4>3, SessionsAssumption
        <5>2. Claims(q, c, w[a].todos)
          BY <2>4, <3>2, <4>1, <4>3, <5>1
        <5> QED BY <2>3, <3>2, <4>1, <4>3, <5>2, NewTodosKeep
      <4> QED BY <4>1, <4>2, <4>3 DEF TodoDo
    <3> QED BY <1>3, <2>1, <3>1, <3>2, OthersTodos
  <2>6. ASSUME NEW b \in Holding(c, s)'
        PROVE  Claims(q, c, w'[b].todos)
    <3>1. /\ b \in Workers \ {c} /\ w'[b].pc = "busy" /\ w'[b].req.do \in {"upsert", "drop"}
          /\ w'[b].ses = s /\ w'[b].todos # None
      BY <2>1, <2>6 DEF Holding
    <3>2. CASE b # a
      <4>1. Like(w[b], w'[b])
        BY <1>2, <3>1, <3>2
      <4>2. b \in Holding(c, s) /\ w'[b].todos = w[b].todos
        BY <3>1, <4>1 DEF Like, Holds, Holding
      <4> QED BY <2>2, <4>2
    <3>3. CASE b = a
      <4>1. ~Accepts(a) /\ ~Failed(a) /\ \A x \in Bundles : ~Takes(a, x)
        <5>1. ~Accepts(a)
          BY <3>1, <3>3, BlankFields DEF Accepts, Holds
        <5> QED BY <3>1, <3>3, <5>1 DEF Failed, Takes
      <4>2. PICK r : Progress(a, r)
        BY <1>1, <4>1 DEF Moved
      <4>3. /\ w[a].pc = "busy" /\ w'[a].req = w[a].req /\ w'[a].ses = r.ses
            /\ w'[a].todos = r.todos
        BY <3>1, <3>3, <4>2 DEF Progress, Works, Taken, Gone, Holds
      <4>4. Serving(Head(w[a].steps), w[a].req.do)
        BY <4>3, NextOfWorker DEF TypeInv, KeepInv, OwnInv
      <4>5. r.ses = w[a].ses /\ (r.todos = w[a].todos \/ r.todos = todos[w[a].ses])
        <5>1. Head(w[a].steps) \notin {"create", "fork"}
          BY <3>1, <3>3, <4>3, <4>4 DEF Serving
        <5> QED BY <4>2, <5>1 DEF Progress
      <4> QED BY <2>2, <2>4, <3>1, <3>3, <4>3, <4>5
    <3> QED BY <3>2, <3>3
  <2> QED BY <2>1, <2>5, <2>6
<1>4. ASSUME w'[a].pc = "done", w'[a].alone, w'[a].req.do \in TodoDo
      PROVE  /\ Claims(w'[a].req, a, todos'[w'[a].ses])
             /\ \A b \in Holding(a, w[a].ses)' : Claims(w'[a].req, a, w'[b].todos)
  <2>1. w[a].pc # "done"
    BY <1>1 DEF Moved, Accepts, Takes, Failed, Progress, Works, Taken
  <2>2. SaveTodos(a)
    BY <1>4, <2>1, OnlySavesEnd
  <2>3. PICK r : /\ Worked(a, r, {"alone"})
                 /\ (r.alone <=> (w[a].alone /\ Holding(a, w[a].ses) = {}))
    BY <2>2, SaveTodosWorks
  <2>4. r.ses = w[a].ses
    BY <2>3 DEF Worked, Only, Fields
  <2>5. w'[a].req = w[a].req /\ w'[a].ses = w[a].ses /\ w'[a].alone = r.alone
    BY <2>3, <2>4, Follows DEF Worked
  <2>6. Holding(a, w[a].ses) = {}
    BY <1>4, <2>3, <2>5
  <2>7. todos'[w[a].ses] = NewTodos(a) /\ Claims(w[a].req, a, NewTodos(a))
    BY <2>2, Saving, NewTodosClaim
  <2>8. ASSUME NEW b \in Holding(a, w[a].ses)' PROVE FALSE
    <3>1. /\ b \in Workers \ {a} /\ w'[b].pc = "busy" /\ w'[b].req.do \in {"upsert", "drop"}
          /\ w'[b].ses = w[a].ses /\ w'[b].todos # None
      BY <2>5, <2>8 DEF Holding
    <3>2. Like(w[b], w'[b])
      BY <1>2, <3>1
    <3>3. b \in Holding(a, w[a].ses)
      BY <3>1, <3>2 DEF Like, Holds, Holding
    <3> QED BY <2>6, <3>3
  <2> QED BY <2>5, <2>7, <2>8
<1> QED BY <1>3, <1>4 DEF TodoInv, TodoHeld

\* No claim is made at first.
LEMMA TodoInitial == Init => TodoInv
BY BlankFields DEF Init, TodoInv, TodoHeld

\* TodoInv is inductive.
LEMMA TodoStep == TypeInv /\ TodoInv /\ [Next]_vars => TodoInv'
<1> SUFFICES ASSUME TypeInv, TodoInv, [Next]_vars PROVE TodoInv'
  OBVIOUS
<1>1. CASE UNCHANGED vars
  BY <1>1 DEF vars, TodoInv, TodoHeld, Holding
<1>2. CASE Next
  <2>1. PICK a \in Workers : Step(a)
    BY <1>2 DEF Next
  <2> QED BY <2>1, TodosStay
<1> QED BY <1>1, <1>2

\* A todo change that overlapped no other stays until a later request about the
\* same todo or an import: AppendTurnWithEvents and SaveSessionState leave the
\* todos alone, and a request that writes a whole list back has read the change.
THEOREM TodoChangesKept == Spec => []TodosAreKept
<1>1. TypeInv /\ TodoInv => TodosAreKept
  <2> SUFFICES ASSUME TypeInv, TodoInv, NEW a \in Workers, w[a].pc = "done", w[a].alone
               PROVE  LET list == todos[w[a].ses]  r == w[a].req
                      IN /\ r.do = "upsert" => r.todo \in DOMAIN list /\ list[r.todo] = a
                         /\ r.do = "drop" => r.todo \notin DOMAIN list
                         /\ r.do = "put" =>
                              \A d \in TodoIds :
                                IF d \in r.todos THEN d \in DOMAIN list /\ list[d] = a
                                ELSE d \notin DOMAIN list
    BY DEF TodosAreKept
  <2>1. w[a].req.do \in TodoDo => Claims(w[a].req, a, todos[w[a].ses])
    BY DEF TodoInv, TodoHeld
  <2> QED BY <2>1 DEF Claims, TodoDo
<1> QED BY <1>1, TypeInitial, TypeStep, TodoInitial, TodoStep, PTL DEF Spec

-----------------------------------------------------------------------------
(* What is never taken back.                                                *)

\* A worker that has yet to open a session has no row of its own.
Unopened ==
  \A a \in Workers :
    w[a].pc = "idle" \/ (w[a].pc = "busy" /\ Left(w[a]) \cap {"create", "fork"} # {})
      => a \notin DOMAIN rows

\* Once it has, it opens no other.
LEMMA UnopenedStays ==
  ASSUME TypeInv, Unopened, NEW a \in Workers, Step(a)
  PROVE  Unopened'
<1>0. Moves(a) /\ Ready /\ Tasked /\ Housed /\ WorkersShaped
  BY StepIsMove DEF TypeInv, KeepInv, OwnInv, Ready
<1>1. Accepted(a) \/ Bundled(a) \/ Onward(a)
  BY <1>0, MovesOn
<1>2. \A b \in Workers \ {a} : Alike(w[b], w'[b])
  BY <1>1 DEF Accepted, Bundled, Onward, OthersKeep
<1>3. \/ DOMAIN rows' = DOMAIN rows
      \/ DOMAIN rows' = DOMAIN rows \cup {a} /\ (Creating(a) \/ Forking(a))
      \/ \E s \in Names : DOMAIN rows' = DOMAIN rows \cup {s}
  <2>1. CASE Accepted(a) \/ Bundled(a) \/ Kept(a) \/ Repeated(a) \/ Halted(a) \/ Reading(a)
    BY <2>1 DEF Accepted, Bundled, Kept, Repeated, Halted, Reading, Quiet
  <2>2. CASE Creating(a) \/ Forking(a)
    BY <2>2 DEF Creating, Forking
  <2>3. CASE Appending(a)
    BY <2>3 DEF Appending
  <2>4. CASE Replacing(a)
    <3>1. w[a].ses \in Names
      BY <1>0, <2>4, ReplacesNamed
    <3> QED BY <2>4, <3>1 DEF Replacing
  <2> QED BY <1>0, <2>1, <2>2, <2>3, <2>4 DEF Moves
<1>4. \A b \in Workers : b \notin Names
  BY SessionsAssumption
<1>5. ASSUME NEW b \in Workers \ {a},
             w'[b].pc = "idle" \/ (w'[b].pc = "busy" /\ Left(w'[b]) \cap {"create", "fork"} # {})
      PROVE  b \notin DOMAIN rows'
  <2>1. w[b].pc = "idle" \/ (w[b].pc = "busy" /\ Left(w[b]) \cap {"create", "fork"} # {})
    BY <1>2, <1>5 DEF Alike, Left
  <2>2. b \notin DOMAIN rows
    BY <2>1 DEF Unopened
  <2> QED BY <1>3, <1>4, <2>2
<1>6. ASSUME w'[a].pc = "idle" \/ (w'[a].pc = "busy" /\ Left(w'[a]) \cap {"create", "fork"} # {})
      PROVE  a \notin DOMAIN rows'
  <2>1. CASE Accepted(a) \/ Bundled(a)
    <3>1. w[a].pc = "idle" /\ DOMAIN rows' = DOMAIN rows
      BY <2>1 DEF Accepted, Bundled, Quiet
    <3> QED BY <3>1 DEF Unopened
  <2>2. CASE Onward(a)
    <3>1. /\ w[a].pc = "busy" /\ w'[a].pc = "busy"
          /\ w'[a].steps \in {w[a].steps, Tail(w[a].steps), <<>>}
      BY <1>6, <2>2 DEF Onward
    <3>2. /\ Left(w[a]) = {Head(w[a].steps)} \cup TurnSet(Tail(w[a].steps))
          /\ Serving(Head(w[a].steps), w[a].req.do)
          /\ \A x \in TurnSet(Tail(w[a].steps)) :
               /\ Serving(x, w[a].req.do)
               /\ Head(w[a].steps) # "todos" /\ x # "todos" => Place[Head(w[a].steps)] < Place[x]
      BY <3>1, NextOfWorker DEF TypeInv, KeepInv, OwnInv
    <3>3. TurnSet(<<>>) = {}
      BY DEF TurnSet
    <3>4. Left(w'[a]) \subseteq Left(w[a])
      BY <3>1, <3>2, <3>3 DEF Left
    <3>5. a \notin DOMAIN rows
      BY <1>6, <3>1, <3>4 DEF Unopened
    <3>6. ~(Creating(a) \/ Forking(a))
      <4> SUFFICES ASSUME Creating(a) \/ Forking(a) PROVE FALSE
        OBVIOUS
      <4>1. Head(w[a].steps) \in {"create", "fork"} /\ w'[a].steps = Tail(w[a].steps)
        BY DEF Creating, Forking, Advances
      <4>2. ~(Place["fork"] < Place["fork"]) /\ ~(Place["create"] < Place["create"])
            /\ ~(Place["fork"] < Place["create"])
        BY DEF Place
      <4>3. Head(w[a].steps) = "create" => "fork" \notin TurnSet(Tail(w[a].steps))
        BY <3>2 DEF Serving
      <4> QED BY <1>6, <3>1, <3>2, <4>1, <4>2, <4>3 DEF Left
    <3> QED BY <1>3, <1>4, <3>5, <3>6
  <2> QED BY <1>1, <2>1, <2>2
<1> QED BY <1>5, <1>6 DEF Unopened

\* A mark stays.
LEMMA TornGrows ==
  ASSUME NEW a \in Workers, Step(a)
  PROVE  torn \subseteq torn'
<1>1. CASE Accept(a) \/ AcceptImport(a) \/ ReadRow(a) \/ ReadTurns(a) \/ ReadEvents(a)
             \/ ReadTodos(a) \/ Agent(a) \/ ReadItems(a) \/ Admit(a)
  BY <1>1 DEF Accept, AcceptImport, ReadRow, ReadTurns, ReadEvents, ReadTodos, Agent, ReadItems,
     Admit, DbSame
<1>2. CASE NotFound(a) \/ ForkFails(a) \/ NoSuchTodo(a) \/ NoSuchTurn(a) \/ Refuse(a)
             \/ ImportConflict(a) \/ Abandon(a)
  BY <1>2 DEF NotFound, ForkFails, NoSuchTodo, NoSuchTurn, Refuse, ImportConflict, Abandon, Fails,
     DbSame
<1>3. CASE Create(a) \/ Fork(a) \/ AppendTurn(a) \/ SaveTodos(a) \/ SaveState(a)
             \/ RemoveArtifact(a) \/ PruneArtifacts(a)
  BY <1>3 DEF Create, Fork, AppendTurn, SaveTodos, SaveState, RemoveArtifact, PruneArtifacts, Drop
<1>4. CASE RecordRun(a) \/ Attach(a) \/ RestoreItem(a)
  BY <1>4 DEF RecordRun, Attach, RestoreItem, SaveItem
<1>5. CASE ImportSession(a)
  BY <1>5 DEF ImportSession
<1> QED BY <1>1, <1>2, <1>3, <1>4, <1>5 DEF Step

\* A session that no import replaces loses no turn.
LEMMA TurnsOnlyGrow ==
  ASSUME TypeInv, Unopened, NEW a \in Workers, Step(a), NEW s \in Ids, s \notin torn'
  PROVE  s \notin torn /\ TurnSet(turns[s]) \subseteq TurnSet(turns'[s])
<1>0. s \notin torn
  BY TornGrows
<1>1. /\ Moves(a) /\ TurnsTyped /\ turns[s] \in Seq(TurnIds) /\ a \in TurnIds
      /\ Ready /\ Tasked /\ Opened /\ Rowed /\ a \in Ids
  BY StepIsMove DEF TypeInv, KeepInv, OwnInv, TurnsTyped, TurnIds, Ids
<1>2. TurnSet(<<>>) = {}
  BY DEF TurnSet
<1>3. CASE Accepted(a) \/ Bundled(a) \/ Kept(a) \/ Repeated(a) \/ Halted(a) \/ Reading(a)
  BY <1>0, <1>3 DEF Accepted, Bundled, Kept, Repeated, Halted, Reading, Quiet
<1>4. CASE Creating(a) \/ Forking(a)
  <2>1. w[a].pc = "busy" /\ Head(w[a].steps) \in {"create", "fork"}
    BY <1>4 DEF Creating, Forking, Advances
  <2>2. Head(w[a].steps) \in Left(w[a])
    BY <1>1, <2>1, HeadAndTail DEF Left
  <2>3. turns[a] = <<>>
    BY <1>1, <2>1, <2>2 DEF Unopened, Rowed
  <2>4. s # a => turns'[s] = turns[s]
    BY <1>1, <1>4 DEF Creating, Forking, TurnsTyped
  <2> QED BY <1>0, <1>2, <2>3, <2>4
<1>5. CASE Appending(a)
  <2>1. turns'[s] = turns[s] \/ turns'[s] = Append(turns[s], a)
    BY <1>1, <1>5 DEF Appending, TurnsTyped
  <2>2. TurnSet(Append(turns[s], a)) = TurnSet(turns[s]) \cup {a}
    BY <1>1, AppendTurns
  <2> QED BY <1>0, <2>1, <2>2
<1>6. CASE Replacing(a)
  <2>1. w[a].pc = "busy" /\ Head(w[a].steps) = "session"
        /\ turns' = [turns EXCEPT ![w[a].ses] = w[a].turns]
    BY <1>6 DEF Replacing
  <2>2. s # w[a].ses => turns'[s] = turns[s]
    BY <1>1, <2>1 DEF TurnsTyped
  <2>3. ASSUME s = w[a].ses PROVE turns[s] = <<>> \/ turns'[s] = turns[s]
    <3>1. CASE ImportSession(a)
      <4>1. s \notin DOMAIN rows
        BY <2>3, <3>1 DEF ImportSession
      <4> QED BY <1>1, <4>1 DEF Rowed
    <3>2. CASE turns' = turns
      BY <3>2
    <3>3. ImportSession(a) \/ turns' = turns
      <4>1. Step(a) => \/ ImportSession(a) \/ turns' = turns
                       \/ Create(a) \/ Fork(a) \/ AppendTurn(a)
        BY FailuresWork DEF Step, Accept, AcceptImport, ReadRow, ReadTurns, ReadEvents, ReadTodos,
           Agent, ReadItems, Admit, DbSame, RecordRun, SaveTodos, SaveState, Attach, RemoveArtifact,
           PruneArtifacts, Drop, RestoreItem
      <4>2. ~(Create(a) \/ Fork(a) \/ AppendTurn(a))
        BY <2>1 DEF Create, Fork, AppendTurn, At
      <4> QED BY <4>1, <4>2
    <3> QED BY <3>1, <3>2, <3>3
  <2> QED BY <1>0, <1>2, <2>2, <2>3
<1> QED BY <1>1, <1>3, <1>4, <1>5, <1>6 DEF Moves

-----------------------------------------------------------------------------
(* What an export shows.                                                    *)

\* Who has saved its turn finds it there, until the session is replaced.
TurnSaved ==
  \A a \in Workers :
    Answering(a) /\ w[a].ses \notin torn => w[a].ses \in Ids /\ a \in TurnSet(turns[w[a].ses])

\* What a worker has read, or has imported, is there.
ReadThere ==
  \A a \in Workers :
    w[a].pc = "busy" /\ w[a].ses # None /\ w[a].ses \notin torn
      /\ (w[a].req.do = "import" => "session" \notin Left(w[a]))
      => TurnSet(w[a].turns) \subseteq TurnSet(turns[w[a].ses])

\* A turn that was saved stays saved.
LEMMA TurnSavedStays ==
  ASSUME TypeInv, Unopened, TurnSaved, NEW a \in Workers, Step(a)
  PROVE  TurnSaved'
<1>0. /\ Moves(a) /\ Ready /\ Tasked /\ Settled /\ TurnsTyped /\ Opened /\ Rowed /\ a \in TurnIds
      /\ torn \subseteq torn'
  BY StepIsMove, TornGrows DEF TypeInv, KeepInv, OwnInv, TurnIds
<1>1. Accepted(a) \/ Bundled(a) \/ Onward(a)
  BY <1>0, MovesOn
<1>2. \A b \in Workers \ {a} : Alike(w[b], w'[b])
  BY <1>1 DEF Accepted, Bundled, Onward, OthersKeep
<1>3. ASSUME NEW b \in Workers \ {a}, Answering(b)', w'[b].ses \notin torn'
      PROVE  w'[b].ses \in Ids /\ b \in TurnSet(turns'[w'[b].ses])
  <2>1. Answering(b) /\ w'[b].ses = w[b].ses
    BY <1>2, <1>3 DEF Answering, Alike
  <2>2. w[b].ses \in Ids /\ b \in TurnSet(turns[w[b].ses])
    BY <1>0, <1>3, <2>1 DEF TurnSaved
  <2> QED BY <1>3, <2>1, <2>2, TurnsOnlyGrow
<1>4. ASSUME Answering(a)', w'[a].ses \notin torn'
      PROVE  w'[a].ses \in Ids /\ a \in TurnSet(turns'[w'[a].ses])
  <2>1. CASE Accepted(a) \/ Bundled(a)
    <3>1. w'[a].req \in Request /\ w'[a].steps = Steps(w'[a].req)
      BY <2>1 DEF Accepted, Bundled
    <3>2. FALSE
      BY <1>4, <3>1, NewTask DEF Answering
    <3> QED BY <3>2
  <2>2. CASE Onward(a)
    <3>0. w[a].pc = "busy" /\ w'[a].req = w[a].req /\ w'[a].pc \in {"busy", "done"}
      BY <1>4, <2>2 DEF Onward, Answering
    <3>1. TurnSet(w[a].steps) = {Head(w[a].steps)} \cup TurnSet(Tail(w[a].steps))
          /\ (Head(w[a].steps) = "session" => w[a].req.do = "import")
      BY <1>0, <3>0, HeadAndTail
    <3>2. CASE Answering(a)
      <4>1. TurnSet(w[a].steps) \cap {"create", "fork"} = {}
        BY <1>0, <3>2 DEF Settled
      <4>2. Head(w[a].steps) \notin {"create", "fork"}
        BY <3>1, <4>1
      <4>3. w'[a].ses = w[a].ses
        BY <1>0, <3>0, <4>2 DEF Moves, Accepted, Bundled, Kept, Repeated, Halted, Halts, Reading,
           Creating, Forking, Appending, Replacing, Advances
      <4>4. w[a].ses \in Ids /\ a \in TurnSet(turns[w[a].ses])
        BY <1>0, <1>4, <3>2, <4>3 DEF TurnSaved
      <4> QED BY <1>4, <4>3, <4>4, TurnsOnlyGrow
    <3>3. CASE ~Answering(a)
      <4>1. "append" \in TurnSet(w[a].steps) /\ "append" \notin TurnSet(w'[a].steps)
            /\ w[a].req.do \in {"run", "fork"}
        BY <1>4, <3>0, <3>3 DEF Answering, MakesTurn
      <4>2. Head(w[a].steps) # "append" => w'[a].steps # Tail(w[a].steps)
        BY <3>1, <4>1
      <4>3. Appending(a)
        BY <1>0, <3>0, <3>1, <4>1, <4>2 DEF Moves, Accepted, Bundled, Kept, Repeated, Halted, Halts,
           Reading, Creating, Forking, Replacing, Advances
      <4>4. w[a].ses \in Ids
        BY <1>0, <4>3, AppendsToRow
      <4>5. turns'[w[a].ses] = Append(turns[w[a].ses], a) /\ turns[w[a].ses] \in Seq(TurnIds)
            /\ w'[a].ses = w[a].ses
        BY <1>0, <4>3, <4>4 DEF Appending, Advances, TurnsTyped
      <4>6. TurnSet(Append(turns[w[a].ses], a)) = TurnSet(turns[w[a].ses]) \cup {a}
        BY <1>0, <4>5, AppendTurns
      <4> QED BY <4>4, <4>5, <4>6
    <3> QED BY <3>2, <3>3
  <2> QED BY <1>1, <2>1, <2>2
<1> QED BY <1>3, <1>4 DEF TurnSaved

\* What was read stays there.
LEMMA ReadThereStays ==
  ASSUME TypeInv, Unopened, ReadThere, NEW a \in Workers, Step(a)
  PROVE  ReadThere'
<1>0. /\ Moves(a) /\ Ready /\ Tasked /\ Housed /\ TurnsTyped /\ Blanked /\ Opened /\ Rowed
      /\ torn \subseteq torn' /\ a \in Ids
  BY StepIsMove, TornGrows DEF TypeInv, KeepInv, OwnInv, Ids
<1>1. Moved(a)
  BY StepWorks
<1>2. \A b \in Workers \ {a} : Like(w[b], w'[b])
  BY <1>1, WholeStays
<1>3. TurnSet(<<>>) = {}
  BY DEF TurnSet
<1>4. ASSUME NEW b \in Workers \ {a}, w'[b].pc = "busy", w'[b].ses # None, w'[b].ses \notin torn',
             w'[b].req.do = "import" => "session" \notin Left(w'[b])
      PROVE  TurnSet(w'[b].turns) \subseteq TurnSet(turns'[w'[b].ses])
  <2>1. /\ w[b].pc = "busy" /\ w'[b].ses = w[b].ses /\ w'[b].turns = w[b].turns
        /\ w'[b].req = w[b].req /\ Left(w'[b]) = Left(w[b])
    BY <1>2, <1>4 DEF Like, Holds, Left
  <2>2. TurnSet(w[b].turns) \subseteq TurnSet(turns[w[b].ses])
    BY <1>0, <1>4, <2>1 DEF ReadThere
  <2>3. w[b].ses \in Ids
    BY <1>0, <1>4, <2>1 DEF Housed, Ids
  <2> QED BY <1>4, <2>1, <2>2, <2>3, TurnsOnlyGrow
<1>5. ASSUME w'[a].pc = "busy", w'[a].ses # None, w'[a].ses \notin torn',
             w'[a].req.do = "import" => "session" \notin Left(w'[a])
      PROVE  TurnSet(w'[a].turns) \subseteq TurnSet(turns'[w'[a].ses])
  <2>0. w[a].pc = "busy" =>
          /\ Left(w[a]) = {Head(w[a].steps)} \cup TurnSet(Tail(w[a].steps))
          /\ Head(w[a].steps) = "create" => w[a].turns = <<>>
    BY <1>0, HeadAndTail DEF Left, Blanked
  <2>1. CASE Accepted(a)
    BY <1>3, <2>1 DEF Accepted
  <2>2. CASE Bundled(a)
    <3>1. w'[a].req \in Request /\ w'[a].req.do = "import" /\ w'[a].steps = Steps(w'[a].req)
      BY <2>2 DEF Bundled
    <3>2. w'[a].steps = <<"admit", "session", "restore">>
      BY <3>1 DEF Steps, ImportSteps
    <3>3. 2 \in DOMAIN w'[a].steps /\ w'[a].steps[2] = "session"
      BY <3>2
    <3> QED BY <1>5, <3>1, <3>3 DEF Left, TurnSet
  <2>3. CASE Kept(a) \/ Repeated(a)
    <3>1. /\ w[a].pc = "busy" /\ w'[a].ses = w[a].ses /\ w'[a].turns = w[a].turns
          /\ turns' = turns /\ w'[a].req = w[a].req
          /\ w'[a].steps = w[a].steps
             \/ (w'[a].steps = Tail(w[a].steps) /\ Head(w[a].steps) # "session")
      BY <1>5, <2>3 DEF Kept, Repeated, Quiet, Advances
    <3>2. "session" \in Left(w[a]) => "session" \in Left(w'[a])
      BY <2>0, <3>1 DEF Left
    <3> QED BY <1>0, <1>5, <3>1, <3>2 DEF ReadThere
  <2>4. CASE Halted(a)
    BY <1>5, <2>4 DEF Halted, Halts
  <2>5. CASE Reading(a)
    BY <1>5, <2>5 DEF Reading, Quiet, Advances
  <2>6. CASE Creating(a)
    BY <1>3, <1>5, <2>0, <2>6 DEF Creating, Advances
  <2>7. CASE Forking(a)
    <3>1. turns'[a] = w'[a].turns /\ w'[a].ses = a
      BY <1>0, <1>5, <2>7 DEF Forking, Advances, TurnsTyped
    <3> QED BY <3>1
  <2>8. CASE Appending(a)
    <3>1. /\ w[a].pc = "busy" /\ w'[a].ses = w[a].ses /\ w'[a].turns = w[a].turns
          /\ w'[a].req = w[a].req /\ Head(w[a].steps) = "append" /\ w'[a].steps = Tail(w[a].steps)
      BY <1>5, <2>8 DEF Appending, Advances
    <3>2. w[a].ses \in Ids
      BY <1>0, <2>8, AppendsToRow
    <3>3. "session" \in Left(w[a]) => "session" \in Left(w'[a])
      BY <2>0, <3>1 DEF Left
    <3>4. TurnSet(w[a].turns) \subseteq TurnSet(turns[w[a].ses])
      BY <1>0, <1>5, <3>1, <3>3 DEF ReadThere
    <3> QED BY <1>5, <3>1, <3>2, <3>4, TurnsOnlyGrow
  <2>9. CASE Replacing(a)
    <3>1. w'[a].ses = w[a].ses /\ (w'[a].turns = w[a].turns \/ w'[a].turns = <<>>)
          /\ turns' = [turns EXCEPT ![w[a].ses] = w[a].turns]
      BY <2>9 DEF Replacing
    <3>2. w[a].ses \in Ids
      BY <1>0, <1>5, <3>1 DEF Housed, Ids
    <3>3. turns'[w[a].ses] = w[a].turns
      BY <1>0, <3>1, <3>2 DEF TurnsTyped
    <3> QED BY <1>3, <3>1, <3>3
  <2> QED BY <1>0, <2>1, <2>2, <2>3, <2>4, <2>5, <2>6, <2>7, <2>8, <2>9 DEF Moves
<1> QED BY <1>4, <1>5 DEF ReadThere

\* What an import does.
LEMMA ImportGoes ==
  ASSUME TypeInv, NEW a \in Workers, Step(a), w[a].pc = "busy", w[a].req.do = "import"
  PROVE  (Failed(a) /\ DbSame) \/ Admit(a) \/ ImportSession(a) \/ RestoreItem(a)
<1> DEFINE h == Head(w[a].steps)
<1>1. h \in {"admit", "session", "restore"}
  BY NextOfWorker DEF TypeInv, KeepInv, OwnInv, Serving
<1>2. NotFound(a) \/ ForkFails(a) \/ NoSuchTodo(a) \/ NoSuchTurn(a) \/ Refuse(a)
        \/ ImportConflict(a) \/ Abandon(a) => Failed(a) /\ DbSame
  BY FailuresWork
<1>3. ~(Accept(a) \/ AcceptImport(a))
  BY DEF Accept, AcceptImport
<1>4. ~(ReadRow(a) \/ ReadTurns(a) \/ ReadEvents(a) \/ ReadTodos(a) \/ Create(a) \/ Fork(a)
          \/ Agent(a) \/ AppendTurn(a) \/ RecordRun(a) \/ SaveTodos(a) \/ SaveState(a) \/ Attach(a)
          \/ RemoveArtifact(a) \/ PruneArtifacts(a))
  BY <1>1 DEF ReadRow, ReadTurns, ReadEvents, ReadTodos, Create, Fork, Agent, AppendTurn,
     RecordRun, SaveTodos, SaveState, Attach, RemoveArtifact, PruneArtifacts, At
<1>5. ~ReadItems(a)
  BY <1>1 DEF ReadItems, Kinds
<1> QED BY <1>2, <1>3, <1>4, <1>5 DEF Step

\* What an export does.
LEMMA ExportGoes ==
  ASSUME TypeInv, NEW a \in Workers, Step(a), w[a].pc = "busy", w[a].req.do = "export"
  PROVE  \/ Failed(a) /\ DbSame
         \/ ReadRow(a) \/ ReadTurns(a) \/ ReadEvents(a) \/ ReadTodos(a) \/ ReadItems(a)
<1> DEFINE h == Head(w[a].steps)
<1>1. h \in {"row", "turns", "todos", "events", "checkpoint", "artifact", "run"}
  BY NextOfWorker DEF TypeInv, KeepInv, OwnInv, Serving
<1>2. NotFound(a) \/ ForkFails(a) \/ NoSuchTodo(a) \/ NoSuchTurn(a) \/ Refuse(a)
        \/ ImportConflict(a) \/ Abandon(a) => Failed(a) /\ DbSame
  BY FailuresWork
<1>3. ~(Accept(a) \/ AcceptImport(a))
  BY DEF Accept, AcceptImport
<1>4. ~(Create(a) \/ Fork(a) \/ Agent(a) \/ AppendTurn(a) \/ RecordRun(a) \/ SaveTodos(a)
          \/ SaveState(a) \/ Attach(a) \/ RemoveArtifact(a) \/ PruneArtifacts(a) \/ Admit(a)
          \/ ImportSession(a) \/ RestoreItem(a))
  BY <1>1 DEF Create, Fork, Agent, AppendTurn, RecordRun, SaveTodos, SaveState, Attach,
     RemoveArtifact, PruneArtifacts, Admit, ImportSession, RestoreItem, At
<1> QED BY <1>2, <1>3, <1>4 DEF Step

\* Whoever watches hears of every write.
LEMMA HeardOrSame ==
  ASSUME TypeInv, NEW a \in Workers, Step(a)
  PROVE  Heard(a) \/ DbSame
<1>1. CASE Create(a) \/ Fork(a)
  BY <1>1, CreateWorks, ForkWorks
<1>2. CASE AppendTurn(a) \/ RecordRun(a) \/ SaveState(a) \/ RemoveArtifact(a) \/ PruneArtifacts(a)
  BY <1>2, PlainWrites
<1>3. CASE SaveTodos(a) \/ Attach(a)
  BY <1>3, SaveTodosWorks, AttachWorks
<1>4. CASE ImportSession(a) \/ RestoreItem(a)
  BY <1>4, ImportSessionWorks, RestoreItemWorks
<1>5. CASE NotFound(a) \/ ForkFails(a) \/ NoSuchTodo(a) \/ NoSuchTurn(a) \/ Refuse(a)
             \/ ImportConflict(a) \/ Abandon(a)
  BY <1>5, FailuresWork
<1>6. CASE Accept(a) \/ AcceptImport(a) \/ ReadRow(a) \/ ReadTurns(a) \/ ReadEvents(a)
             \/ ReadTodos(a) \/ Agent(a) \/ ReadItems(a) \/ Admit(a)
  BY <1>6 DEF Accept, AcceptImport, ReadRow, ReadTurns, ReadEvents, ReadTodos, Agent, ReadItems,
     Admit
<1> QED BY <1>1, <1>2, <1>3, <1>4, <1>5, <1>6 DEF Step

\* An import that was admitted is about its turns.
Admitted ==
  \A a \in Workers :
    w[a].pc = "busy" /\ w[a].req.do = "import" /\ "admit" \notin Left(w[a]) => KnownItems(w[a])

\* It goes on being so.
LEMMA AdmittedStays ==
  ASSUME TypeInv, Admitted, NEW a \in Workers, Step(a)
  PROVE  Admitted'
<1>1. Moved(a)
  BY StepWorks
<1>2. \A b \in Workers \ {a} : Like(w[b], w'[b])
  BY <1>1, WholeStays
<1>3. ASSUME NEW r, NEW d, KnownItems(r), d.items = r.items, d.turns = r.turns
      PROVE  KnownItems(d)
  BY <1>3 DEF KnownItems
<1>4. ASSUME NEW b \in Workers \ {a}, w'[b].pc = "busy", w'[b].req.do = "import",
             "admit" \notin Left(w'[b])
      PROVE  KnownItems(w'[b])
  <2>1. KnownItems(w[b])
    BY <1>2, <1>4 DEF Admitted, Like, Left
  <2> QED BY <1>2, <1>3, <2>1 DEF Like, Holds
<1>5. ASSUME w'[a].pc = "busy", w'[a].req.do = "import", "admit" \notin Left(w'[a])
      PROVE  KnownItems(w'[a])
  <2>1. CASE Accepts(a)
    BY <1>5, <2>1 DEF Accepts
  <2>2. CASE \E b \in Bundles : Takes(a, b)
    <3>1. w'[a].req \in Request /\ w'[a].steps = Steps(w'[a].req)
      BY <2>2 DEF Takes
    <3>2. w'[a].steps = <<"admit", "session", "restore">>
      BY <1>5, <3>1 DEF Steps, ImportSteps
    <3>3. 1 \in DOMAIN w'[a].steps /\ w'[a].steps[1] = "admit"
      BY <3>2
    <3> QED BY <1>5, <3>3 DEF Left, TurnSet
  <2>3. CASE Failed(a)
    BY <1>5, <2>3 DEF Failed
  <2>4. CASE \E r : Progress(a, r)
    <3>1. w[a].pc = "busy" /\ w[a].req.do = "import"
      BY <1>5, <2>4 DEF Progress, Works, Taken, Gone
    <3>2. Left(w[a]) = {Head(w[a].steps)} \cup TurnSet(Tail(w[a].steps))
      BY <3>1, NextOfWorker DEF TypeInv, KeepInv, OwnInv
    <3>3. CASE Admit(a)
      <4>1. KnownItems(w[a])
        BY <3>3 DEF Admit, Admissible
      <4>2. Holds(w'[a], w[a])
        BY <1>5, <3>3, AdmitWorks, Follows DEF Worked
      <4> QED BY <1>3, <4>1, <4>2 DEF Holds
    <3>4. CASE ImportSession(a)
      <4>1. PICK r : /\ Works(a, r) /\ Only(w[a], r, {"steps"})
                     /\ r.steps = IF w[a].left = {} THEN <<"session">> ELSE w[a].steps
        BY <3>4, ImportSessionWorks
      <4>2. w'[a].items = w[a].items /\ w'[a].turns = w[a].turns /\ w'[a].steps = Tail(r.steps)
        BY <1>5, <4>1 DEF Works, Gone, Only, Fields, Holds
      <4>3. Tail(<<"session">>) = <<>> /\ ~(Len(<<>>) > 0)
        OBVIOUS
      <4>4. Len(w'[a].steps) > 0
        <5>1. Gone(r, w'[a])
          BY <4>1 DEF Works
        <5>2. Tail(r.steps) # <<>>
          BY <1>5, <5>1 DEF Gone
        <5>3. w'[a].steps \in Seq(StepNames)
          BY <4>1 DEF Works, Whole, WorkerOK
        <5> QED BY <4>2, <5>2, <5>3, EmptySeq
      <4>5. w'[a].steps = Tail(w[a].steps)
        BY <4>1, <4>2, <4>3, <4>4
      <4>6. Head(w[a].steps) # "admit"
        BY <3>4 DEF ImportSession, At
      <4>7. KnownItems(w[a])
        BY <1>5, <3>1, <3>2, <4>5, <4>6 DEF Admitted, Left
      <4> QED BY <1>3, <4>2, <4>7
    <3>5. CASE RestoreItem(a)
      <4>0. PICK k \in w[a].left : \E r :
              /\ Works(a, r) /\ Only(w[a], r, {"left", "steps"}) /\ r.left = w[a].left \ {k}
              /\ Tail(r.steps) = IF r.left = {} THEN Tail(w[a].steps) ELSE w[a].steps
        BY <3>5, RestoreItemWorks
      <4>1. PICK r :
              /\ Works(a, r) /\ Only(w[a], r, {"left", "steps"}) /\ r.left = w[a].left \ {k}
              /\ Tail(r.steps) = IF r.left = {} THEN Tail(w[a].steps) ELSE w[a].steps
        BY <4>0
      <4>2. w'[a].items = w[a].items /\ w'[a].turns = w[a].turns /\ w'[a].steps = Tail(r.steps)
        BY <1>5, <4>1 DEF Works, Gone, Only, Fields, Holds
      <4>3. Head(w[a].steps) # "admit"
        BY <3>5 DEF RestoreItem, At
      <4>4. w'[a].steps = Tail(w[a].steps) \/ w'[a].steps = w[a].steps
        BY <4>1, <4>2
      <4>5. KnownItems(w[a])
        BY <1>5, <3>1, <3>2, <4>3, <4>4 DEF Admitted, Left
      <4> QED BY <1>3, <4>2, <4>5
    <3> QED BY <1>5, <3>1, <3>3, <3>4, <3>5, ImportGoes DEF Failed
  <2> QED BY <1>1, <2>1, <2>2, <2>3, <2>4 DEF Moved
<1> QED BY <1>4, <1>5 DEF Admitted

\* What is stored with a session is about turns it has.
ItemsKnown ==
  \A k \in DOMAIN items :
    items[k].ses \notin torn => items[k].turn \in TurnSet(turns[items[k].ses]) \cup {None}

\* An item that is about a turn of its session may be saved.
LEMMA SavedItemIsKnown ==
  ASSUME ItemsTyped, MarksTyped, ItemsKnown, turns' = turns,
         NEW k \in Items, NEW s \in Ids, NEW turn \in TurnIds \cup {None}, SaveItem(k, s, turn),
         s \notin torn => turn \in TurnSet(turns[s]) \cup {None}
  PROVE  ItemsKnown'
<1>1. /\ DOMAIN items' = DOMAIN items \cup {k}
      /\ items'[k].ses = Owner(k, s) /\ items'[k].turn = turn
      /\ \A l \in DOMAIN items \ {k} : items'[l] = items[l]
      /\ torn' = IF Owner(k, s) = s THEN torn ELSE torn \cup {Owner(k, s)}
  BY SaveItemSaves
<1> SUFFICES ASSUME NEW l \in DOMAIN items', items'[l].ses \notin torn'
             PROVE  items'[l].turn \in TurnSet(turns[items'[l].ses]) \cup {None}
  BY DEF ItemsKnown
<1>2. CASE l = k
  BY <1>1, <1>2
<1>3. CASE l # k
  BY <1>1, <1>3 DEF ItemsKnown
<1> QED BY <1>2, <1>3

\* Who records the outcome of a run has saved its turn.
LEMMA RecordsSaved ==
  ASSUME TypeInv, NEW a \in Workers, At(a, "record")
  PROVE  Answering(a)
<1>1. /\ Left(w[a]) = {"record"} \cup TurnSet(Tail(w[a].steps))
      /\ Serving("record", w[a].req.do)
      /\ \A x \in TurnSet(Tail(w[a].steps)) : "record" # "todos" /\ x # "todos" =>
           Place["record"] < Place[x]
  BY NextOfWorker DEF TypeInv, KeepInv, OwnInv, At
<1>2. ~(Place["record"] < Place["append"])
  BY DEF Place
<1>3. "append" \notin Left(w[a])
  BY <1>1, <1>2
<1> QED BY <1>1, <1>3 DEF At, Serving, Answering, Left

\* Items stay about turns of their sessions.
LEMMA ItemsStayKnown ==
  ASSUME TypeInv, Unopened, TurnSaved, ReadThere, Admitted, ItemsKnown, NEW a \in Workers, Step(a)
  PROVE  ItemsKnown'
<1>0. ItemsTyped /\ MarksTyped /\ a \in TurnIds /\ torn \subseteq torn'
  BY TornGrows DEF TypeInv, TurnIds
<1>1. ASSUME NEW keys, items' = [k \in DOMAIN items \ keys |-> items[k]]
      PROVE  ItemsKnown'
  <2> SUFFICES ASSUME NEW l \in DOMAIN items', items'[l].ses \notin torn'
               PROVE  items'[l].turn \in TurnSet(turns'[items'[l].ses]) \cup {None}
    BY DEF ItemsKnown
  <2>1. l \in DOMAIN items /\ items'[l] = items[l]
    BY <1>1
  <2>2. items[l].ses \in Ids
    BY <1>0, <2>1 DEF ItemsTyped, ItemShape
  <2>3. items[l].turn \in TurnSet(turns[items[l].ses]) \cup {None}
    BY <1>0, <2>1 DEF ItemsKnown
  <2>4. TurnSet(turns[items[l].ses]) \subseteq TurnSet(turns'[items[l].ses])
    BY <2>1, <2>2, TurnsOnlyGrow
  <2> QED BY <2>1, <2>3, <2>4
<1>2. ASSUME items' = items PROVE ItemsKnown'
  <2> SUFFICES ASSUME NEW l \in DOMAIN items, items[l].ses \notin torn'
               PROVE  items[l].turn \in TurnSet(turns'[items[l].ses]) \cup {None}
    BY <1>2 DEF ItemsKnown
  <2>2. items[l].ses \in Ids
    BY <1>0 DEF ItemsTyped, ItemShape
  <2>3. items[l].turn \in TurnSet(turns[items[l].ses]) \cup {None}
    BY <1>0 DEF ItemsKnown
  <2>4. TurnSet(turns[items[l].ses]) \subseteq TurnSet(turns'[items[l].ses])
    BY <2>2, TurnsOnlyGrow
  <2> QED BY <2>3, <2>4
<1>3. ASSUME RecordRun(a) PROVE ItemsKnown'
  <2>1. /\ w[a].pc = "busy" /\ Head(w[a].steps) = "record"
        /\ SaveItem(<<"run", a>>, w[a].ses, a) /\ turns' = turns
    BY <1>3 DEF RecordRun, At
  <2>2. w[a].ses \in Ids /\ <<"run", a>> \in Items
    BY <2>1, AtWork DEF Items, Kinds
  <2>3. Answering(a)
    BY <2>1, RecordsSaved DEF At
  <2>4. w[a].ses \notin torn => a \in TurnSet(turns[w[a].ses])
    BY <2>3 DEF TurnSaved
  <2> QED BY <1>0, <2>1, <2>2, <2>4, SavedItemIsKnown
<1>4. ASSUME Attach(a) PROVE ItemsKnown'
  <2> DEFINE it == Attached(a)
  <2>1. w[a].pc = "busy" /\ Head(w[a].steps) = "attach"
    BY <1>4 DEF Attach, At
  <2>2. w[a].ses \in Ids /\ w[a].turns \in Seq(TurnIds) /\ w[a].req \in Request /\ w[a].ses # None
    BY <2>1, AtWork, SessionsAssumption DEF WorkerOK
  <2>3. Serving("attach", w[a].req.do)
    BY <2>1, NextOfWorker DEF TypeInv, KeepInv, OwnInv
  <2>4. it.key \in Items
    <3>1. CASE w[a].req.do = "compact"
      BY <3>1 DEF Attached, Items, Kinds
    <3>2. CASE w[a].req.do # "compact"
      <4>1. w[a].req.id \in ItemIds
        BY <2>2, <2>3, <3>2, RequestFields DEF Serving
      <4> QED BY <2>3, <3>2, <4>1 DEF Attached, Items, Kinds, Serving
    <3> QED BY <3>1, <3>2
  <2>5. it.turn \in TurnSet(w[a].turns) \cup {None}
    BY <1>4 DEF Attach
  <2>6. SaveItem(it.key, w[a].ses, it.turn) /\ turns' = turns
    BY <1>4 DEF Attach
  <2>7. w[a].ses \notin torn => TurnSet(w[a].turns) \subseteq TurnSet(turns[w[a].ses])
    BY <2>1, <2>2, <2>3 DEF ReadThere, Serving
  <2>8. it.turn \in TurnIds \cup {None}
    BY <2>2, <2>5, SummaryIsOfTurns
  <2> HIDE DEF it
  <2> QED BY <1>0, <2>2, <2>4, <2>5, <2>6, <2>7, <2>8, SavedItemIsKnown
<1>5. ASSUME RestoreItem(a) PROVE ItemsKnown'
  <2>1. PICK k \in w[a].left : SaveItem(k, w[a].ses, w[a].items[k]) /\ turns' = turns
    BY <1>5 DEF RestoreItem
  <2>2. w[a].pc = "busy" /\ Head(w[a].steps) = "restore"
    BY <1>5 DEF RestoreItem, At
  <2>3. w[a].ses \in Ids /\ ItemTurns(w[a].items) /\ w[a].ses # None
    BY <2>2, AtWork, SessionsAssumption DEF WorkerOK
  <2>4. /\ Left(w[a]) = {"restore"} \cup TurnSet(Tail(w[a].steps))
        /\ w[a].req.do = "import"
        /\ \A x \in TurnSet(Tail(w[a].steps)) : x # "todos" => Place["restore"] < Place[x]
    BY <2>2, NextOfWorker DEF TypeInv, KeepInv, OwnInv, Serving
  <2>5. ~(Place["restore"] < Place["admit"]) /\ ~(Place["restore"] < Place["session"])
    BY DEF Place
  <2>6. "admit" \notin Left(w[a]) /\ "session" \notin Left(w[a])
    BY <2>4, <2>5
  <2>7. k \in DOMAIN w[a].items
    BY <2>2, <2>4 DEF TypeInv, Listed
  <2>8. k \in Items /\ w[a].items[k] \in TurnIds \cup {None}
    BY <2>3, <2>7 DEF ItemTurns
  <2>9. w[a].items[k] \in TurnSet(w[a].turns) \cup {None}
    BY <2>2, <2>4, <2>6, <2>7 DEF Admitted, KnownItems
  <2>10. w[a].ses \notin torn => TurnSet(w[a].turns) \subseteq TurnSet(turns[w[a].ses])
    BY <2>2, <2>3, <2>6 DEF ReadThere
  <2> QED BY <1>0, <2>1, <2>3, <2>8, <2>9, <2>10, SavedItemIsKnown
<1>6. ASSUME RemoveArtifact(a) \/ PruneArtifacts(a) PROVE ItemsKnown'
  <2>1. PICK keys : items' = [k \in DOMAIN items \ keys |-> items[k]]
    BY <1>6 DEF RemoveArtifact, PruneArtifacts, Drop
  <2> QED BY <1>1, <2>1
<1>7. ASSUME Create(a) \/ Fork(a) \/ AppendTurn(a) \/ SaveTodos(a) \/ SaveState(a)
               \/ ImportSession(a)
      PROVE  items' = items
  BY <1>7 DEF Create, Fork, AppendTurn, SaveTodos, SaveState, ImportSession
<1>8. ASSUME NotFound(a) \/ ForkFails(a) \/ NoSuchTodo(a) \/ NoSuchTurn(a) \/ Refuse(a)
               \/ ImportConflict(a) \/ Abandon(a)
      PROVE  items' = items
  BY <1>8, FailuresWork DEF DbSame
<1>9. ASSUME Accept(a) \/ AcceptImport(a) \/ ReadRow(a) \/ ReadTurns(a) \/ ReadEvents(a)
               \/ ReadTodos(a) \/ Agent(a) \/ ReadItems(a) \/ Admit(a)
      PROVE  items' = items
  BY <1>9 DEF Accept, AcceptImport, ReadRow, ReadTurns, ReadEvents, ReadTodos, Agent, ReadItems,
     Admit, DbSame
<1> QED BY <1>2, <1>3, <1>4, <1>5, <1>6, <1>7, <1>8, <1>9 DEF Step

\* What an export that nobody disturbs has read: nothing, or the session as it
\* is; and what it has is about its turns.
ExportHeld(a) ==
  /\ w[a].pc = "busy" =>
       IF "turns" \in Left(w[a]) THEN w[a].events = {} /\ DOMAIN w[a].items = {}
       ELSE w[a].turns = turns[w[a].ses]
  /\ KnownEvents(w[a]) /\ KnownItems(w[a])
Undisturbed(a) ==
  /\ w[a].pc \in {"busy", "done"} /\ w[a].req.do = "export"
  /\ w[a].alone /\ ~w[a].stale /\ w[a].ses \notin torn
ExportsHeld == \A a \in Workers : Undisturbed(a) => ExportHeld(a)

\* The exports of others.
LEMMA OtherExportsHeld ==
  ASSUME TypeInv, ExportsHeld, NEW a \in Workers, Step(a), NEW b \in Workers \ {a},
         Undisturbed(b)'
  PROVE  ExportHeld(b)'
<1>1. Like(w[b], w'[b]) /\ torn \subseteq torn'
  BY StepWorks, WholeStays, TornGrows
<1>2. Undisturbed(b)
  BY <1>1 DEF Undisturbed, Like
<1>3. ExportHeld(b)
  BY <1>2 DEF ExportsHeld
<1>4. w[b].pc = "busy" => turns' = turns
  <2>1. w[b].pc = "busy" => Watching(w[b])
    BY <1>2 DEF Undisturbed, Watching
  <2>2. CASE Heard(a)
    BY <1>1, <2>1, <2>2 DEF Heard, Undisturbed
  <2>3. CASE DbSame
    BY <2>3 DEF DbSame
  <2> QED BY <2>2, <2>3, HeardOrSame
<1>5. /\ w'[b].pc = w[b].pc /\ Left(w'[b]) = Left(w[b]) /\ w'[b].ses = w[b].ses
      /\ w'[b].turns = w[b].turns /\ w'[b].events = w[b].events /\ w'[b].items = w[b].items
  BY <1>1 DEF Like, Holds, Left
<1> QED BY <1>3, <1>4, <1>5 DEF ExportHeld, KnownEvents, KnownItems

\* The export that takes the step.
LEMMA OwnExportHeld ==
  ASSUME TypeInv, ItemsKnown, ExportsHeld, NEW a \in Workers, Step(a), Undisturbed(a)'
  PROVE  ExportHeld(a)'
<1> DEFINE h == Head(w[a].steps)
<1>1. Moved(a) /\ torn \subseteq torn'
  BY StepWorks, TornGrows
<1>2. CASE Accepts(a)
  <2>1. /\ w'[a].req \in Request /\ w'[a].req.do = "export" /\ w'[a].steps = Steps(w'[a].req)
        /\ Holds(w'[a], Blank)
    BY <1>2 DEF Accepts, Undisturbed
  <2>2. w'[a].steps = <<"row", "turns", "events", "todos", "checkpoint", "artifact", "run">>
    BY <2>1 DEF Steps, ExportSteps
  <2>3. 2 \in DOMAIN w'[a].steps /\ w'[a].steps[2] = "turns"
    BY <2>2
  <2>4. w'[a].events = {} /\ w'[a].items = <<>> /\ DOMAIN <<>> = {}
    BY <2>1, BlankFields DEF Holds
  <2>5. "turns" \in Left(w'[a])
    BY <2>3 DEF Left, TurnSet
  <2> QED BY <2>4, <2>5 DEF ExportHeld, KnownEvents, KnownItems
<1>3. CASE \E b \in Bundles : Takes(a, b)
  BY <1>3 DEF Takes, Undisturbed
<1>4. CASE Failed(a)
  BY <1>4 DEF Failed, Undisturbed
<1>5. CASE \E r : Progress(a, r)
  <2>1. w[a].pc = "busy" /\ w[a].req.do = "export"
    BY <1>5 DEF Undisturbed, Progress, Works, Taken, Gone
  <2>2. \/ ReadRow(a) \/ ReadTurns(a) \/ ReadEvents(a) \/ ReadTodos(a) \/ ReadItems(a)
    BY <2>1, ExportGoes DEF Failed, Undisturbed
  <2>3. turns' = turns /\ torn' = torn
    BY <2>2 DEF ReadRow, ReadTurns, ReadEvents, ReadTodos, ReadItems, DbSame
  <2>4. /\ Left(w[a]) = {h} \cup TurnSet(Tail(w[a].steps))
        /\ \A x \in TurnSet(Tail(w[a].steps)) : h # "todos" /\ x # "todos" => Place[h] < Place[x]
    BY <2>1, NextOfWorker DEF TypeInv, KeepInv, OwnInv
  <2>5. /\ ~(Place["turns"] < Place["turns"]) /\ ~(Place["events"] < Place["turns"])
        /\ ~(Place["checkpoint"] < Place["turns"]) /\ ~(Place["artifact"] < Place["turns"])
        /\ ~(Place["run"] < Place["turns"])
    BY DEF Place
  <2>6. ASSUME NEW r, NEW changed, Worked(a, r, changed),
               changed \subseteq {"row", "stale", "turns", "events", "todos", "items"},
               w[a].stale => r.stale
        PROVE  /\ ExportHeld(a) /\ Holds(w'[a], r) /\ w'[a].ses = w[a].ses
               /\ Left(w'[a]) = TurnSet(Tail(w[a].steps)) /\ w[a].ses \notin torn
    <3>1. /\ w'[a].ses = r.ses /\ w'[a].stale = r.stale /\ w'[a].alone = r.alone
          /\ w'[a].steps = Tail(w[a].steps) /\ Holds(w'[a], r)
      <4>1. Works(a, r) /\ r.steps = w[a].steps
        BY <2>6 DEF Worked
      <4>2. /\ w'[a].ses = r.ses /\ w'[a].stale = r.stale /\ w'[a].alone = r.alone
            /\ w'[a].steps = Tail(w[a].steps)
            /\ w'[a].pc \in {"busy", "done"}
            /\ w'[a].pc = "busy" \/ (w'[a].pc = "done" /\ w[a].req.do = "export")
                 => Holds(w'[a], r)
        BY <4>1, Follows
      <4> QED BY <2>1, <4>2
    <3>2. r.ses = w[a].ses /\ r.alone = w[a].alone
      BY <2>6 DEF Worked, Only, Fields
    <3>3. Undisturbed(a)
      BY <2>1, <2>3, <2>6, <3>1, <3>2 DEF Undisturbed
    <3> QED BY <3>1, <3>2, <3>3 DEF ExportsHeld, Left, Undisturbed
  <2>7. ASSUME ReadRow(a) \/ ReadTodos(a) PROVE ExportHeld(a)'
    <3>1. PICK r : /\ Worked(a, r, {"row", "stale"}) \/ Worked(a, r, {"todos"})
                   /\ w[a].stale => r.stale
      <4>1. CASE ReadRow(a)
        BY <4>1, ReadRowWorks
      <4>2. CASE ReadTodos(a)
        <5>1. PICK r : Worked(a, r, {"todos"})
          BY <4>2, ReadTodosWorks
        <5>2. r.stale = w[a].stale
          BY <5>1 DEF Worked, Only, Fields
        <5> QED BY <5>1, <5>2
      <4> QED BY <2>7, <4>1, <4>2
    <3>2. /\ ExportHeld(a) /\ Holds(w'[a], r) /\ w'[a].ses = w[a].ses
          /\ Left(w'[a]) = TurnSet(Tail(w[a].steps))
      BY <2>6, <3>1
    <3>3. r.turns = w[a].turns /\ r.events = w[a].events /\ r.items = w[a].items
      BY <3>1 DEF Worked, Only, Fields
    <3>4. h # "turns"
      BY <2>7 DEF ReadRow, ReadTodos, At
    <3>5. "turns" \in Left(w'[a]) <=> "turns" \in Left(w[a])
      BY <2>4, <3>2, <3>4
    <3> QED BY <2>1, <2>3, <3>2, <3>3, <3>5 DEF ExportHeld, Holds, KnownEvents, KnownItems
  <2>8. ASSUME ReadTurns(a) PROVE ExportHeld(a)'
    <3>1. PICK r : Worked(a, r, {"turns"}) /\ r.turns = turns[w[a].ses]
      BY <2>8, ReadTurnsWorks
    <3>2. r.events = w[a].events /\ r.items = w[a].items /\ r.stale = w[a].stale
      BY <3>1 DEF Worked, Only, Fields
    <3>3. /\ ExportHeld(a) /\ Holds(w'[a], r) /\ w'[a].ses = w[a].ses
          /\ Left(w'[a]) = TurnSet(Tail(w[a].steps))
      BY <2>6, <3>1, <3>2
    <3>4. h = "turns"
      BY <2>8 DEF ReadTurns, At
    <3>5. "turns" \notin Left(w'[a]) /\ "turns" \in Left(w[a])
      BY <2>4, <2>5, <3>3, <3>4
    <3> QED BY <2>1, <2>3, <3>1, <3>2, <3>3, <3>5 DEF ExportHeld, Holds, KnownEvents, KnownItems
  <2>9. ASSUME ReadEvents(a) PROVE ExportHeld(a)'
    <3>1. PICK r : Worked(a, r, {"events"}) /\ r.events = TurnSet(turns[w[a].ses])
      BY <2>9, ReadEventsWorks
    <3>2. r.turns = w[a].turns /\ r.items = w[a].items /\ r.stale = w[a].stale
      BY <3>1 DEF Worked, Only, Fields
    <3>3. /\ ExportHeld(a) /\ Holds(w'[a], r) /\ w'[a].ses = w[a].ses
          /\ Left(w'[a]) = TurnSet(Tail(w[a].steps))
      BY <2>6, <3>1, <3>2
    <3>4. h = "events"
      BY <2>9 DEF ReadEvents, At
    <3>5. "turns" \notin Left(w'[a]) /\ "turns" \notin Left(w[a])
      BY <2>4, <2>5, <3>3, <3>4
    <3> QED BY <2>1, <2>3, <3>1, <3>2, <3>3, <3>5 DEF ExportHeld, Holds, KnownEvents, KnownItems
  <2>10. ASSUME ReadItems(a) PROVE ExportHeld(a)'
    <3>1. PICK r : /\ Worked(a, r, {"items"})
                   /\ \A k \in DOMAIN r.items :
                        \/ k \in DOMAIN w[a].items /\ r.items[k] = w[a].items[k]
                        \/ k \in DOMAIN items /\ items[k].ses = w[a].ses
                           /\ r.items[k] = items[k].turn
      BY <2>10, ReadItemsWorks
    <3>2. r.turns = w[a].turns /\ r.events = w[a].events /\ r.stale = w[a].stale
      BY <3>1 DEF Worked, Only, Fields
    <3>3. /\ ExportHeld(a) /\ Holds(w'[a], r) /\ w'[a].ses = w[a].ses
          /\ Left(w'[a]) = TurnSet(Tail(w[a].steps)) /\ w[a].ses \notin torn
      BY <2>6, <3>1, <3>2
    <3>4. h \in {"checkpoint", "artifact", "run"}
      BY <2>10 DEF ReadItems, Kinds
    <3>5. "turns" \notin Left(w'[a]) /\ "turns" \notin Left(w[a])
      BY <2>4, <2>5, <3>3, <3>4
    <3>6. w[a].turns = turns[w[a].ses] /\ KnownEvents(w[a]) /\ KnownItems(w[a])
      BY <2>1, <3>3, <3>5 DEF ExportHeld
    <3>7. \A k \in DOMAIN r.items : r.items[k] \in TurnSet(w[a].turns) \cup {None}
      BY <3>1, <3>3, <3>6 DEF KnownItems, ItemsKnown
    <3> QED BY <2>3, <3>2, <3>3, <3>5, <3>6, <3>7 DEF ExportHeld, Holds, KnownEvents, KnownItems
  <2> QED BY <2>2, <2>7, <2>8, <2>9, <2>10
<1> QED BY <1>1, <1>2, <1>3, <1>4, <1>5 DEF Moved

ExportInv == Unopened /\ TurnSaved /\ ReadThere /\ Admitted /\ ItemsKnown /\ ExportsHeld

\* ExportInv holds at first.
LEMMA ExportInitial == Init => ExportInv
<1> SUFFICES ASSUME Init PROVE ExportInv
  OBVIOUS
<1>1. w = [b \in Workers |-> Blank] /\ rows = Rows /\ items = <<>>
  BY DEF Init
<1>2. \A a \in Workers : w[a].pc = "idle"
  BY <1>1, BlankFields
<1>3. Unopened
  BY <1>1, SessionsAssumption DEF Unopened
<1>4. TurnSaved /\ ReadThere /\ Admitted /\ ExportsHeld
  BY <1>2 DEF TurnSaved, Answering, ReadThere, Admitted, ExportsHeld, Undisturbed
<1>5. DOMAIN <<>> = {}
  OBVIOUS
<1> QED BY <1>1, <1>3, <1>4, <1>5 DEF ExportInv, ItemsKnown

\* ExportInv is inductive.
LEMMA ExportStep == TypeInv /\ ExportInv /\ [Next]_vars => ExportInv'
<1> SUFFICES ASSUME TypeInv, ExportInv, [Next]_vars PROVE ExportInv'
  OBVIOUS
<1>1. CASE UNCHANGED vars
  BY <1>1 DEF vars, ExportInv, Unopened, TurnSaved, Answering, ReadThere, Admitted, KnownItems,
     KnownEvents, ItemsKnown, ExportsHeld, Undisturbed, ExportHeld
<1>2. CASE Next
  <2>1. PICK a \in Workers : Step(a)
    BY <1>2 DEF Next
  <2>2. Unopened' /\ TurnSaved' /\ ReadThere' /\ Admitted' /\ ItemsKnown'
    BY <2>1, UnopenedStays, TurnSavedStays, ReadThereStays, AdmittedStays, ItemsStayKnown
       DEF ExportInv
  <2>3. \A b \in Workers : Undisturbed(b)' => ExportHeld(b)'
    BY <2>1, OtherExportsHeld, OwnExportHeld DEF ExportInv
  <2> QED BY <2>2, <2>3 DEF ExportInv, ExportsHeld
<1> QED BY <1>1, <1>2

\* An export beside which nobody wrote can be imported: its seven queries see
\* one session, whose events, checkpoints, artifacts and runs were each stored
\* for a turn that had been saved, whatever overlapped when they were.
THEOREM ExportsAreClosed == Spec => []ExportIsClosed
<1>1. TypeInv /\ ExportInv => ExportIsClosed
  <2> SUFFICES ASSUME TypeInv, ExportInv, NEW a \in Exports,
                      w[a].alone, ~w[a].stale, w[a].ses \notin torn
               PROVE  Admissible(Exported(w[a]))
    BY DEF ExportIsClosed
  <2>1. a \in Workers /\ Undisturbed(a)
    BY DEF Exports, Undisturbed
  <2>2. KnownEvents(w[a]) /\ KnownItems(w[a]) /\ Distinct(w[a])
    BY <2>1 DEF ExportInv, ExportsHeld, ExportHeld, TypeInv, KeepInv, OwnInv, HeldOnce
  <2> QED BY <2>2 DEF Admissible, KnownEvents, KnownItems, Distinct, Exported
<1> QED BY <1>1, TypeInitial, TypeStep, ExportInitial, ExportStep, PTL DEF Spec

-----------------------------------------------------------------------------
(* What the answer to an import means.                                      *)

\* What an import has saved when it has only the items in left to save.
Restored(a, left) ==
  LET b == w[a] IN
  /\ b.ses \in DOMAIN rows /\ rows[b.ses] = b.row /\ turns[b.ses] = b.turns
  /\ todos[b.ses] = b.todos
  /\ \A k \in DOMAIN b.items \ left :
       /\ k \in DOMAIN items /\ items[k].turn = b.items[k]
       /\ k[1] # "checkpoint" => items[k].ses = b.ses

ImportHeld(a) ==
  w[a].pc = "busy" /\ w[a].req.do = "import" =>
    /\ "admit" \in Left(w[a]) => "session" \in Left(w[a])
    /\ "session" \in Left(w[a]) => "restore" \in Left(w[a]) /\ w[a].left = DOMAIN w[a].items
    /\ w[a].alone /\ "session" \notin Left(w[a]) => Restored(a, w[a].left)
ImportInv == \A a \in Workers : ImportHeld(a)

\* The steps an import has left.
LEMMA NextOfImport ==
  ASSUME TypeInv, NEW a \in Workers, w[a].pc = "busy", w[a].req.do = "import"
  PROVE  LET T == TurnSet(Tail(w[a].steps)) IN
         /\ Left(w[a]) = {Head(w[a].steps)} \cup T
         /\ Head(w[a].steps) = "admit" => "admit" \notin T
         /\ Head(w[a].steps) = "session" => T \cap {"admit", "session"} = {}
         /\ Head(w[a].steps) = "restore" => Tail(w[a].steps) = <<>>
         /\ w[a].ses \in Ids /\ w[a].steps # <<>>
         /\ w[a].left \subseteq DOMAIN w[a].items /\ w[a].todos \in TodoList
<1> DEFINE steps == w[a].steps
           T == TurnSet(Tail(steps))
<1>1. /\ steps \in Seq(StepNames) /\ steps # <<>> /\ Left(w[a]) = {Head(steps)} \cup T
      /\ Head(steps) \in {"admit", "session", "restore"}
      /\ \A x \in T : /\ x \in {"admit", "session", "restore"}
                      /\ Place[Head(steps)] < Place[x]
  BY NextOfWorker DEF TypeInv, KeepInv, OwnInv, Serving
<1>2. /\ ~(Place["admit"] < Place["admit"]) /\ ~(Place["session"] < Place["session"])
      /\ ~(Place["session"] < Place["admit"]) /\ ~(Place["restore"] < Place["restore"])
      /\ ~(Place["restore"] < Place["admit"]) /\ ~(Place["restore"] < Place["session"])
  BY DEF Place
<1>3. Head(steps) = "restore" => T = {}
  BY <1>1, <1>2
<1>4. Head(steps) = "restore" => Tail(steps) = <<>>
  <2>1. Tail(steps) \in Seq(StepNames)
    BY <1>1
  <2>2. Tail(steps) # <<>> => Tail(steps)[1] \in T
    <3> DEFINE rest == Tail(steps)
    <3> HIDE DEF rest
    <3>1. rest \in Seq(StepNames) /\ rest # <<>> => 1 \in DOMAIN rest
      OBVIOUS
    <3> QED BY <2>1, <3>1 DEF rest, TurnSet
  <2> QED BY <1>3, <2>2
<1>5. w[a].ses \in Ids
  BY <1>1, AtWork
<1>6. w[a].left \subseteq DOMAIN w[a].items /\ w[a].todos \in TodoList
  BY DEF TypeInv, Listed
<1> QED BY <1>1, <1>2, <1>4, <1>5, <1>6

\* An item more.
LEMMA RestoresMore ==
  ASSUME TypeInv, NEW a \in Workers, w[a].pc = "busy", w[a].req.do = "import",
         NEW left, Restored(a, left), left \subseteq DOMAIN w[a].items, NEW k \in left,
         SaveItem(k, w[a].ses, w[a].items[k])
  PROVE  \A l \in DOMAIN w[a].items \ (left \ {k}) :
           /\ l \in DOMAIN items' /\ items'[l].turn = w[a].items[l]
           /\ l[1] # "checkpoint" => items'[l].ses = w[a].ses
<1>1. /\ ItemsTyped /\ MarksTyped /\ w[a].ses \in Ids
      /\ k \in Items /\ w[a].items[k] \in TurnIds \cup {None}
  <2>1. ItemTurns(w[a].items)
    BY AtWork DEF WorkerOK
  <2> QED BY <2>1, NextOfImport DEF TypeInv, ItemTurns
<1>2. /\ DOMAIN items' = DOMAIN items \cup {k}
      /\ items'[k].ses = Owner(k, w[a].ses) /\ items'[k].turn = w[a].items[k]
      /\ \A l \in DOMAIN items \ {k} : items'[l] = items[l]
  <2>1. ASSUME NEW s \in Ids, NEW turn \in TurnIds \cup {None}, SaveItem(k, s, turn)
        PROVE  /\ DOMAIN items' = DOMAIN items \cup {k}
               /\ items'[k].ses = Owner(k, s) /\ items'[k].turn = turn
               /\ \A l \in DOMAIN items \ {k} : items'[l] = items[l]
    BY <1>1, <2>1, SaveItemSaves
  <2> QED BY <1>1, <2>1
<1>3. k[1] # "checkpoint" => Owner(k, w[a].ses) = w[a].ses
  BY DEF Owner
<1> TAKE l \in DOMAIN w[a].items \ (left \ {k})
<1>4. CASE l = k
  BY <1>2, <1>3, <1>4
<1>5. CASE l # k
  BY <1>2, <1>5 DEF Restored
<1> QED BY <1>4, <1>5

\* The session itself.
LEMMA SessionRestored ==
  ASSUME TypeInv, NEW a \in Workers, w[a].pc = "busy", w[a].req.do = "import", ImportSession(a)
  PROVE  /\ w[a].ses \in DOMAIN rows' /\ rows'[w[a].ses] = w[a].row
         /\ turns'[w[a].ses] = w[a].turns /\ todos'[w[a].ses] = w[a].todos
<1>1. /\ rows' = Put(rows, w[a].ses, w[a].row) /\ turns' = [turns EXCEPT ![w[a].ses] = w[a].turns]
      /\ todos' = [todos EXCEPT ![w[a].ses] = w[a].todos]
  BY DEF ImportSession, SaveSession
<1>2. w[a].ses \in Ids
  BY NextOfImport
<1>3. w[a].ses \in DOMAIN rows' /\ rows'[w[a].ses] = w[a].row
  BY <1>1 DEF Put
<1> QED BY <1>1, <1>2, <1>3 DEF TypeInv, KeepInv, OwnInv, TurnsTyped, TodosTyped

\* The imports of others.
LEMMA OtherImportsHeld ==
  ASSUME TypeInv, ImportInv, NEW a \in Workers, Step(a), NEW b \in Workers \ {a}
  PROVE  ImportHeld(b)'
<1>1. Like(w[b], w'[b])
  BY StepWorks, WholeStays
<1> SUFFICES ASSUME w'[b].pc = "busy", w'[b].req.do = "import" PROVE ImportHeld(b)'
  BY DEF ImportHeld
<1>2. ImportHeld(b) /\ Watching(w[b])
  BY <1>1 DEF ImportInv, Like, Watching
<1>3. /\ w'[b].pc = w[b].pc /\ Left(w'[b]) = Left(w[b]) /\ w'[b].ses = w[b].ses
      /\ w'[b].turns = w[b].turns /\ w'[b].row = w[b].row /\ w'[b].todos = w[b].todos
      /\ w'[b].items = w[b].items /\ w'[b].left = w[b].left /\ w'[b].req = w[b].req
      /\ w'[b].alone => w[b].alone
  BY <1>1 DEF Like, Holds, Left
<1>4. CASE Heard(a)
  BY <1>2, <1>3, <1>4 DEF Heard, ImportHeld
<1>5. CASE DbSame
  <2>1. rows' = rows /\ turns' = turns /\ todos' = todos /\ items' = items
    BY <1>5 DEF DbSame
  <2>2. Restored(b, w[b].left) => Restored(b, w[b].left)'
    BY <1>3, <2>1 DEF Restored
  <2> QED BY <1>2, <1>3, <2>2 DEF ImportHeld
<1> QED BY <1>4, <1>5, HeardOrSame

\* The import that takes the step.
LEMMA OwnImportHeld ==
  ASSUME TypeInv, ImportInv, NEW a \in Workers, Step(a)
  PROVE  ImportHeld(a)'
<1> DEFINE h == Head(w[a].steps)
           T == TurnSet(Tail(w[a].steps))
<1> SUFFICES ASSUME w'[a].pc = "busy", w'[a].req.do = "import" PROVE ImportHeld(a)'
  BY DEF ImportHeld
<1>1. CASE Accepts(a)
  BY <1>1 DEF Accepts
<1>2. CASE \E b \in Bundles : Takes(a, b)
  <2>1. /\ w'[a].req \in Request /\ w'[a].steps = Steps(w'[a].req)
        /\ w'[a].left = DOMAIN w'[a].items
    BY <1>2 DEF Takes
  <2>2. w'[a].steps = <<"admit", "session", "restore">>
    BY <2>1 DEF Steps, ImportSteps
  <2>3. 2 \in DOMAIN w'[a].steps /\ w'[a].steps[2] = "session"
        /\ 3 \in DOMAIN w'[a].steps /\ w'[a].steps[3] = "restore"
    BY <2>2
  <2>4. "session" \in Left(w'[a]) /\ "restore" \in Left(w'[a])
    BY <2>3 DEF Left, TurnSet
  <2> QED BY <2>1, <2>4 DEF ImportHeld
<1>3. CASE Failed(a)
  BY <1>3 DEF Failed
<1>4. CASE \E r : Progress(a, r)
  <2>1. w[a].pc = "busy" /\ w[a].req.do = "import"
    BY <1>4 DEF Progress, Works, Taken, Gone
  <2>2. /\ Left(w[a]) = {h} \cup T /\ w[a].ses \in Ids /\ w[a].left \subseteq DOMAIN w[a].items
        /\ h = "admit" => "admit" \notin T
        /\ h = "session" => T \cap {"admit", "session"} = {}
        /\ h = "restore" => Tail(w[a].steps) = <<>>
    BY <2>1, NextOfImport
  <2>3. /\ "admit" \in Left(w[a]) => "session" \in Left(w[a])
        /\ "session" \in Left(w[a]) => "restore" \in Left(w[a]) /\ w[a].left = DOMAIN w[a].items
        /\ w[a].alone /\ "session" \notin Left(w[a]) => Restored(a, w[a].left)
    BY <2>1 DEF ImportInv, ImportHeld
  <2>4. CASE Admit(a)
    <3>1. h = "admit" /\ rows' = rows /\ turns' = turns /\ todos' = todos /\ items' = items
      BY <2>4 DEF Admit, At, DbSame
    <3>2. /\ w'[a].ses = w[a].ses /\ w'[a].alone = w[a].alone /\ w'[a].steps = Tail(w[a].steps)
          /\ Holds(w'[a], w[a])
      BY <2>4, AdmitWorks, Follows DEF Worked
    <3>3. Left(w'[a]) = T
      BY <3>2 DEF Left
    <3> QED BY <2>2, <2>3, <3>1, <3>2, <3>3 DEF ImportHeld, Holds
  <2>5. CASE ImportSession(a)
    <3>1. PICK r : /\ Works(a, r) /\ Only(w[a], r, {"steps"})
                   /\ r.steps = IF w[a].left = {} THEN <<"session">> ELSE w[a].steps
      BY <2>5, ImportSessionWorks
    <3>2. /\ Holds(w'[a], r) /\ w'[a].ses = r.ses /\ w'[a].steps = Tail(r.steps)
          /\ Tail(r.steps) # <<>>
      BY <3>1 DEF Works, Gone
    <3>3. Holds(w'[a], w[a]) /\ w'[a].ses = w[a].ses
      BY <3>1, <3>2 DEF Only, Fields, Holds
    <3>4. Tail(<<"session">>) = <<>>
      OBVIOUS
    <3>5. w'[a].steps = Tail(w[a].steps)
      BY <3>1, <3>2, <3>4
    <3>6. h = "session" /\ Left(w'[a]) = T
      BY <2>5, <3>5 DEF ImportSession, At, Left
    <3>7. w[a].left = DOMAIN w[a].items
      BY <2>2, <2>3, <3>6
    <3>8. Restored(a, w[a].left)'
      <4>1. /\ w[a].ses \in DOMAIN rows' /\ rows'[w[a].ses] = w[a].row
            /\ turns'[w[a].ses] = w[a].turns /\ todos'[w[a].ses] = w[a].todos
        BY <2>1, <2>5, SessionRestored
      <4> QED BY <3>3, <3>7, <4>1 DEF Restored, Holds
    <3> QED BY <2>2, <3>6, <3>8 DEF ImportHeld
  <2>6. CASE RestoreItem(a)
    <3>0. PICK k \in w[a].left : \E r :
            /\ SaveItem(k, w[a].ses, w[a].items[k])
            /\ Works(a, r) /\ Only(w[a], r, {"left", "steps"}) /\ r.left = w[a].left \ {k}
            /\ Tail(r.steps) = IF r.left = {} THEN Tail(w[a].steps) ELSE w[a].steps
      BY <2>6, RestoreItemWorks
    <3>1. PICK r :
            /\ SaveItem(k, w[a].ses, w[a].items[k])
            /\ Works(a, r) /\ Only(w[a], r, {"left", "steps"}) /\ r.left = w[a].left \ {k}
            /\ Tail(r.steps) = IF r.left = {} THEN Tail(w[a].steps) ELSE w[a].steps
      BY <3>0
    <3>2. /\ Holds(w'[a], r) /\ w'[a].ses = r.ses /\ w'[a].steps = Tail(r.steps)
          /\ w'[a].alone = r.alone /\ Tail(r.steps) # <<>>
      BY <3>1 DEF Works, Gone
    <3>3. h = "restore" /\ rows' = rows /\ turns' = turns /\ todos' = todos
      BY <2>6 DEF RestoreItem, At
    <3>4. w'[a].steps = w[a].steps
      BY <2>2, <3>1, <3>2, <3>3
    <3>5. /\ w'[a].ses = w[a].ses /\ w'[a].alone = w[a].alone /\ w'[a].row = w[a].row
          /\ w'[a].turns = w[a].turns /\ w'[a].todos = w[a].todos /\ w'[a].items = w[a].items
          /\ w'[a].left = w[a].left \ {k}
      BY <3>1, <3>2 DEF Only, Fields, Holds
    <3>6. TurnSet(<<>>) = {}
      BY DEF TurnSet
    <3>7. Left(w'[a]) = Left(w[a]) /\ Left(w[a]) = {"restore"}
      BY <2>2, <3>3, <3>4, <3>6 DEF Left
    <3>8. ASSUME w[a].alone PROVE Restored(a, w[a].left)'
      <4>1. Restored(a, w[a].left)
        BY <2>3, <3>7, <3>8
      <4>2. \A l \in DOMAIN w[a].items \ (w[a].left \ {k}) :
              /\ l \in DOMAIN items' /\ items'[l].turn = w[a].items[l]
              /\ l[1] # "checkpoint" => items'[l].ses = w[a].ses
        BY <2>1, <2>2, <3>1, <4>1, RestoresMore
      <4> QED BY <3>3, <3>5, <4>1, <4>2 DEF Restored
    <3> QED BY <3>5, <3>7, <3>8 DEF ImportHeld
  <2> QED BY <2>1, <2>4, <2>5, <2>6, ImportGoes DEF Failed
<1>5. Moved(a)
  BY StepWorks
<1> QED BY <1>1, <1>2, <1>3, <1>4, <1>5 DEF Moved

\* ImportInv holds at first.
LEMMA ImportInitial == Init => ImportInv
<1> SUFFICES ASSUME Init PROVE ImportInv
  OBVIOUS
<1>1. w = [b \in Workers |-> Blank]
  BY DEF Init
<1>2. \A a \in Workers : w[a].pc = "idle"
  BY <1>1, BlankFields
<1> QED BY <1>2 DEF ImportInv, ImportHeld

\* ImportInv is inductive.
LEMMA ImportStep == TypeInv /\ ImportInv /\ [Next]_vars => ImportInv'
<1> SUFFICES ASSUME TypeInv, ImportInv, [Next]_vars PROVE ImportInv'
  OBVIOUS
<1>1. CASE UNCHANGED vars
  BY <1>1 DEF vars, ImportInv, ImportHeld, Restored
<1>2. CASE Next
  BY <1>2, OtherImportsHeld, OwnImportHeld DEF Next, ImportInv
<1> QED BY <1>1, <1>2

\* The step that ends an import.
LEMMA ImportEnds ==
  ASSUME TypeInv, ImportInv, NEW a \in Workers, Step(a), w[a].pc = "busy",
         w[a].req.do = "import", w[a].alone, w'[a].pc = "done"
  PROVE  Imported(a)
<1> DEFINE h == Head(w[a].steps)
           T == TurnSet(Tail(w[a].steps))
<1>1. /\ Left(w[a]) = {h} \cup T /\ w[a].ses \in Ids /\ w[a].left \subseteq DOMAIN w[a].items
      /\ h = "restore" => Tail(w[a].steps) = <<>>
      /\ w[a].steps # <<>>
  BY NextOfImport
<1>2. /\ "admit" \in Left(w[a]) => "session" \in Left(w[a])
      /\ "session" \in Left(w[a]) => "restore" \in Left(w[a]) /\ w[a].left = DOMAIN w[a].items
      /\ w[a].alone /\ "session" \notin Left(w[a]) => Restored(a, w[a].left)
  BY DEF ImportInv, ImportHeld
<1>3. TurnSet(<<>>) = {}
  BY DEF TurnSet
<1>4. CASE Admit(a)
  <2>1. h = "admit"
    BY <1>4 DEF Admit, At
  <2>2. Tail(w[a].steps) = <<>>
    BY <1>4, AdmitWorks, Follows DEF Worked
  <2> QED BY <1>1, <1>2, <1>3, <2>1, <2>2
<1>5. CASE ImportSession(a)
  <2>1. PICK r : /\ Works(a, r) /\ Only(w[a], r, {"steps"})
                 /\ r.steps = IF w[a].left = {} THEN <<"session">> ELSE w[a].steps
    BY <1>5, ImportSessionWorks
  <2>2. Tail(r.steps) = <<>>
    BY <2>1 DEF Works, Gone
  <2>3. h = "session"
    BY <1>5 DEF ImportSession, At
  <2>4. w[a].left = DOMAIN w[a].items /\ "restore" \in T
    BY <1>1, <1>2, <2>3
  <2>5. w[a].left = {}
    BY <1>3, <2>1, <2>2, <2>4
  <2>6. /\ w[a].ses \in DOMAIN rows' /\ rows'[w[a].ses] = w[a].row
        /\ turns'[w[a].ses] = w[a].turns /\ todos'[w[a].ses] = w[a].todos
    BY <1>5, SessionRestored
  <2> QED BY <2>4, <2>5, <2>6 DEF Imported
<1>6. CASE RestoreItem(a)
  <2>0. PICK k \in w[a].left : \E r :
          /\ SaveItem(k, w[a].ses, w[a].items[k])
          /\ Works(a, r) /\ Only(w[a], r, {"left", "steps"}) /\ r.left = w[a].left \ {k}
          /\ Tail(r.steps) = IF r.left = {} THEN Tail(w[a].steps) ELSE w[a].steps
    BY <1>6, RestoreItemWorks
  <2>1. PICK r :
          /\ SaveItem(k, w[a].ses, w[a].items[k])
          /\ Works(a, r) /\ Only(w[a], r, {"left", "steps"}) /\ r.left = w[a].left \ {k}
          /\ Tail(r.steps) = IF r.left = {} THEN Tail(w[a].steps) ELSE w[a].steps
    BY <2>0
  <2>2. Tail(r.steps) = <<>>
    BY <2>1 DEF Works, Gone
  <2>3. w[a].left \ {k} = {}
    BY <1>1, <2>1, <2>2
  <2>4. h = "restore" /\ rows' = rows /\ turns' = turns /\ todos' = todos
    BY <1>6 DEF RestoreItem, At
  <2>5. "session" \notin Left(w[a])
    BY <1>1, <1>3, <2>4
  <2>6. Restored(a, w[a].left)
    BY <1>2, <2>5
  <2>7. \A l \in DOMAIN w[a].items \ (w[a].left \ {k}) :
          /\ l \in DOMAIN items' /\ items'[l].turn = w[a].items[l]
          /\ l[1] # "checkpoint" => items'[l].ses = w[a].ses
    BY <1>1, <2>1, <2>6, RestoresMore
  <2> QED BY <2>3, <2>4, <2>6, <2>7 DEF Imported, Restored
<1>7. ~Failed(a)
  BY DEF Failed
<1> QED BY <1>4, <1>5, <1>6, <1>7, ImportGoes

\* When an import beside which nobody wrote is answered, the database holds the
\* session of the bundle, its turns and todos, and every checkpoint, artifact and
\* run, although these were saved one by one and each could have been the last.
THEOREM ImportsRestore == Spec => ImportRestoresBundle
<1>1. TypeInv /\ ImportInv /\ [Next]_vars =>
        [\A a \in Workers :
           w[a].pc = "busy" /\ w[a].req.do = "import" /\ w[a].alone /\ w'[a].pc = "done"
             => Imported(a)]_vars
  <2> SUFFICES ASSUME TypeInv, ImportInv, Next, NEW a \in Workers,
                      w[a].pc = "busy", w[a].req.do = "import", w[a].alone, w'[a].pc = "done"
               PROVE  Imported(a)
    OBVIOUS
  <2>1. PICK b \in Workers : Step(b)
    BY DEF Next
  <2>2. CASE b = a
    BY <2>1, <2>2, ImportEnds
  <2>3. CASE b # a
    BY <2>1, <2>3, StepWorks, WholeStays DEF Like
  <2> QED BY <2>2, <2>3
<1> QED BY <1>1, TypeInitial, TypeStep, ImportInitial, ImportStep, PTL
        DEF Spec, ImportRestoresBundle

============================================================================

--------------------------- MODULE SessionsProofs ---------------------------
(***************************************************************************)
(* Sessions for every set of workers, names, turns, requests and bundles.  *)
(* A step of a request is first reduced to one of ten moves (Moves), which *)
(* say what it does to the turns and the rows of the database and to what  *)
(* its worker holds; everything after StepMoves is proved from the moves.  *)
(*                                                                         *)
(* OwnInv gives OneSessionPerTurn: until a run appends its turn nobody has *)
(* it (Fresh), and nobody holds a turn twice (HeldOnce), not even a bundle *)
(* that will be imported later.  KeepInv adds where a worker may be        *)
(* (Housed), that turns have a row (Rowed), that who will append has       *)
(* opened its session (Opened), and that a run that appended opens no      *)
(* other (Settled); with them what was read stays a prefix, and what was   *)
(* answered stays.                                                         *)
(***************************************************************************)
EXTENDS Sessions, SequenceTheorems, TLAPS

-----------------------------------------------------------------------------
(* The steps of a request.                                                  *)

\* A turn is appended once, after its session was opened; a session is created
\* first of all; and only the requests that may do a thing have its step.
Once(steps) ==
  \A i, j \in 1..Len(steps) : steps[i] = "append" /\ steps[j] = "append" => i = j
OpensBefore(steps) ==
  \A i, j \in 1..Len(steps) :
    steps[i] = "append" /\ steps[j] \in {"row", "create", "fork"} => j < i
CreateFirst(steps) == \A i \in 2..Len(steps) : steps[i] # "create"
MakesTurn(do) == do \in {"run", "fork"}
NewId(do) == do \in {"create", "run", "fork"}
Belong(steps, do) ==
  \A i \in 1..Len(steps) :
    /\ steps[i] = "append" => MakesTurn(do)
    /\ steps[i] \in {"create", "fork"} => NewId(do)
    /\ steps[i] = "session" => do = "import"
Orderly(steps, do) ==
  /\ steps \in Seq(StepNames)
  /\ Once(steps) /\ OpensBefore(steps) /\ CreateFirst(steps) /\ Belong(steps, do)

\* The steps of every request are orderly, and a run or a fork opens its
\* session and appends its turn.
LEMMA StepsAreOrderly ==
  ASSUME NEW r \in Request
  PROVE  /\ Orderly(Steps(r), r.do) /\ Len(Steps(r)) > 0
         /\ MakesTurn(r.do) =>
              /\ \E i \in 1..Len(Steps(r)) : Steps(r)[i] = "append"
              /\ \E i \in 1..Len(Steps(r)) : Steps(r)[i] \in {"row", "create", "fork"}
<1>1. r.do \in {"run", "fork", "put", "upsert", "drop", "compact", "checkpoint", "artifact",
                "remove", "create", "prune", "export", "import"}
  BY DEF Request
<1>2. CASE r.do = "run" /\ r.ses = None
  <2>1. Steps(r) = <<"create", "agent", "todos", "append", "record">>
    BY <1>2 DEF Steps, NewRunSteps
  <2> QED BY <1>2, <2>1 DEF Orderly, Once, OpensBefore, CreateFirst,
       Belong, MakesTurn, NewId, StepNames
<1>3. CASE r.do = "run" /\ r.ses # None
  <2>1. Steps(r) = <<"row", "turns", "agent", "todos", "append", "record">>
    BY <1>3 DEF Steps, ResumeSteps
  <2> QED BY <1>3, <2>1 DEF Orderly, Once, OpensBefore, CreateFirst,
       Belong, MakesTurn, NewId, StepNames
<1>4. CASE r.do = "fork"
  <2>1. Steps(r) = <<"row", "turns", "todos", "fork", "agent", "todos", "append", "record">>
    BY <1>4 DEF Steps, ForkSteps
  <2> QED BY <1>4, <2>1 DEF Orderly, Once, OpensBefore, CreateFirst,
       Belong, MakesTurn, NewId, StepNames
<1>5. CASE r.do = "create"
  <2>1. Steps(r) = <<"create">>
    BY <1>5 DEF Steps, CreateSteps
  <2> QED BY <1>5, <2>1 DEF Orderly, Once, OpensBefore, CreateFirst,
       Belong, MakesTurn, NewId, StepNames
<1>6. CASE r.do = "put"
  <2>1. Steps(r) = <<"save">>
    BY <1>6 DEF Steps, PutSteps
  <2> QED BY <1>6, <2>1 DEF Orderly, Once, OpensBefore, CreateFirst,
       Belong, MakesTurn, NewId, StepNames
<1>7. CASE r.do = "upsert"
  <2>1. Steps(r) = <<"row", "todos", "save">>
    BY <1>7 DEF Steps, UpsertSteps
  <2> QED BY <1>7, <2>1 DEF Orderly, Once, OpensBefore, CreateFirst,
       Belong, MakesTurn, NewId, StepNames
<1>8. CASE r.do = "drop"
  <2>1. Steps(r) = <<"row", "todos", "save">>
    BY <1>8 DEF Steps, DropSteps
  <2> QED BY <1>8, <2>1 DEF Orderly, Once, OpensBefore, CreateFirst,
       Belong, MakesTurn, NewId, StepNames
<1>9. CASE r.do = "compact" /\ r.checkpoint
  <2>1. Steps(r) = <<"row", "turns", "state", "attach">>
    BY <1>9 DEF Steps, CompactSteps
  <2> QED BY <1>9, <2>1 DEF Orderly, Once, OpensBefore, CreateFirst,
       Belong, MakesTurn, NewId, StepNames
<1>10. CASE r.do = "compact" /\ ~r.checkpoint
  <2>1. Steps(r) = <<"row", "turns", "state">>
    BY <1>10 DEF Steps, CompactSteps
  <2> QED BY <1>10, <2>1 DEF Orderly, Once, OpensBefore, CreateFirst,
       Belong, MakesTurn, NewId, StepNames
<1>11. CASE r.do = "checkpoint"
  <2>1. Steps(r) = <<"row", "turns", "attach">>
    BY <1>11 DEF Steps, CheckpointSteps
  <2> QED BY <1>11, <2>1 DEF Orderly, Once, OpensBefore, CreateFirst,
       Belong, MakesTurn, NewId, StepNames
<1>12. CASE r.do = "artifact"
  <2>1. Steps(r) = <<"row", "turns", "attach">>
    BY <1>12 DEF Steps, ArtifactSteps
  <2> QED BY <1>12, <2>1 DEF Orderly, Once, OpensBefore, CreateFirst,
       Belong, MakesTurn, NewId, StepNames
<1>13. CASE r.do = "remove"
  <2>1. Steps(r) = <<"remove">>
    BY <1>13 DEF Steps, RemoveSteps
  <2> QED BY <1>13, <2>1 DEF Orderly, Once, OpensBefore, CreateFirst,
       Belong, MakesTurn, NewId, StepNames
<1>14. CASE r.do = "prune"
  <2>1. Steps(r) = <<"row", "prune">>
    BY <1>14 DEF Steps, PruneSteps
  <2> QED BY <1>14, <2>1 DEF Orderly, Once, OpensBefore, CreateFirst,
       Belong, MakesTurn, NewId, StepNames
<1>15. CASE r.do = "export"
  <2>1. Steps(r) = <<"row", "turns", "events", "todos", "checkpoint", "artifact", "run">>
    BY <1>15 DEF Steps, ExportSteps
  <2> QED BY <1>15, <2>1 DEF Orderly, Once, OpensBefore, CreateFirst,
       Belong, MakesTurn, NewId, StepNames
<1>16. CASE r.do = "import"
  <2>1. Steps(r) = <<"admit", "session", "restore">>
    BY <1>16 DEF Steps, ImportSteps
  <2> QED BY <1>16, <2>1 DEF Orderly, Once, OpensBefore, CreateFirst,
       Belong, MakesTurn, NewId, StepNames
<1> QED BY <1>1, <1>2, <1>3, <1>4, <1>5, <1>6, <1>7, <1>8, <1>9, <1>10, <1>11, <1>12,
  <1>13, <1>14, <1>15, <1>16

SesOf(r) == IF "ses" \in DOMAIN r THEN r.ses ELSE None

\* Who reads turns, exports or imports names the session.
LEMMA SesIsNamed ==
  ASSUME NEW r \in Request
  PROVE  /\ "turns" \in TurnSet(Steps(r)) => SesOf(r) \in Names
         /\ r.do = "import" => "turns" \notin TurnSet(Steps(r)) /\ r.as \in Names \cup {None}
         /\ SesOf(r) \in Names \cup {None}
         /\ r.do = "export" => SesOf(r) \in Names
<1>1. CASE r \in [do : {"run"}, ses : Names \cup {None}]
  <2>1. r.do = "run" /\ SesOf(r) = r.ses /\ r.ses \in Names \cup {None}
    BY <1>1 DEF SesOf
  <2>2. CASE r.ses = None
    <3>1. Steps(r) = <<"create", "agent", "todos", "append", "record">>
      BY <2>1, <2>2 DEF Steps, NewRunSteps
    <3> QED BY <2>1, <3>1 DEF TurnSet, NewId
  <2> QED BY <2>1, <2>2 DEF NewId
<1>2. CASE r \in [do : {"fork"}, ses : Names, at : TurnIds \cup {None}]
  BY <1>2 DEF SesOf, NewId
<1>3. CASE r \in [do : {"put"}, ses : Names, todos : SUBSET TodoIds]
  BY <1>3 DEF SesOf
<1>4. CASE r \in [do : {"upsert", "drop"}, ses : Names, todo : TodoIds]
  BY <1>4 DEF SesOf
<1>5. CASE r \in [do : {"compact"}, ses : Names, checkpoint : BOOLEAN]
  BY <1>5 DEF SesOf
<1>6. CASE r \in [do : {"checkpoint", "artifact"}, ses : Names, id : ItemIds, turn : TurnIds \cup {None}]
  BY <1>6 DEF SesOf
<1>7. CASE r \in [do : {"remove"}, id : ItemIds]
  <2>1. r.do = "remove" /\ SesOf(r) = None
    BY <1>7 DEF SesOf
  <2>2. Steps(r) = <<"remove">>
    BY <2>1 DEF Steps, RemoveSteps
  <2> QED BY <2>1, <2>2 DEF TurnSet
<1>8. CASE r \in [do : {"create"}]
  <2>1. r.do = "create" /\ SesOf(r) = None
    BY <1>8 DEF SesOf
  <2>2. Steps(r) = <<"create">>
    BY <2>1 DEF Steps, CreateSteps
  <2> QED BY <2>1, <2>2 DEF TurnSet, NewId
<1>9. CASE r \in [do : {"prune", "export"}, ses : Names]
  BY <1>9 DEF SesOf
<1>10. CASE r \in [do : {"import"}, as : Names \cup {None}, overwrite : BOOLEAN]
  <2>1. r.do = "import" /\ SesOf(r) = None /\ r.as \in Names \cup {None}
    BY <1>10 DEF SesOf
  <2>2. Steps(r) = <<"admit", "session", "restore">>
    BY <2>1 DEF Steps, ImportSteps
  <2> QED BY <2>1, <2>2 DEF TurnSet
<1> QED BY <1>1, <1>2, <1>3, <1>4, <1>5, <1>6, <1>7, <1>8, <1>9, <1>10 DEF Request

Fields == {"pc", "req", "steps", "ses", "row", "turns", "events", "todos", "items",
           "left", "alone", "stale"}
Shaped(r) ==
  /\ r = [x \in Fields |-> r[x]]
  /\ r.pc \in {"idle", "busy", "done", "failed"} /\ r.req \in Request \cup {None}
  /\ r.steps \in Seq(StepNames) /\ r.turns \in Seq(TurnIds)
  /\ r.alone \in BOOLEAN /\ r.stale \in BOOLEAN

\* The worker, but for its marks.
Alike(r, d) ==
  /\ d.pc = r.pc /\ d.req = r.req /\ d.steps = r.steps /\ d.ses = r.ses
  /\ d.turns = r.turns /\ (r.stale => d.stale)

\* A worker at rest is a record of the right shape.
LEMMA BlankIsShaped == Shaped(Blank)
BY EmptySeq DEF Blank, Shaped, Fields

\* A write of somebody else leaves a worker as it was but for its marks, and
\* marks it stale when it replaces the session it is in.
LEMMA DisturbedIsAlike ==
  ASSUME NEW r, Shaped(r), NEW s, NEW replaced \in BOOLEAN
  PROVE  /\ Shaped(Disturbed(r, s, replaced)) /\ Alike(r, Disturbed(r, s, replaced))
         /\ replaced /\ r.pc # "idle" /\ r.ses = s => Disturbed(r, s, replaced).stale
<1> DEFINE alone == r.alone /\ ~(r.pc = "busy" /\ r.req.do \in {"export", "import"})
           stale == r.stale \/ (replaced /\ r.pc # "idle" /\ r.ses = s)
<1>1. alone \in BOOLEAN /\ stale \in BOOLEAN /\ (r.stale => stale)
  BY DEF Shaped
<1>2. replaced /\ r.pc # "idle" /\ r.ses = s => stale
  OBVIOUS
<1>3. Disturbed(r, s, replaced) = [r EXCEPT !.alone = alone, !.stale = stale]
  BY DEF Disturbed
<1> HIDE DEF alone, stale
<1>4. ASSUME NEW d, d = [r EXCEPT !.alone = alone, !.stale = stale]
      PROVE  Shaped(d) /\ Alike(r, d) /\ d.stale = stale
  BY <1>1, <1>4 DEF Shaped, Alike, Fields
<1> QED BY <1>2, <1>3, <1>4

\* A step moves a worker to the rest of its steps; only an export keeps what it
\* has read when none is left.
LEMMA AfterIsNext ==
  ASSUME NEW r, Shaped(r), r.pc = "busy", Len(r.steps) > 0
  PROVE  LET d == After(r) IN
         /\ Shaped(d) /\ d.req = r.req /\ d.ses = r.ses /\ d.stale = r.stale
         /\ d.steps = Tail(r.steps)
         /\ \/ d.pc = "busy" /\ Len(d.steps) > 0 /\ d.turns = r.turns
            \/ d.pc = "done" /\ Len(d.steps) = 0 /\ d.turns = r.turns
            \/ d.pc = "done" /\ Len(d.steps) = 0 /\ d.turns = <<>> /\ r.req.do # "export"
<1> DEFINE rest == Tail(r.steps)
<1>1. rest \in Seq(StepNames) /\ (rest = <<>> \/ Len(rest) > 0) /\ Len(<<>>) = 0
  BY DEF Shaped
<1>2. <<>> \in Seq(TurnIds)
  BY EmptySeq
<1> HIDE DEF rest
<1>3. CASE rest # <<>>
  <2>1. After(r) = [r EXCEPT !.steps = rest]
    BY <1>3 DEF After, rest
  <2>2. ASSUME NEW d, d = [r EXCEPT !.steps = rest]
        PROVE  Shaped(d) /\ Alike(r, [d EXCEPT !.steps = r.steps]) /\ d.steps = rest /\ d.stale = r.stale
    BY <1>1, <2>2 DEF Shaped, Alike, Fields
  <2>3. ASSUME NEW d, d = [r EXCEPT !.steps = rest]
        PROVE  d.pc = r.pc /\ d.req = r.req /\ d.ses = r.ses /\ d.turns = r.turns
    BY <2>3 DEF Shaped, Fields
  <2> QED BY <1>1, <1>3, <2>1, <2>2, <2>3 DEF rest
<1>4. CASE rest = <<>> /\ r.req.do = "export"
  <2>1. After(r) = [r EXCEPT !.steps = rest, !.pc = "done"]
    BY <1>4 DEF After, rest
  <2>2. ASSUME NEW d, d = [r EXCEPT !.steps = rest, !.pc = "done"]
        PROVE  /\ Shaped(d) /\ d.pc = "done" /\ d.req = r.req /\ d.ses = r.ses
               /\ d.turns = r.turns /\ d.steps = rest /\ d.stale = r.stale
    BY <1>1, <2>2 DEF Shaped, Fields
  <2> QED BY <1>1, <1>4, <2>1, <2>2 DEF rest
<1>5. CASE rest = <<>> /\ r.req.do # "export"
  <2>1. After(r) = [Blank EXCEPT !.pc = "done", !.req = r.req, !.ses = r.ses,
                                 !.alone = r.alone, !.stale = r.stale]
    BY <1>5 DEF After, rest
  <2>2. ASSUME NEW d, d = [Blank EXCEPT !.pc = "done", !.req = r.req, !.ses = r.ses,
                                        !.alone = r.alone, !.stale = r.stale]
        PROVE  /\ Shaped(d) /\ d.pc = "done" /\ d.req = r.req /\ d.ses = r.ses
               /\ d.turns = <<>> /\ d.steps = <<>> /\ d.stale = r.stale
    <3>1. /\ d.pc = "done" /\ d.req = r.req /\ d.ses = r.ses /\ d.alone = r.alone
          /\ d.turns = <<>> /\ d.steps = <<>> /\ d.stale = r.stale
      BY <2>2 DEF Blank
    <3>2. d = [x \in Fields |-> d[x]]
      BY <2>2 DEF Blank, Fields
    <3> QED BY <1>1, <1>2, <3>1, <3>2 DEF Shaped
  <2> QED BY <1>1, <1>5, <2>1, <2>2 DEF rest
<1> QED BY <1>3, <1>4, <1>5

\* A worker that fails keeps its request and forgets what it has read.
LEMMA StoppedIsEnd ==
  ASSUME NEW r, Shaped(r)
  PROVE  LET d == Stopped(r) IN
         /\ Shaped(d) /\ d.pc = "failed" /\ d.req = r.req /\ d.ses = r.ses
         /\ d.stale = r.stale /\ d.steps = r.steps /\ d.turns = <<>>
<1>1. <<>> \in Seq(TurnIds)
  BY EmptySeq
<1>2. Stopped(r) = [Blank EXCEPT !.pc = "failed", !.req = r.req, !.ses = r.ses,
                            !.steps = r.steps, !.stale = r.stale]
  BY DEF Stopped
<1>3. ASSUME NEW d, d = [Blank EXCEPT !.pc = "failed", !.req = r.req, !.ses = r.ses,
                            !.steps = r.steps, !.stale = r.stale]
      PROVE  /\ Shaped(d) /\ d.pc = "failed" /\ d.req = r.req /\ d.ses = r.ses
             /\ d.stale = r.stale /\ d.steps = r.steps /\ d.turns = <<>>
  BY <1>1, <1>3 DEF Shaped, Fields, Blank
<1> QED BY <1>2, <1>3

-----------------------------------------------------------------------------
(* What a step does to its worker and to the others.                        *)

WorkersShaped == w = [a \in Workers |-> w[a]] /\ \A a \in Workers : Shaped(w[a])

Grown(r, d) ==
  /\ Shaped(d) /\ d.pc = r.pc /\ d.req = r.req /\ d.steps = r.steps /\ (r.stale => d.stale)

OthersKeep(a) ==
  /\ WorkersShaped'
  /\ \A b \in Workers \ {a} : Alike(w[b], w'[b])

\* Worker a takes a step and then is in session ses and holds seq.
Advances(a, ses, seq) ==
  /\ w[a].pc = "busy" /\ Len(w[a].steps) > 0
  /\ w'[a].req = w[a].req /\ w'[a].ses = ses /\ (w[a].stale => w'[a].stale)
  /\ w'[a].steps = Tail(w[a].steps)
  /\ \/ w'[a].pc = "busy" /\ Len(w'[a].steps) > 0 /\ w'[a].turns = seq
     \/ w'[a].pc = "done" /\ Len(w'[a].steps) = 0 /\ w'[a].turns = seq
     \/ w'[a].pc = "done" /\ Len(w'[a].steps) = 0 /\ w'[a].turns = <<>> /\ w[a].req.do # "export"

\* A worker that does not move is alike.
LEMMA SameIsAlike == ASSUME NEW r PROVE Alike(r, r)
BY DEF Alike

\* A read advances its worker and leaves the others.
LEMMA ReadsAdvance ==
  ASSUME WorkersShaped, NEW a \in Workers, NEW r, Grown(w[a], r), Reads(a, r),
         w[a].pc = "busy", Len(w[a].steps) > 0
  PROVE  OthersKeep(a) /\ Advances(a, r.ses, r.turns)
<1>1. w' = [w EXCEPT ![a] = After(r)]
  BY DEF Reads
<1>2. Shaped(r) /\ r.pc = "busy" /\ r.steps = w[a].steps /\ r.req = w[a].req
      /\ (w[a].stale => r.stale)
  BY DEF Grown
<1>3. w'[a] = After(r) /\ \A b \in Workers \ {a} : w'[b] = w[b]
  BY <1>1 DEF WorkersShaped
<1>4. WorkersShaped'
  <2>1. w' = [b \in Workers |-> w'[b]]
    BY <1>1 DEF WorkersShaped
  <2>2. \A b \in Workers : Shaped(w'[b])
    BY <1>2, <1>3, AfterIsNext DEF WorkersShaped
  <2> QED BY <2>1, <2>2 DEF WorkersShaped
<1>5. OthersKeep(a)
  BY <1>3, <1>4, SameIsAlike DEF OthersKeep
<1>6. Advances(a, r.ses, r.turns)
  BY <1>2, <1>3, AfterIsNext DEF Advances
<1> QED BY <1>5, <1>6

\* A write leaves the others alike.
LEMMA BecomesKeeps ==
  ASSUME WorkersShaped, NEW a \in Workers, NEW r, Shaped(r), Becomes(a, r)
  PROVE  OthersKeep(a) /\ w'[a] = r
<1>1. w' = [b \in Workers |-> IF b = a THEN r ELSE Disturbed(w[b], None, FALSE)]
  BY DEF Becomes
<1>2. w'[a] = r /\ \A b \in Workers \ {a} : w'[b] = Disturbed(w[b], None, FALSE)
  BY <1>1
<1>3. \A b \in Workers \ {a} : Shaped(w'[b]) /\ Alike(w[b], w'[b])
  BY <1>2, DisturbedIsAlike DEF WorkersShaped
<1>4. w' = [b \in Workers |-> w'[b]]
  BY <1>1
<1> QED BY <1>2, <1>3, <1>4 DEF OthersKeep, WorkersShaped

\* A write advances its worker and leaves the others alike.
LEMMA WritesAdvance ==
  ASSUME WorkersShaped, NEW a \in Workers, NEW r, Grown(w[a], r), Writes(a, r),
         w[a].pc = "busy", Len(w[a].steps) > 0
  PROVE  OthersKeep(a) /\ Advances(a, r.ses, r.turns)
<1>1. Shaped(r) /\ r.pc = "busy" /\ r.steps = w[a].steps /\ r.req = w[a].req
      /\ (w[a].stale => r.stale)
  BY DEF Grown
<1>2. OthersKeep(a) /\ w'[a] = After(r)
  BY <1>1, AfterIsNext, BecomesKeeps DEF Writes
<1> QED BY <1>1, <1>2, AfterIsNext DEF Advances

Halts(a) ==
  /\ w'[a].pc = "failed" /\ w'[a].req = w[a].req /\ w'[a].ses = w[a].ses
  /\ w'[a].stale = w[a].stale /\ w'[a].steps = w[a].steps /\ w'[a].turns = <<>>

\* A failure halts its worker and leaves the others.
LEMMA FailsHalts ==
  ASSUME WorkersShaped, NEW a \in Workers, Fails(a)
  PROVE  OthersKeep(a) /\ Halts(a)
<1>1. w' = [w EXCEPT ![a] = Stopped(w[a])]
  BY DEF Fails
<1>2. w'[a] = Stopped(w[a]) /\ \A b \in Workers \ {a} : w'[b] = w[b]
  BY <1>1 DEF WorkersShaped
<1>3. w' = [b \in Workers |-> w'[b]]
  BY <1>1 DEF WorkersShaped
<1>4. \A b \in Workers : Shaped(w'[b])
  BY <1>2, StoppedIsEnd DEF WorkersShaped
<1> QED BY <1>2, <1>3, <1>4, StoppedIsEnd, SameIsAlike DEF OthersKeep, WorkersShaped, Halts

Same(r, d) == d.ses = r.ses /\ d.turns = r.turns

\* What a step may change of its worker first, field by field.
LEMMA RowGrows ==
  ASSUME NEW r, Shaped(r), NEW x, NEW d, d = [r EXCEPT !.row = x]
  PROVE  Grown(r, d) /\ Same(r, d)
BY DEF Grown, Same, Shaped, Fields

\* The same, for the row and the mark of a replaced session.
LEMMA StaleRowGrows ==
  ASSUME NEW r, Shaped(r), NEW x, NEW st \in BOOLEAN, r.stale => st,
         NEW d, d = [r EXCEPT !.row = x, !.stale = st]
  PROVE  Grown(r, d) /\ Same(r, d)
BY DEF Grown, Same, Shaped, Fields

\* The same, for the events.
LEMMA EventsGrow ==
  ASSUME NEW r, Shaped(r), NEW x, NEW d, d = [r EXCEPT !.events = x]
  PROVE  Grown(r, d) /\ Same(r, d)
BY DEF Grown, Same, Shaped, Fields

\* The same, for the todos.
LEMMA TodosGrow ==
  ASSUME NEW r, Shaped(r), NEW x, NEW d, d = [r EXCEPT !.todos = x]
  PROVE  Grown(r, d) /\ Same(r, d)
BY DEF Grown, Same, Shaped, Fields

\* The same, for the items of an export.
LEMMA ItemsGrow ==
  ASSUME NEW r, Shaped(r), NEW x, NEW d, d = [r EXCEPT !.items = x]
  PROVE  Grown(r, d) /\ Same(r, d)
BY DEF Grown, Same, Shaped, Fields

\* The same, for the items an import has left.
LEMMA LeftGrows ==
  ASSUME NEW r, Shaped(r), NEW x, NEW d, d = [r EXCEPT !.left = x]
  PROVE  Grown(r, d) /\ Same(r, d)
BY DEF Grown, Same, Shaped, Fields

\* The same, for the mark of an overlap.
LEMMA AloneGrows ==
  ASSUME NEW r, Shaped(r), NEW x \in BOOLEAN, NEW d, d = [r EXCEPT !.alone = x]
  PROVE  Grown(r, d) /\ Same(r, d)
BY DEF Grown, Same, Shaped, Fields

\* The same, for the turns.
LEMMA TurnsGrow ==
  ASSUME NEW r, Shaped(r), NEW x \in Seq(TurnIds), NEW d, d = [r EXCEPT !.turns = x]
  PROVE  Grown(r, d) /\ d.ses = r.ses /\ d.turns = x
BY DEF Grown, Same, Shaped, Fields

\* The same, for the session.
LEMMA SesGrows ==
  ASSUME NEW r, Shaped(r), NEW x, NEW d, d = [r EXCEPT !.ses = x]
  PROVE  Grown(r, d) /\ d.ses = x /\ d.turns = r.turns
BY DEF Grown, Same, Shaped, Fields

\* The same, for what a fork sets.
LEMMA ForkGrows ==
  ASSUME NEW r, Shaped(r), NEW x, NEW y, NEW z \in Seq(TurnIds),
         NEW d, d = [r EXCEPT !.ses = x, !.row = y, !.turns = z]
  PROVE  Grown(r, d) /\ d.ses = x /\ d.turns = z
BY DEF Grown, Same, Shaped, Fields

-----------------------------------------------------------------------------
(* The moves.                                                               *)

BusyHasSteps == \A a \in Workers : w[a].pc = "busy" => Len(w[a].steps) > 0
Ready == WorkersShaped /\ BusyHasSteps

\* Neither the turns nor the set of sessions changes.
Quiet == turns' = turns /\ DOMAIN rows' = DOMAIN rows

\* A step that reads or writes something else, is done over, or fails.
Kept(a) ==
  /\ Quiet /\ OthersKeep(a) /\ Advances(a, w[a].ses, w[a].turns)
  /\ Head(w[a].steps) \notin {"turns", "create", "fork", "append", "session"}
  /\ Head(w[a].steps) = "row" => w[a].ses \in DOMAIN rows

Repeated(a) ==
  /\ Quiet /\ OthersKeep(a) /\ w[a].pc = "busy" /\ w'[a].pc = "busy"
  /\ w'[a].req = w[a].req /\ w'[a].ses = w[a].ses /\ (w[a].stale => w'[a].stale)
  /\ w'[a].steps = w[a].steps /\ w'[a].turns = w[a].turns

Halted(a) == Quiet /\ OthersKeep(a) /\ Halts(a) /\ w[a].pc = "busy"

\* A failure writes nothing.
LEMMA FailsHalted ==
  ASSUME WorkersShaped, NEW a \in Workers, w[a].pc = "busy", Fails(a)
  PROVE  Halted(a)
BY FailsHalts DEF Halted, Quiet, Fails, DbSame

\* Reading the row changes no turns, and finds the row there.
LEMMA ReadRowKeeps ==
  ASSUME Ready, NEW a \in Workers, ReadRow(a) PROVE Kept(a)
<1>1. w[a].pc = "busy" /\ Len(w[a].steps) > 0 /\ Head(w[a].steps) = "row" /\ w[a].ses \in DOMAIN rows
  BY DEF ReadRow, At, Ready, BusyHasSteps
<1> DEFINE st == w[a].stale \/ w[a].ses \in mixed
           r == [w[a] EXCEPT !.row = rows[w[a].ses], !.stale = st]
<1>2. Shaped(w[a]) /\ st \in BOOLEAN /\ (w[a].stale => st)
  BY DEF Ready, WorkersShaped, Shaped
<1>3. Reads(a, r) /\ Quiet
  BY DEF ReadRow, Quiet, DbSame
<1> HIDE DEF st
<1>4. Grown(w[a], r) /\ Same(w[a], r)
  BY <1>2, StaleRowGrows
<1> HIDE DEF r
<1>5. OthersKeep(a) /\ Advances(a, w[a].ses, w[a].turns)
  BY <1>1, <1>3, <1>4, ReadsAdvance DEF Same, Ready
<1> QED BY <1>1, <1>3, <1>5 DEF Kept

Calm == {"events", "todos", "agent", "record", "save", "state", "attach", "remove", "prune",
         "checkpoint", "artifact", "run", "admit", "restore"}

\* A read other than that of the turns keeps turns and rows.
LEMMA ReadsKeep ==
  ASSUME Ready, NEW a \in Workers, w[a].pc = "busy", Head(w[a].steps) \in Calm,
         NEW r, Grown(w[a], r), Same(w[a], r), Reads(a, r), Quiet
  PROVE  Kept(a)
<1>1. Len(w[a].steps) > 0
  BY DEF Ready, BusyHasSteps
<1>2. OthersKeep(a) /\ Advances(a, w[a].ses, w[a].turns)
  BY <1>1, ReadsAdvance DEF Same, Ready
<1> QED BY <1>2 DEF Kept, Calm

\* A write of something else keeps turns and rows.
LEMMA WritesKeep ==
  ASSUME Ready, NEW a \in Workers, w[a].pc = "busy", Head(w[a].steps) \in Calm,
         NEW r, Grown(w[a], r), Same(w[a], r), Writes(a, r), Quiet
  PROVE  Kept(a)
<1>1. Len(w[a].steps) > 0
  BY DEF Ready, BusyHasSteps
<1>2. OthersKeep(a) /\ Advances(a, w[a].ses, w[a].turns)
  BY <1>1, WritesAdvance DEF Same, Ready
<1> QED BY <1>2 DEF Kept, Calm

\* A step that changes nothing of its worker.
LEMMA NothingGrows == ASSUME NEW r, Shaped(r) PROVE Grown(r, r) /\ Same(r, r)
BY DEF Grown, Same

\* The reads that keep.
LEMMA ReadsOfOneStep ==
  ASSUME Ready, NEW a \in Workers,
         ReadEvents(a) \/ ReadTodos(a) \/ Agent(a) \/ ReadItems(a) \/ Admit(a)
  PROVE  Kept(a)
<1>1. Shaped(w[a])
  BY DEF Ready, WorkersShaped
<1>2. CASE ReadEvents(a)
  <2> DEFINE r == [w[a] EXCEPT !.events = TurnSet(turns[w[a].ses])]
  <2>1. w[a].pc = "busy" /\ Head(w[a].steps) \in Calm /\ Reads(a, r) /\ Quiet
    BY <1>2 DEF ReadEvents, At, Calm, Quiet, DbSame
  <2>2. Grown(w[a], r) /\ Same(w[a], r)
    BY <1>1, EventsGrow
  <2> HIDE DEF r
  <2> QED BY <2>1, <2>2, ReadsKeep
<1>3. CASE ReadTodos(a)
  <2> DEFINE r == [w[a] EXCEPT !.todos = todos[w[a].ses]]
  <2>1. w[a].pc = "busy" /\ Head(w[a].steps) \in Calm /\ Reads(a, r) /\ Quiet
    BY <1>3 DEF ReadTodos, At, Calm, Quiet, DbSame
  <2>2. Grown(w[a], r) /\ Same(w[a], r)
    BY <1>1, TodosGrow
  <2> HIDE DEF r
  <2> QED BY <2>1, <2>2, ReadsKeep
<1>4. CASE Agent(a)
  <2>1. w[a].pc = "busy" /\ Head(w[a].steps) \in Calm /\ Quiet
    BY <1>4 DEF Agent, At, Calm, Quiet, DbSame
  <2>2. PICK x : Reads(a, [w[a] EXCEPT !.row = x])
    BY <1>4 DEF Agent
  <2> DEFINE r == [w[a] EXCEPT !.row = x]
  <2>3. Grown(w[a], r) /\ Same(w[a], r)
    BY <1>1, RowGrows
  <2>4. Reads(a, r)
    BY <2>2
  <2> HIDE DEF r
  <2> QED BY <2>1, <2>3, <2>4, ReadsKeep
<1>5. CASE ReadItems(a)
  <2>1. w[a].pc = "busy" /\ Head(w[a].steps) \in Calm /\ Quiet
    BY <1>5 DEF ReadItems, Calm, Quiet, DbSame, Kinds
  <2>2. PICK x : Reads(a, [w[a] EXCEPT !.items = x])
    BY <1>5 DEF ReadItems
  <2> DEFINE r == [w[a] EXCEPT !.items = x]
  <2>3. Grown(w[a], r) /\ Same(w[a], r)
    BY <1>1, ItemsGrow
  <2>4. Reads(a, r)
    BY <2>2
  <2> HIDE DEF r
  <2> QED BY <2>1, <2>3, <2>4, ReadsKeep
<1>6. CASE Admit(a)
  <2>1. w[a].pc = "busy" /\ Head(w[a].steps) \in Calm /\ Reads(a, w[a]) /\ Quiet
    BY <1>6 DEF Admit, At, Calm, Quiet, DbSame
  <2> QED BY <1>1, <2>1, NothingGrows, ReadsKeep
<1> QED BY <1>2, <1>3, <1>4, <1>5, <1>6

\* The writes that keep.
LEMMA WritesOfOneStep ==
  ASSUME Ready, NEW a \in Workers,
         RecordRun(a) \/ SaveState(a) \/ RemoveArtifact(a) \/ PruneArtifacts(a)
  PROVE  Kept(a)
<1>1. Shaped(w[a])
  BY DEF Ready, WorkersShaped
<1>2. w[a].pc = "busy" /\ Head(w[a].steps) \in Calm
  BY DEF RecordRun, SaveState, RemoveArtifact, PruneArtifacts, At, Calm
<1>3. Writes(a, w[a])
  BY DEF RecordRun, SaveState, RemoveArtifact, PruneArtifacts, Drop
<1>4. Quiet
  <2>1. CASE RecordRun(a) \/ RemoveArtifact(a) \/ PruneArtifacts(a)
    BY <2>1 DEF RecordRun, RemoveArtifact, PruneArtifacts, Drop, Quiet
  <2>2. CASE SaveState(a)
    <3>1. turns' = turns
      BY <2>2 DEF SaveState
    <3>2. PICK sum, row : rows' = IF sum = {} THEN rows ELSE [rows EXCEPT ![w[a].ses] = row]
      BY <2>2 DEF SaveState
    <3> QED BY <3>1, <3>2 DEF Quiet
  <2> QED BY <2>1, <2>2
<1> QED BY <1>1, <1>2, <1>3, <1>4, NothingGrows, WritesKeep

\* Saving todos keeps turns and rows; it marks others, no more.
LEMMA SaveTodosKeeps ==
  ASSUME Ready, NEW a \in Workers, SaveTodos(a)
  PROVE  Kept(a)
<1> DEFINE s == w[a].ses
           rivals == Holding(a, s)
           spoilt == rivals \cup Obsolete(a, s)
           alone == w[a].alone /\ rivals = {}
           r == [w[a] EXCEPT !.alone = alone]
<1>1. w[a].pc = "busy" /\ Head(w[a].steps) = "save" /\ Len(w[a].steps) > 0
  BY DEF SaveTodos, At, Ready, BusyHasSteps
<1>2. Shaped(w[a]) /\ WorkersShaped
  BY DEF Ready, WorkersShaped
<1>3. alone \in BOOLEAN
  OBVIOUS
<1>4. w' = [b \in Workers |-> IF b = a THEN After(r)
              ELSE IF b \in spoilt THEN [w[b] EXCEPT !.alone = FALSE]
              ELSE Disturbed(w[b], None, FALSE)]
  BY DEF SaveTodos
<1>5. Quiet
  BY DEF SaveTodos, Quiet
<1> HIDE DEF spoilt, alone, rivals
<1>6. Grown(w[a], r) /\ Same(w[a], r)
  BY <1>2, <1>3, AloneGrows
<1> HIDE DEF r
<1>7. Shaped(r) /\ r.pc = "busy" /\ Len(r.steps) > 0
  BY <1>1, <1>6 DEF Grown
<1>8. \A b \in Workers \ {a} : Shaped(w'[b]) /\ Alike(w[b], w'[b])
  <2> TAKE b \in Workers \ {a}
  <2>1. Shaped(w[b])
    BY <1>2 DEF WorkersShaped
  <2>2. CASE b \in spoilt
    <3> DEFINE d == [w[b] EXCEPT !.alone = FALSE]
    <3>1. w'[b] = d
      BY <1>4, <2>2
    <3>2. Grown(w[b], d) /\ Same(w[b], d)
      BY <2>1, AloneGrows
    <3> HIDE DEF d
    <3> QED BY <3>1, <3>2 DEF Grown, Same, Alike
  <2>3. CASE b \notin spoilt
    BY <1>4, <2>1, <2>3, DisturbedIsAlike
  <2> QED BY <2>2, <2>3
<1>9. w'[a] = After(r)
  BY <1>4
<1>10. w' = [b \in Workers |-> w'[b]]
  BY <1>4
<1>11. OthersKeep(a)
  BY <1>7, <1>8, <1>9, <1>10, AfterIsNext DEF OthersKeep, WorkersShaped
<1>12. Advances(a, w[a].ses, w[a].turns)
  BY <1>1, <1>6, <1>7, <1>9, AfterIsNext DEF Advances, Grown, Same
<1> QED BY <1>1, <1>5, <1>11, <1>12 DEF Kept

\* Attaching keeps, or halts when the id belongs to another session.
LEMMA AttachKeepsOrHalts ==
  ASSUME Ready, NEW a \in Workers, Attach(a)
  PROVE  Kept(a) \/ Halted(a)
<1>1. w[a].pc = "busy" /\ Head(w[a].steps) \in Calm /\ Quiet /\ Shaped(w[a]) /\ WorkersShaped
  BY DEF Attach, At, Calm, Quiet, Ready, WorkersShaped
<1>2. Becomes(a, After(w[a])) \/ Becomes(a, Stopped(w[a]))
  BY DEF Attach
<1>3. CASE Becomes(a, After(w[a]))
  <2>1. Writes(a, w[a])
    BY <1>3 DEF Writes
  <2> QED BY <1>1, <2>1, NothingGrows, WritesKeep
<1>4. CASE Becomes(a, Stopped(w[a]))
  BY <1>1, <1>4, StoppedIsEnd, BecomesKeeps DEF Halted, Halts
<1> QED BY <1>2, <1>3, <1>4

\* The steps that fail.
LEMMA FailuresHalt ==
  ASSUME Ready, NEW a \in Workers,
         NotFound(a) \/ ForkFails(a) \/ NoSuchTodo(a) \/ NoSuchTurn(a) \/ Refuse(a)
           \/ ImportConflict(a) \/ Abandon(a)
  PROVE  Halted(a)
<1>1. w[a].pc = "busy" /\ Fails(a)
  BY DEF NotFound, ForkFails, NoSuchTodo, NoSuchTurn, Refuse, ImportConflict, Abandon, At
<1> QED BY <1>1, FailsHalted DEF Ready

\* The steps that read, create, fork, append to or replace a session.
Reading(a) ==
  /\ Quiet /\ OthersKeep(a) /\ Advances(a, w[a].ses, turns[w[a].ses])
  /\ Head(w[a].steps) = "turns"

Creating(a) ==
  /\ OthersKeep(a) /\ Advances(a, a, w[a].turns) /\ Head(w[a].steps) = "create"
  /\ turns' = [turns EXCEPT ![a] = <<>>] /\ DOMAIN rows' = DOMAIN rows \cup {a}

Forking(a) ==
  \E n \in 0..Len(w[a].turns) :
    LET seq == SubSeq(w[a].turns, 1, n)
    IN /\ OthersKeep(a) /\ Advances(a, a, seq) /\ Head(w[a].steps) = "fork"
       /\ ~Conflict(a, seq)
       /\ turns' = [turns EXCEPT ![a] = seq] /\ DOMAIN rows' = DOMAIN rows \cup {a}

Appending(a) ==
  /\ OthersKeep(a) /\ Advances(a, w[a].ses, w[a].turns) /\ Head(w[a].steps) = "append"
  /\ turns' = [turns EXCEPT ![w[a].ses] = Append(@, a)] /\ DOMAIN rows' = DOMAIN rows

Replacing(a) ==
  LET s == w[a].ses
  IN /\ w[a].pc = "busy" /\ Head(w[a].steps) = "session" /\ OthersKeep(a)
     /\ \A b \in Workers \ {a} :
          s \in DOMAIN rows /\ w[b].pc # "idle" /\ w[b].ses = s => w'[b].stale
     /\ w'[a].req = w[a].req /\ w'[a].ses = s /\ (w[a].stale => w'[a].stale)
     /\ \/ w'[a].pc = "busy" /\ w'[a].steps = Tail(w[a].steps) /\ Len(w'[a].steps) > 0
        \/ w'[a].pc = "done" /\ w'[a].steps = <<>>
     /\ w'[a].turns = w[a].turns \/ w'[a].turns = <<>>
     /\ ~Conflict(s, w[a].turns)
     /\ turns' = [turns EXCEPT ![s] = w[a].turns] /\ DOMAIN rows' = DOMAIN rows \cup {s}

TurnsTyped == turns \in [Ids -> Seq(TurnIds)]

\* Restoring an item keeps, and repeats its step while items are left.
LEMMA RestoreItemKeepsOrRepeats ==
  ASSUME Ready, NEW a \in Workers, RestoreItem(a)
  PROVE  Kept(a) \/ Repeated(a)
<1>1. w[a].pc = "busy" /\ Head(w[a].steps) \in Calm /\ Quiet /\ Shaped(w[a]) /\ WorkersShaped
  BY DEF RestoreItem, At, Calm, Quiet, Ready, WorkersShaped
<1>0. Len(w[a].steps) > 0 /\ w[a].steps \in Seq(StepNames)
  BY <1>1 DEF Ready, BusyHasSteps, Shaped
<1>2. PICK rest : Writes(a, IF rest = {} THEN [w[a] EXCEPT !.left = rest]
                 ELSE [[w[a] EXCEPT !.left = rest] EXCEPT !.steps = <<"restore">> \o @])
  BY DEF RestoreItem
<1> DEFINE next == [w[a] EXCEPT !.left = rest]
<1>3. Grown(w[a], next) /\ Same(w[a], next)
  BY <1>1, LeftGrows
<1>4. CASE rest = {}
  <2>1. Writes(a, next)
    BY <1>2, <1>4
  <2> HIDE DEF next
  <2> QED BY <1>1, <1>3, <2>1, WritesKeep
<1>5. CASE rest # {}
  <2> DEFINE steps == <<"restore">> \o next.steps
             r == [next EXCEPT !.steps = steps]
  <2>1. Writes(a, r)
    BY <1>2, <1>5
  <2> HIDE DEF next
  <2>2. next.steps = w[a].steps /\ Shaped(next) /\ next.pc = "busy" /\ next.req = w[a].req
        /\ next.ses = w[a].ses /\ next.turns = w[a].turns /\ (w[a].stale => next.stale)
    BY <1>1, <1>3 DEF Grown, Same
  <2>3. steps \in Seq(StepNames) /\ Len(steps) > 0 /\ Tail(steps) = w[a].steps
    <3>1. \A t \in Seq(StepNames) :
            LET u == <<"restore">> \o t IN u \in Seq(StepNames) /\ Len(u) > 0 /\ Tail(u) = t
      <4> TAKE t \in Seq(StepNames)
      <4>1. "restore" \in StepNames
        BY DEF StepNames
      <4> QED BY <4>1
    <3> QED BY <1>0, <2>2, <3>1
  <2> HIDE DEF steps
  <2>4. Shaped(r) /\ r.pc = "busy" /\ r.req = w[a].req /\ r.ses = w[a].ses
        /\ r.turns = w[a].turns /\ (w[a].stale => r.stale) /\ r.steps = steps
    BY <2>2, <2>3 DEF Shaped, Fields
  <2> HIDE DEF r
  <2>7. Len(r.steps) > 0 /\ Tail(r.steps) = w[a].steps
    BY <2>3, <2>4
  <2>8. /\ Shaped(After(r)) /\ After(r).steps = Tail(r.steps) /\ After(r).req = r.req
        /\ After(r).ses = r.ses /\ After(r).stale = r.stale
        /\ Len(After(r).steps) > 0 => After(r).pc = "busy" /\ After(r).turns = r.turns
    <3>1. Shaped(r) /\ r.pc = "busy" /\ Len(r.steps) > 0
      BY <2>4, <2>7
    <3>2. /\ Shaped(After(r)) /\ After(r).req = r.req /\ After(r).ses = r.ses
          /\ After(r).stale = r.stale /\ After(r).steps = Tail(r.steps)
      BY <3>1, AfterIsNext
    <3>3. \/ After(r).pc = "busy" /\ After(r).turns = r.turns
          \/ Len(After(r).steps) = 0
      BY <3>1, AfterIsNext
    <3>4. Len(After(r).steps) > 0 => After(r).pc = "busy" /\ After(r).turns = r.turns
      <4> SUFFICES ASSUME Len(After(r).steps) > 0, Len(After(r).steps) = 0 PROVE FALSE
        BY <3>3
      <4> QED OBVIOUS
    <3> QED BY <3>2, <3>4
  <2>5. Shaped(After(r)) /\ After(r).steps = w[a].steps /\ After(r).pc = "busy"
        /\ After(r).req = w[a].req /\ After(r).ses = w[a].ses
        /\ After(r).turns = w[a].turns /\ (w[a].stale => After(r).stale)
    BY <1>0, <2>4, <2>7, <2>8
  <2>6. OthersKeep(a) /\ w'[a] = After(r)
    BY <1>1, <2>1, <2>5, BecomesKeeps DEF Writes
  <2> QED BY <1>1, <2>5, <2>6 DEF Repeated
<1> QED BY <1>4, <1>5

\* Reading the turns.
LEMMA ReadTurnsReads ==
  ASSUME Ready, TurnsTyped, NEW a \in Workers, w[a].ses \in Ids, ReadTurns(a)
  PROVE  Reading(a)
<1> DEFINE seq == turns[w[a].ses]
           r == [w[a] EXCEPT !.turns = seq]
<1>1. w[a].pc = "busy" /\ Len(w[a].steps) > 0 /\ Head(w[a].steps) = "turns" /\ Reads(a, r) /\ Quiet
  BY DEF ReadTurns, At, Ready, BusyHasSteps, Quiet, DbSame
<1>2. Shaped(w[a]) /\ seq \in Seq(TurnIds)
  BY DEF Ready, WorkersShaped, TurnsTyped
<1> HIDE DEF seq
<1>3. Grown(w[a], r) /\ r.ses = w[a].ses /\ r.turns = seq
  BY <1>2, TurnsGrow
<1> HIDE DEF r
<1>4. OthersKeep(a) /\ Advances(a, w[a].ses, seq)
  BY <1>1, <1>3, ReadsAdvance DEF Ready
<1> QED BY <1>1, <1>4 DEF Reading, seq

\* A table after an insert or an update.
LEMMA PutDomain == ASSUME NEW f, NEW k, NEW v PROVE DOMAIN Put(f, k, v) = DOMAIN f \cup {k}
BY DEF Put

\* Creating a session.
LEMMA CreateCreates ==
  ASSUME Ready, NEW a \in Workers, Create(a)
  PROVE  Creating(a)
<1> DEFINE r == [w[a] EXCEPT !.ses = a]
<1>1. w[a].pc = "busy" /\ Len(w[a].steps) > 0 /\ Head(w[a].steps) = "create" /\ Writes(a, r)
  BY DEF Create, At, Ready, BusyHasSteps
<1>2. turns' = [turns EXCEPT ![a] = <<>>] /\ DOMAIN rows' = DOMAIN rows \cup {a}
  BY PutDomain DEF Create, SaveSession
<1>3. Shaped(w[a])
  BY DEF Ready, WorkersShaped
<1>4. Grown(w[a], r) /\ r.ses = a /\ r.turns = w[a].turns
  BY <1>3, SesGrows
<1> HIDE DEF r
<1>5. OthersKeep(a) /\ Advances(a, a, w[a].turns)
  BY <1>1, <1>4, WritesAdvance DEF Ready
<1> QED BY <1>1, <1>2, <1>5 DEF Creating

\* What a fork keeps is a front of the turns.
LEMMA RetainedIsFront ==
  ASSUME NEW seq \in Seq(TurnIds), NEW at \in TurnSet(seq) \cup {None}
  PROVE  \E n \in 0..Len(seq) : Retained(seq, at) = SubSeq(seq, 1, n)
<1>1. CASE at = None
  <2>1. Retained(seq, at) = seq /\ seq = SubSeq(seq, 1, Len(seq)) /\ Len(seq) \in 0..Len(seq)
    BY <1>1 DEF Retained
  <2> QED BY <2>1
<1>2. CASE at # None
  <2>1. \E i \in DOMAIN seq : seq[i] = at
    BY <1>2 DEF TurnSet
  <2> DEFINE n == CHOOSE i \in DOMAIN seq : seq[i] = at
  <2>2. n \in DOMAIN seq
    BY <2>1
  <2>3. Retained(seq, at) = SubSeq(seq, 1, n)
    BY <1>2 DEF Retained
  <2> HIDE DEF n
  <2>4. n \in 0..Len(seq)
    BY <2>2
  <2> QED BY <2>3, <2>4
<1> QED BY <1>1, <1>2

\* Forking a session.
LEMMA ForkForks ==
  ASSUME Ready, NEW a \in Workers, Fork(a)
  PROVE  Forking(a)
<1> DEFINE seq == Retained(w[a].turns, w[a].req.at)
           row == ForkRow(w[a].row, seq)
           r == [w[a] EXCEPT !.ses = a, !.row = row, !.turns = seq]
<1>1. /\ w[a].pc = "busy" /\ Len(w[a].steps) > 0 /\ Head(w[a].steps) = "fork" /\ Writes(a, r)
      /\ w[a].req.at \in TurnSet(w[a].turns) \cup {None} /\ ~Conflict(a, seq)
  BY DEF Fork, At, Ready, BusyHasSteps, SaveSession
<1>2. turns' = [turns EXCEPT ![a] = seq] /\ DOMAIN rows' = DOMAIN rows \cup {a}
  BY PutDomain DEF Fork, SaveSession
<1>3. Shaped(w[a]) /\ w[a].turns \in Seq(TurnIds)
  BY DEF Ready, WorkersShaped, Shaped
<1>4. PICK n \in 0..Len(w[a].turns) : seq = SubSeq(w[a].turns, 1, n)
  BY <1>1, <1>3, RetainedIsFront
<1> HIDE DEF seq, row
<1>5. seq \in Seq(TurnIds)
  BY <1>3, <1>4
<1>6. r = [w[a] EXCEPT !.ses = a, !.row = row, !.turns = seq]
  OBVIOUS
<1> HIDE DEF r
<1>8. Grown(w[a], r) /\ r.ses = a /\ r.turns = seq
  BY <1>3, <1>5, <1>6 DEF Grown, Shaped, Fields
<1>7. OthersKeep(a) /\ Advances(a, a, seq)
  BY <1>1, <1>8, WritesAdvance DEF Ready
<1> QED BY <1>1, <1>2, <1>4, <1>7 DEF Forking

\* Appending a turn.
LEMMA AppendAppends ==
  ASSUME Ready, NEW a \in Workers, AppendTurn(a)
  PROVE  Appending(a)
<1>1. /\ w[a].pc = "busy" /\ Len(w[a].steps) > 0 /\ Head(w[a].steps) = "append" /\ Writes(a, w[a])
      /\ Shaped(w[a])
  BY DEF AppendTurn, At, Ready, BusyHasSteps, WorkersShaped
<1>2. turns' = [turns EXCEPT ![w[a].ses] = Append(@, a)] /\ DOMAIN rows' = DOMAIN rows
  BY DEF AppendTurn
<1>3. OthersKeep(a) /\ Advances(a, w[a].ses, w[a].turns)
  BY <1>1, WritesAdvance, NothingGrows DEF Ready
<1> QED BY <1>1, <1>2, <1>3 DEF Appending

\* Importing a session.
LEMMA ImportReplaces ==
  ASSUME Ready, NEW a \in Workers, ImportSession(a)
  PROVE  Replacing(a)
<1> DEFINE s == w[a].ses
           replaced == s \in DOMAIN rows
           next == IF w[a].left = {} THEN [w[a] EXCEPT !.steps = <<"session">>] ELSE w[a]
<1>1. /\ w[a].pc = "busy" /\ Len(w[a].steps) > 0 /\ Head(w[a].steps) = "session"
      /\ Shaped(w[a]) /\ WorkersShaped
  BY DEF ImportSession, At, Ready, BusyHasSteps, WorkersShaped
<1>2. /\ ~Conflict(s, w[a].turns)
      /\ turns' = [turns EXCEPT ![s] = w[a].turns] /\ DOMAIN rows' = DOMAIN rows \cup {s}
  BY PutDomain DEF ImportSession, SaveSession
<1>3. w' = [b \in Workers |->
              IF b = a THEN After(next)
              ELSE [Disturbed(w[b], s, replaced) EXCEPT
                      !.alone = @ /\ ~(w[b].ses = s /\ w[b].pc # "idle")]]
  BY DEF ImportSession
<1>4. Shaped(next) /\ next.pc = "busy" /\ next.req = w[a].req /\ next.ses = s
      /\ next.turns = w[a].turns /\ next.stale = w[a].stale /\ Len(next.steps) > 0
      /\ (Tail(next.steps) = <<>> \/ Tail(next.steps) = Tail(w[a].steps))
  <2>1. CASE w[a].left = {}
    <3>1. next = [w[a] EXCEPT !.steps = <<"session">>]
      BY <2>1
    <3> HIDE DEF next
    <3>2. <<"session">> \in Seq(StepNames)
      BY DEF StepNames
    <3>3. next.steps = <<"session">>
      BY <1>1, <3>1 DEF Shaped, Fields
    <3>4. Len(next.steps) > 0 /\ Tail(next.steps) = <<>>
      BY <3>3
    <3>5. Shaped(next) /\ next.pc = "busy" /\ next.req = w[a].req /\ next.ses = s
          /\ next.turns = w[a].turns /\ next.stale = w[a].stale
      BY <1>1, <3>1, <3>2 DEF Shaped, Fields
    <3> QED BY <3>4, <3>5
  <2>2. CASE w[a].left # {}
    <3>1. next = w[a]
      BY <2>2
    <3> HIDE DEF next
    <3> QED BY <1>1, <3>1
  <2> QED BY <2>1, <2>2
<1>5. w'[a] = After(next)
  BY <1>3
<1>6. replaced \in BOOLEAN
  OBVIOUS
<1> HIDE DEF next, replaced
<1>7. \A b \in Workers \ {a} :
        /\ Shaped(w'[b]) /\ Alike(w[b], w'[b])
        /\ replaced /\ w[b].pc # "idle" /\ w[b].ses = s => w'[b].stale
  <2> TAKE b \in Workers \ {a}
  <2> DEFINE d == Disturbed(w[b], s, replaced)
             x == d.alone /\ ~(w[b].ses = s /\ w[b].pc # "idle")
  <2>1. Shaped(w[b])
    BY <1>1 DEF WorkersShaped
  <2>2. Shaped(d) /\ Alike(w[b], d) /\ (replaced /\ w[b].pc # "idle" /\ w[b].ses = s => d.stale)
    BY <1>6, <2>1, DisturbedIsAlike
  <2>3. w'[b] = [d EXCEPT !.alone = x]
    BY <1>3
  <2>4. x \in BOOLEAN
    BY <2>2 DEF Shaped
  <2> HIDE DEF d, x
  <2>5. Grown(d, w'[b]) /\ Same(d, w'[b])
    BY <2>2, <2>3, <2>4, AloneGrows
  <2> QED BY <2>2, <2>5 DEF Grown, Same, Alike
<1>8. w' = [b \in Workers |-> w'[b]]
  BY <1>3
<1>9. /\ Shaped(w'[a]) /\ w'[a].req = w[a].req /\ w'[a].ses = s /\ (w[a].stale => w'[a].stale)
      /\ w'[a].turns = w[a].turns \/ w'[a].turns = <<>>
      /\ w'[a].steps = Tail(next.steps)
      /\ \/ w'[a].pc = "busy" /\ Len(w'[a].steps) > 0
         \/ w'[a].pc = "done" /\ Len(w'[a].steps) = 0
  BY <1>4, <1>5, AfterIsNext
<1>10. OthersKeep(a)
  BY <1>7, <1>8, <1>9 DEF OthersKeep, WorkersShaped
<1>11. \/ w'[a].pc = "busy" /\ w'[a].steps = Tail(w[a].steps) /\ Len(w'[a].steps) > 0
       \/ w'[a].pc = "done" /\ w'[a].steps = <<>>
  <2>1. w'[a].steps \in Seq(StepNames)
    BY <1>9 DEF Shaped
  <2>2. Len(w'[a].steps) = 0 => w'[a].steps = <<>>
    BY <2>1
  <2>3. Len(<<>>) = 0
    OBVIOUS
  <2>4. w'[a].steps = <<>> \/ w'[a].steps = Tail(w[a].steps)
    BY <1>4, <1>9
  <2>5. CASE w'[a].pc = "busy" /\ Len(w'[a].steps) > 0
    <3>1. w'[a].steps # <<>>
      BY <2>3, <2>5
    <3> QED BY <2>4, <2>5, <3>1
  <2>6. CASE w'[a].pc = "done" /\ Len(w'[a].steps) = 0
    BY <2>2, <2>6
  <2> QED BY <1>9, <2>5, <2>6
<1>12. \A b \in Workers \ {a} :
          s \in DOMAIN rows /\ w[b].pc # "idle" /\ w[b].ses = s => w'[b].stale
  BY <1>7 DEF replaced
<1> HIDE DEF s
<1> QED BY <1>1, <1>2, <1>9, <1>10, <1>11, <1>12 DEF Replacing, s

\* A worker gets a task, an import one with its bundle.
Accepted(a) ==
  /\ Quiet /\ OthersKeep(a) /\ w[a].pc = "idle"
  /\ w'[a].pc = "busy" /\ w'[a].req \in Request /\ w'[a].req.do # "import"
  /\ w'[a].steps = Steps(w'[a].req) /\ w'[a].ses = SesOf(w'[a].req) /\ w'[a].turns = <<>>

Bundled(a) ==
  \E b \in Bundles :
    /\ Quiet /\ OthersKeep(a) /\ w[a].pc = "idle"
    /\ w'[a].pc = "busy" /\ w'[a].req \in Request /\ w'[a].req.do = "import"
    /\ w'[a].steps = Steps(w'[a].req) /\ w'[a].turns = b.turns
    /\ w'[a].ses = IF w'[a].req.as = None THEN b.ses ELSE w'[a].req.as

\* The turns of a bundle are turns.
LEMMA BundleTurns ==
  ASSUME WorkersShaped, NEW b \in Bundles
  PROVE  b.turns \in Seq(TurnIds) /\ b.stale \in BOOLEAN
<1>1. CASE b \in Backups
  <2>1. b.turns \in Seq(OldTurns) /\ b.stale \in BOOLEAN
    BY <1>1, SessionsAssumption DEF IsBundle
  <2>2. OldTurns \subseteq TurnIds
    BY DEF TurnIds
  <2>3. \A i \in 1..Len(b.turns) : b.turns[i] \in OldTurns
    BY <2>1
  <2>4. Len(b.turns) \in Nat /\ b.turns = [i \in 1..Len(b.turns) |-> b.turns[i]]
    BY <2>1
  <2> QED BY <2>1, <2>2, <2>3, <2>4, SeqDef
<1>2. CASE \E x \in Exports : b = Exported(w[x])
  BY <1>2 DEF Exports, Exported, WorkersShaped, Shaped
<1> QED BY <1>1, <1>2 DEF Bundles

\* Accepting a request.
LEMMA AcceptAccepts ==
  ASSUME Ready, NEW a \in Workers, Accept(a)
  PROVE  Accepted(a)
<1>1. PICK r \in Serves[a] :
        /\ r.do # "import"
        /\ w' = [w EXCEPT ![a] = [Blank EXCEPT !.pc = "busy", !.req = r, !.steps = Steps(r),
                 !.ses = IF "ses" \in DOMAIN r THEN r.ses ELSE None]]
  BY DEF Accept
<1>2. r \in Request /\ w[a].pc = "idle" /\ Quiet /\ WorkersShaped
  BY SessionsAssumption DEF Accept, Quiet, DbSame, Ready
<1>3. Steps(r) \in Seq(StepNames) /\ <<>> \in Seq(TurnIds)
  BY <1>2, StepsAreOrderly, EmptySeq DEF Orderly
<1> DEFINE d == [Blank EXCEPT !.pc = "busy", !.req = r, !.steps = Steps(r), !.ses = SesOf(r)]
<1>4. Shaped(d) /\ d.pc = "busy" /\ d.req = r /\ d.steps = Steps(r) /\ d.ses = SesOf(r)
      /\ d.turns = <<>>
  <2>1. d.pc = "busy" /\ d.req = r /\ d.steps = Steps(r) /\ d.ses = SesOf(r)
        /\ d.turns = <<>> /\ d.alone = TRUE /\ d.stale = FALSE
    BY DEF Blank
  <2>2. d = [x \in Fields |-> d[x]]
    BY ZenonT(60) DEF Blank, Fields
  <2> HIDE DEF d
  <2> QED BY <1>2, <1>3, <2>1, <2>2 DEF Shaped
<1>5. w'[a] = d /\ \A b \in Workers \ {a} : w'[b] = w[b]
  BY <1>1, <1>2 DEF SesOf, WorkersShaped
<1> HIDE DEF d
<1>6. w' = [b \in Workers |-> w'[b]]
  BY <1>1, <1>2 DEF WorkersShaped
<1>7. OthersKeep(a)
  BY <1>2, <1>4, <1>5, <1>6, SameIsAlike DEF OthersKeep, WorkersShaped
<1> QED BY <1>1, <1>2, <1>4, <1>5, <1>7 DEF Accepted

\* Accepting an import.
LEMMA AcceptImportBundles ==
  ASSUME Ready, NEW a \in Workers, AcceptImport(a)
  PROVE  Bundled(a)
<1>1. PICK r \in Serves[a], b \in Bundles :
        /\ r.do = "import"
        /\ w' = [w EXCEPT ![a] = [Blank EXCEPT !.pc = "busy", !.req = r, !.steps = Steps(r),
                 !.ses = IF r.as = None THEN b.ses ELSE r.as, !.row = b.row,
                 !.turns = b.turns, !.events = b.events, !.todos = b.todos,
                 !.items = b.items, !.left = DOMAIN b.items, !.stale = b.stale]]
  BY DEF AcceptImport
<1>2. r \in Request /\ w[a].pc = "idle" /\ Quiet /\ WorkersShaped
  BY SessionsAssumption DEF AcceptImport, Quiet, DbSame, Ready
<1>3. Steps(r) \in Seq(StepNames) /\ b.turns \in Seq(TurnIds) /\ b.stale \in BOOLEAN
  BY <1>2, StepsAreOrderly, BundleTurns DEF Orderly
<1> DEFINE ses == IF r.as = None THEN b.ses ELSE r.as
           left == DOMAIN b.items
           d == [Blank EXCEPT !.pc = "busy", !.req = r, !.steps = Steps(r),
                 !.ses = ses, !.row = b.row,
                 !.turns = b.turns, !.events = b.events, !.todos = b.todos,
                 !.items = b.items, !.left = left, !.stale = b.stale]
<1>5. w'[a] = d /\ \A c \in Workers \ {a} : w'[c] = w[c]
  BY <1>1, <1>2 DEF WorkersShaped
<1> HIDE DEF ses, left
<1>4. Shaped(d) /\ d.pc = "busy" /\ d.req = r /\ d.steps = Steps(r) /\ d.ses = ses /\ d.turns = b.turns
  <2>1. d.pc = "busy" /\ d.req = r /\ d.steps = Steps(r) /\ d.ses = ses
        /\ d.turns = b.turns /\ d.alone = TRUE /\ d.stale = b.stale
    BY DEF Blank
  <2>2. d = [x \in Fields |-> d[x]]
    BY ZenonT(60) DEF Blank, Fields
  <2> HIDE DEF d
  <2> QED BY <1>2, <1>3, <2>1, <2>2 DEF Shaped
<1> HIDE DEF d
<1>6. w' = [c \in Workers |-> w'[c]]
  BY <1>1, <1>2 DEF WorkersShaped
<1>7. OthersKeep(a)
  BY <1>2, <1>4, <1>5, <1>6, SameIsAlike DEF OthersKeep, WorkersShaped
<1> QED BY <1>1, <1>2, <1>4, <1>5, <1>7 DEF Bundled, ses

Moves(a) ==
  \/ Accepted(a) \/ Bundled(a) \/ Kept(a)     \/ Repeated(a)  \/ Halted(a)
  \/ Reading(a)  \/ Creating(a) \/ Forking(a) \/ Appending(a) \/ Replacing(a)

\* Every step is one of these moves; what follows uses only them.
LEMMA StepMoves ==
  ASSUME Ready, TurnsTyped, NEW a \in Workers, Step(a), At(a, "turns") => w[a].ses \in Ids
  PROVE  Moves(a)
<1>1. CASE Accept(a) \/ AcceptImport(a)
  BY <1>1, AcceptAccepts, AcceptImportBundles DEF Moves
<1>2. CASE ReadRow(a) \/ ReadEvents(a) \/ ReadTodos(a) \/ Agent(a) \/ ReadItems(a) \/ Admit(a)
  BY <1>2, ReadRowKeeps, ReadsOfOneStep DEF Moves
<1>3. CASE RecordRun(a) \/ SaveState(a) \/ RemoveArtifact(a) \/ PruneArtifacts(a)
  BY <1>3, WritesOfOneStep DEF Moves
<1>4. CASE SaveTodos(a) \/ Attach(a) \/ RestoreItem(a)
  BY <1>4, SaveTodosKeeps, AttachKeepsOrHalts, RestoreItemKeepsOrRepeats DEF Moves
<1>5. CASE NotFound(a) \/ ForkFails(a) \/ NoSuchTodo(a) \/ NoSuchTurn(a) \/ Refuse(a)
             \/ ImportConflict(a) \/ Abandon(a)
  BY <1>5, FailuresHalt DEF Moves
<1>6. CASE ReadTurns(a)
  BY <1>6, ReadTurnsReads DEF Moves, ReadTurns
<1>7. CASE Create(a) \/ Fork(a) \/ AppendTurn(a) \/ ImportSession(a)
  BY <1>7, CreateCreates, ForkForks, AppendAppends, ImportReplaces DEF Moves
<1> QED BY <1>1, <1>2, <1>3, <1>4, <1>5, <1>6, <1>7 DEF Step

-----------------------------------------------------------------------------
(* A turn belongs to one session.                                           *)

Tasked ==
  \A a \in Workers :
    w[a].pc # "idle" => w[a].req \in Request /\ Orderly(w[a].steps, w[a].req.do)
Seated ==
  \A a \in Workers : "turns" \in TurnSet(w[a].steps) => w[a].ses \in Ids
Pending(c) == w[c].pc = "idle" \/ "append" \in TurnSet(w[c].steps)
Known(c)   == \/ \E s \in Ids : c \in TurnSet(turns[s])
              \/ \E b \in Workers : c \in TurnSet(w[b].turns)
Fresh == \A c \in Workers : Pending(c) => ~Known(c)
HeldOnce == \A a \in Workers : Distinct(w[a])

OwnInv ==
  Ready /\ TurnsTyped /\ Tasked /\ Seated /\ Fresh /\ HeldOnce /\ OneSessionPerTurn

\* What is left of orderly steps is orderly.
LEMMA TailOrderly ==
  ASSUME NEW steps, NEW do, Orderly(steps, do), Len(steps) > 0
  PROVE  Orderly(Tail(steps), do) /\ TurnSet(Tail(steps)) \subseteq TurnSet(steps)
<1>1. steps \in Seq(StepNames)
  BY DEF Orderly
<1> DEFINE rest == Tail(steps)
<1>2. rest \in Seq(StepNames) /\ Len(rest) = Len(steps) - 1 /\ Len(steps) \in Nat
      /\ \A i \in 1..Len(rest) : rest[i] = steps[i + 1]
  BY <1>1
<1>3. DOMAIN rest = 1..Len(rest) /\ DOMAIN steps = 1..Len(steps)
  BY <1>1, <1>2
<1> HIDE DEF rest
<1>4. Once(rest) /\ OpensBefore(rest)
  <2>1. Once(steps) /\ OpensBefore(steps)
    BY DEF Orderly
  <2>2. \A i \in 1..Len(rest) : i + 1 \in 1..Len(steps)
    BY <1>2
  <2>3. Once(rest)
    BY <1>2, <2>1, <2>2 DEF Once
  <2>4. OpensBefore(rest)
    BY <1>2, <2>1, <2>2 DEF OpensBefore
  <2> QED BY <2>3, <2>4
<1>5. CreateFirst(rest) /\ Belong(rest, do)
  BY <1>2 DEF Orderly, CreateFirst, Belong
<1>6. TurnSet(rest) \subseteq TurnSet(steps)
  <2>1. \A i \in DOMAIN rest : i + 1 \in DOMAIN steps /\ rest[i] = steps[i + 1]
    BY <1>2, <1>3
  <2> QED BY <2>1 DEF TurnSet
<1> QED BY <1>2, <1>4, <1>5, <1>6 DEF Orderly, rest

\* No steps are orderly.
LEMMA EmptyOrderly == ASSUME NEW do PROVE Orderly(<<>>, do) /\ TurnSet(<<>>) = {}
BY EmptySeq DEF Orderly, Once, OpensBefore, CreateFirst, Belong, TurnSet

\* A worker at work stays within what is left of its steps.
Onward(a) ==
  /\ OthersKeep(a) /\ w[a].pc = "busy" /\ w'[a].pc \in {"busy", "done", "failed"}
  /\ w'[a].req = w[a].req
  /\ w'[a].steps \in {w[a].steps, Tail(w[a].steps), <<>>}
  /\ w'[a].pc = "busy" => Len(w'[a].steps) > 0
  /\ w'[a].ses \in {w[a].ses, a}

\* A worker that was at work goes on with what is left of its steps.
LEMMA MovesOn ==
  ASSUME Ready, NEW a \in Workers, Moves(a)
  PROVE  Accepted(a) \/ Bundled(a) \/ Onward(a)
<1>1. CASE Kept(a) \/ Reading(a) \/ Creating(a) \/ Appending(a)
  BY <1>1 DEF Kept, Reading, Creating, Appending, Advances, Onward
<1>2. CASE Forking(a)
  BY <1>2 DEF Forking, Advances, Onward
<1>3. CASE Repeated(a) \/ Halted(a)
  BY <1>3 DEF Repeated, Halted, Halts, Onward, Ready, BusyHasSteps
<1>4. CASE Replacing(a)
  BY <1>4 DEF Replacing, Onward
<1> QED BY <1>1, <1>2, <1>3, <1>4 DEF Moves

\* Shapes, tasks and seats are preserved.
LEMMA ShapesStay ==
  ASSUME Ready, Tasked, Seated, NEW a \in Workers, Moves(a)
  PROVE  Ready' /\ Tasked' /\ Seated'
<1>1. OthersKeep(a)
  BY MovesOn DEF Accepted, Bundled, Onward
<1>2. WorkersShaped' /\ \A b \in Workers \ {a} : Alike(w[b], w'[b])
  BY <1>1 DEF OthersKeep
<1>3. SUFFICES /\ w'[a].pc = "busy" => Len(w'[a].steps) > 0
               /\ w'[a].pc # "idle" => w'[a].req \in Request /\ Orderly(w'[a].steps, w'[a].req.do)
               /\ "turns" \in TurnSet(w'[a].steps) => w'[a].ses \in Ids
  BY <1>2 DEF Alike, Ready, BusyHasSteps, Tasked, Seated
<1>4. CASE Accepted(a) \/ Bundled(a)
  <2>1. w'[a].req \in Request /\ w'[a].steps = Steps(w'[a].req)
    BY <1>4 DEF Accepted, Bundled
  <2>2. Orderly(w'[a].steps, w'[a].req.do) /\ Len(w'[a].steps) > 0
    BY <2>1, StepsAreOrderly
  <2>3. "turns" \in TurnSet(w'[a].steps) => w'[a].ses \in Ids
    BY <1>4, <2>1, SesIsNamed DEF Accepted, Bundled, Ids
  <2> QED BY <2>1, <2>2, <2>3
<1>5. CASE Onward(a)
  <2>1. w[a].req \in Request /\ Orderly(w[a].steps, w[a].req.do) /\ Len(w[a].steps) > 0
    BY <1>5 DEF Onward, Ready, BusyHasSteps, Tasked
  <2>2. Orderly(w'[a].steps, w[a].req.do) /\ TurnSet(w'[a].steps) \subseteq TurnSet(w[a].steps)
    <3>1. w'[a].steps = w[a].steps \/ w'[a].steps = Tail(w[a].steps) \/ w'[a].steps = <<>>
      BY <1>5 DEF Onward
    <3>2. Orderly(Tail(w[a].steps), w[a].req.do)
          /\ TurnSet(Tail(w[a].steps)) \subseteq TurnSet(w[a].steps)
      BY <2>1, TailOrderly
    <3>3. Orderly(<<>>, w[a].req.do) /\ TurnSet(<<>>) = {}
      BY EmptyOrderly
    <3> QED BY <2>1, <3>1, <3>2, <3>3
  <2> QED BY <1>5, <2>1, <2>2 DEF Onward, Seated, Ids
<1> QED BY <1>4, <1>5, MovesOn

\* The turns of every session stay a sequence.
LEMMA TurnsStayTyped ==
  ASSUME Ready, TurnsTyped, NEW a \in Workers, Moves(a)
  PROVE  TurnsTyped'
<1>1. w[a].turns \in Seq(TurnIds)
  BY DEF Ready, WorkersShaped, Shaped
<1>2. CASE Accepted(a) \/ Bundled(a) \/ Kept(a) \/ Repeated(a) \/ Halted(a) \/ Reading(a)
  BY <1>2 DEF Accepted, Bundled, Kept, Repeated, Halted, Reading, Quiet, TurnsTyped
<1>3. CASE Creating(a)
  BY <1>3, EmptySeq DEF Creating, TurnsTyped
<1>4. CASE Forking(a)
  <2>1. PICK n \in 0..Len(w[a].turns) : turns' = [turns EXCEPT ![a] = SubSeq(w[a].turns, 1, n)]
    BY <1>4 DEF Forking
  <2>2. SubSeq(w[a].turns, 1, n) \in Seq(TurnIds)
    BY <1>1
  <2> QED BY <2>1, <2>2 DEF TurnsTyped
<1>5. CASE Appending(a)
  <2>1. \A seq \in Seq(TurnIds) : Append(seq, a) \in Seq(TurnIds)
    BY DEF TurnIds
  <2> QED BY <1>5, <2>1 DEF Appending, TurnsTyped
<1>6. CASE Replacing(a)
  BY <1>1, <1>6 DEF Replacing, TurnsTyped
<1> QED BY <1>2, <1>3, <1>4, <1>5, <1>6 DEF Moves

\* The front of a sequence of turns.
LEMMA FrontTurns ==
  ASSUME NEW seq \in Seq(TurnIds), NEW n \in 0..Len(seq)
  PROVE  /\ SubSeq(seq, 1, n) \in Seq(TurnIds) /\ Len(SubSeq(seq, 1, n)) = n
         /\ \A i \in 1..n : SubSeq(seq, 1, n)[i] = seq[i]
         /\ TurnSet(SubSeq(seq, 1, n)) \subseteq TurnSet(seq)
<1>1. /\ SubSeq(seq, 1, n) \in Seq(TurnIds) /\ Len(SubSeq(seq, 1, n)) = n
      /\ \A i \in 1..n : SubSeq(seq, 1, n)[i] = seq[i]
  OBVIOUS
<1>2. DOMAIN SubSeq(seq, 1, n) = 1..n /\ DOMAIN seq = 1..Len(seq)
  BY <1>1
<1> QED BY <1>1, <1>2 DEF TurnSet

\* A sequence of turns with one more.
LEMMA AppendTurns ==
  ASSUME NEW seq \in Seq(TurnIds), NEW t \in TurnIds
  PROVE  /\ Append(seq, t) \in Seq(TurnIds) /\ Len(Append(seq, t)) = Len(seq) + 1
         /\ \A i \in 1..Len(seq) : Append(seq, t)[i] = seq[i]
         /\ Append(seq, t)[Len(seq) + 1] = t
         /\ DOMAIN Append(seq, t) = 1..(Len(seq) + 1)
         /\ TurnSet(Append(seq, t)) = TurnSet(seq) \cup {t}
<1>1. /\ Append(seq, t) \in Seq(TurnIds) /\ Len(Append(seq, t)) = Len(seq) + 1
      /\ \A i \in 1..Len(seq) : Append(seq, t)[i] = seq[i]
      /\ Append(seq, t)[Len(seq) + 1] = t
      /\ Len(seq) \in Nat
  OBVIOUS
<1>2. DOMAIN Append(seq, t) = 1..(Len(seq) + 1) /\ DOMAIN seq = 1..Len(seq)
  BY <1>1
<1>3. TurnSet(Append(seq, t)) \subseteq TurnSet(seq) \cup {t}
  <2> SUFFICES ASSUME NEW i \in 1..(Len(seq) + 1) PROVE Append(seq, t)[i] \in TurnSet(seq) \cup {t}
    BY <1>2 DEF TurnSet
  <2>1. CASE i = Len(seq) + 1
    BY <1>1, <2>1
  <2>2. CASE i # Len(seq) + 1
    <3>1. i \in 1..Len(seq)
      BY <1>1, <2>2
    <3> QED BY <1>1, <1>2, <3>1 DEF TurnSet
  <2> QED BY <2>1, <2>2
<1>4. TurnSet(seq) \cup {t} \subseteq TurnSet(Append(seq, t))
  <2>1. Len(seq) + 1 \in 1..(Len(seq) + 1) /\ \A i \in 1..Len(seq) : i \in 1..(Len(seq) + 1)
    BY <1>1
  <2> QED BY <1>1, <1>2, <2>1 DEF TurnSet
<1> QED BY <1>1, <1>2, <1>3, <1>4

\* A run's turn is in a bundle only when an export has read it.
LEMMA BundlesAreKnown ==
  ASSUME WorkersShaped, NEW b \in Bundles, NEW c \in Workers, c \in TurnSet(b.turns)
  PROVE  Known(c)
<1>1. CASE b \in Backups
  <2>1. b.turns \in Seq(OldTurns)
    BY <1>1, SessionsAssumption DEF IsBundle
  <2>2. c \in OldTurns
    BY <2>1 DEF TurnSet
  <2> QED BY <2>2, SessionsAssumption
<1>2. CASE \E x \in Exports : b = Exported(w[x])
  BY <1>2 DEF Exports, Exported, Known
<1> QED BY <1>1, <1>2 DEF Bundles

\* A run's turn comes up, in a session or in what a worker holds, only where its
\* own append puts it or where it was known before.
LEMMA TurnsComeFromWork ==
  ASSUME Ready, TurnsTyped, Seated, NEW a \in Workers, Moves(a), NEW c \in Workers, Known(c)'
  PROVE  Known(c) \/ (Appending(a) /\ c = a)
<1>1. w[a].turns \in Seq(TurnIds)
  BY DEF Ready, WorkersShaped, Shaped
<1>2. TurnSet(<<>>) = {}
  BY DEF TurnSet
<1>3. \A b \in Workers \ {a} : w'[b].turns = w[b].turns
  BY MovesOn DEF Accepted, Bundled, Onward, OthersKeep, Alike
<1>4. CASE Accepted(a) \/ Kept(a) \/ Repeated(a) \/ Halted(a)
  <2>1. turns' = turns /\ w'[a].turns \in {w[a].turns, <<>>}
    BY <1>4 DEF Accepted, Kept, Repeated, Halted, Halts, Quiet, Advances
  <2> QED BY <1>2, <1>3, <2>1 DEF Known
<1>5. CASE Bundled(a)
  <2>1. turns' = turns /\ \E b \in Bundles : w'[a].turns = b.turns
    BY <1>5 DEF Bundled, Quiet
  <2>2. c \in TurnSet(w'[a].turns) => Known(c)
    BY <2>1, BundlesAreKnown DEF Ready
  <2> QED BY <1>3, <2>1, <2>2 DEF Known
<1>6. CASE Reading(a)
  <2>1. turns' = turns /\ w'[a].turns \in {turns[w[a].ses], <<>>}
    BY <1>6 DEF Reading, Quiet, Advances
  <2>2. w[a].ses \in Ids
    <3>1. w[a].steps \in Seq(StepNames) /\ Len(w[a].steps) > 0 /\ Head(w[a].steps) = "turns"
      BY <1>6 DEF Reading, Advances, Ready, WorkersShaped, Shaped
    <3>2. 1 \in DOMAIN w[a].steps /\ w[a].steps[1] = "turns"
      BY <3>1
    <3> QED BY <3>2 DEF Seated, TurnSet
  <2> QED BY <1>2, <1>3, <2>1, <2>2 DEF Known
<1>7. CASE Creating(a)
  <2>1. turns' = [turns EXCEPT ![a] = <<>>] /\ w'[a].turns \in {w[a].turns, <<>>}
    BY <1>7 DEF Creating, Advances
  <2>2. \A s \in Ids : TurnSet(turns'[s]) \subseteq TurnSet(turns[s])
    BY <1>2, <2>1 DEF TurnsTyped
  <2> QED BY <1>2, <1>3, <2>1, <2>2 DEF Known
<1>8. CASE Forking(a)
  <2>1. PICK n \in 0..Len(w[a].turns) :
          LET seq == SubSeq(w[a].turns, 1, n)
          IN turns' = [turns EXCEPT ![a] = seq] /\ w'[a].turns \in {seq, <<>>}
    BY <1>8 DEF Forking, Advances
  <2> DEFINE seq == SubSeq(w[a].turns, 1, n)
  <2>2. TurnSet(seq) \subseteq TurnSet(w[a].turns)
    BY <1>1, FrontTurns
  <2>3. turns' = [turns EXCEPT ![a] = seq] /\ w'[a].turns \in {seq, <<>>}
    BY <2>1
  <2> HIDE DEF seq
  <2>4. \A s \in Ids : TurnSet(turns'[s]) \subseteq TurnSet(turns[s]) \cup TurnSet(w[a].turns)
    BY <2>2, <2>3 DEF TurnsTyped
  <2> QED BY <1>2, <1>3, <2>2, <2>3, <2>4 DEF Known
<1>9. CASE Appending(a)
  <2>1. turns' = [turns EXCEPT ![w[a].ses] = Append(@, a)] /\ w'[a].turns \in {w[a].turns, <<>>}
    BY <1>9 DEF Appending, Advances
  <2>2. \A s \in Ids : TurnSet(Append(turns[s], a)) = TurnSet(turns[s]) \cup {a}
    BY AppendTurns DEF TurnsTyped, TurnIds
  <2>3. \A s \in Ids : TurnSet(turns'[s]) \subseteq TurnSet(turns[s]) \cup {a}
    BY <2>1, <2>2 DEF TurnsTyped
  <2> QED BY <1>2, <1>3, <1>9, <2>1, <2>3 DEF Known
<1>10. CASE Replacing(a)
  <2>1. turns' = [turns EXCEPT ![w[a].ses] = w[a].turns] /\ w'[a].turns \in {w[a].turns, <<>>}
    BY <1>10 DEF Replacing
  <2>2. \A s \in Ids : TurnSet(turns'[s]) \subseteq TurnSet(turns[s]) \cup TurnSet(w[a].turns)
    BY <2>1 DEF TurnsTyped
  <2> QED BY <1>2, <1>3, <2>1, <2>2 DEF Known
<1> QED BY <1>4, <1>5, <1>6, <1>7, <1>8, <1>9, <1>10 DEF Moves

\* No one knows the turn of a run that has not appended it.
LEMMA FreshStays ==
  ASSUME Ready, TurnsTyped, Seated, Tasked, Fresh, NEW a \in Workers, Moves(a)
  PROVE  Fresh'
<1> SUFFICES ASSUME NEW c \in Workers, Pending(c)', Known(c)' PROVE FALSE
  BY DEF Fresh
<1>1. Accepted(a) \/ Bundled(a) \/ Onward(a)
  BY MovesOn
<1>2. Pending(c) /\ ~(Appending(a) /\ c = a)
  <2>1. CASE c # a
    BY <1>1, <2>1 DEF Accepted, Bundled, Onward, OthersKeep, Alike, Pending
  <2>2. CASE c = a /\ (Accepted(a) \/ Bundled(a))
    BY <2>2 DEF Accepted, Bundled, Pending, Appending, Advances
  <2>3. CASE c = a /\ Onward(a)
    <3>1. Orderly(w[a].steps, w[a].req.do) /\ Len(w[a].steps) > 0
      BY <2>3 DEF Onward, Tasked, Ready, BusyHasSteps
    <3>2. "append" \in TurnSet(w'[a].steps)
      BY <2>3 DEF Pending, Onward
    <3>3. TurnSet(w'[a].steps) \subseteq TurnSet(w[a].steps)
      BY <2>3, <3>1, TailOrderly, EmptyOrderly DEF Onward
    <3>4. ~Appending(a)
      <4> SUFFICES ASSUME Appending(a) PROVE FALSE
        OBVIOUS
      <4> DEFINE steps == w[a].steps
      <4>1. w'[a].steps = Tail(steps) /\ Head(steps) = "append" /\ Once(steps)
            /\ steps \in Seq(StepNames) /\ Len(steps) > 0
        BY <3>1 DEF Appending, Advances, Orderly
      <4> HIDE DEF steps
      <4>2. PICK i \in DOMAIN Tail(steps) : Tail(steps)[i] = "append"
        BY <3>2, <4>1 DEF TurnSet
      <4>3. i + 1 \in 1..Len(steps) /\ steps[i + 1] = "append" /\ steps[1] = "append"
            /\ 1 \in 1..Len(steps) /\ i + 1 # 1
        BY <4>1, <4>2
      <4> QED BY <4>1, <4>3 DEF Once
    <3> QED BY <2>3, <3>2, <3>3, <3>4 DEF Pending
  <2> QED BY <1>1, <2>1, <2>2, <2>3
<1> QED BY <1>2, TurnsComeFromWork DEF Fresh

Injective(seq) == \A i, j \in DOMAIN seq : seq[i] = seq[j] => i = j

\* A bundle has no turn twice.
LEMMA BundlesAreDistinct ==
  ASSUME HeldOnce, NEW b \in Bundles
  PROVE  Injective(b.turns)
<1>1. CASE b \in Backups
  BY <1>1, SessionsAssumption DEF Admissible, Distinct, Injective
<1>2. CASE \E x \in Exports : b = Exported(w[x])
  BY <1>2 DEF Exports, Exported, HeldOnce, Distinct, Injective
<1> QED BY <1>1, <1>2 DEF Bundles

\* A front has no turn twice when the whole has not.
LEMMA FrontIsInjective ==
  ASSUME NEW seq \in Seq(TurnIds), Injective(seq), NEW n \in 0..Len(seq)
  PROVE  Injective(SubSeq(seq, 1, n))
<1>1. DOMAIN SubSeq(seq, 1, n) = 1..n /\ \A i \in 1..n : i \in DOMAIN seq
  OBVIOUS
<1> QED BY <1>1, FrontTurns DEF Injective

\* A session has no turn twice.
LEMMA SessionsAreInjective ==
  ASSUME OneSessionPerTurn, NEW s \in Ids
  PROVE  Injective(turns[s])
BY DEF OneSessionPerTurn, Injective

\* What a worker holds has no turn twice.
LEMMA HeldOnceStays ==
  ASSUME Ready, TurnsTyped, Seated, HeldOnce, OneSessionPerTurn, NEW a \in Workers, Moves(a)
  PROVE  HeldOnce'
<1>1. w[a].turns \in Seq(TurnIds) /\ Injective(w[a].turns) /\ Injective(<<>>)
  BY DEF Ready, WorkersShaped, Shaped, HeldOnce, Distinct, Injective
<1>2. \A b \in Workers \ {a} : w'[b].turns = w[b].turns
  BY MovesOn DEF Accepted, Bundled, Onward, OthersKeep, Alike
<1>3. SUFFICES Injective(w'[a].turns)
  BY <1>2 DEF HeldOnce, Distinct, Injective
<1>4. CASE Accepted(a) \/ Kept(a) \/ Repeated(a) \/ Halted(a) \/ Creating(a) \/ Appending(a)
           \/ Replacing(a)
  <2>1. w'[a].turns = w[a].turns \/ w'[a].turns = <<>>
    BY <1>4 DEF Accepted, Kept, Repeated, Halted, Halts, Creating, Appending, Replacing, Advances
  <2> QED BY <1>1, <2>1
<1>5. CASE Bundled(a)
  BY <1>5, BundlesAreDistinct DEF Bundled
<1>6. CASE Reading(a)
  <2>1. w'[a].turns = turns[w[a].ses] \/ w'[a].turns = <<>>
    BY <1>6 DEF Reading, Advances
  <2>2. w[a].ses \in Ids
    <3>1. w[a].steps \in Seq(StepNames) /\ Len(w[a].steps) > 0 /\ Head(w[a].steps) = "turns"
      BY <1>6 DEF Reading, Advances, Ready, WorkersShaped, Shaped
    <3>2. 1 \in DOMAIN w[a].steps /\ w[a].steps[1] = "turns"
      BY <3>1
    <3> QED BY <3>2 DEF Seated, TurnSet
  <2> QED BY <1>1, <2>1, <2>2, SessionsAreInjective
<1>7. CASE Forking(a)
  <2>1. PICK n \in 0..Len(w[a].turns) :
          w'[a].turns = SubSeq(w[a].turns, 1, n) \/ w'[a].turns = <<>>
    BY <1>7 DEF Forking, Advances
  <2> QED BY <1>1, <2>1, FrontIsInjective
<1> QED BY <1>4, <1>5, <1>6, <1>7 DEF Moves

\* A session may be given turns that occur once in it and in no other session:
\* the primary key of the tables.
LEMMA ReplacingKeepsOne ==
  ASSUME TurnsTyped, OneSessionPerTurn, NEW s, NEW seq, Injective(seq), ~Conflict(s, seq),
         turns' = [turns EXCEPT ![s] = seq]
  PROVE  OneSessionPerTurn'
<1> SUFFICES ASSUME NEW x \in Ids, NEW y \in Ids, NEW i \in DOMAIN turns'[x],
                    NEW j \in DOMAIN turns'[y], turns'[x][i] = turns'[y][j]
             PROVE  x = y /\ i = j
  BY DEF OneSessionPerTurn
<1>1. turns'[x] = IF x = s THEN seq ELSE turns[x]
  BY DEF TurnsTyped
<1>2. turns'[y] = IF y = s THEN seq ELSE turns[y]
  BY DEF TurnsTyped
<1>3. \A z \in Ids \ {s} : \A k \in DOMAIN turns[z], l \in DOMAIN seq : turns[z][k] # seq[l]
  BY DEF Conflict, TurnSet
<1>4. CASE x = s /\ y = s
  BY <1>1, <1>2, <1>4 DEF Injective
<1>5. CASE x # s /\ y # s
  BY <1>1, <1>2, <1>5 DEF OneSessionPerTurn
<1>6. CASE x = s /\ y # s
  <2>1. y \in Ids \ {s} /\ i \in DOMAIN seq /\ j \in DOMAIN turns[y] /\ turns[y][j] = seq[i]
    BY <1>1, <1>2, <1>6
  <2> QED BY <1>3, <2>1
<1>7. CASE x # s /\ y = s
  <2>1. x \in Ids \ {s} /\ j \in DOMAIN seq /\ i \in DOMAIN turns[x] /\ turns[x][i] = seq[j]
    BY <1>1, <1>2, <1>7
  <2> QED BY <1>3, <2>1
<1> QED BY <1>4, <1>5, <1>6, <1>7

\* Every move keeps a turn to one session and one place in it.
LEMMA OneSessionStays ==
  ASSUME Ready, TurnsTyped, Tasked, Fresh, HeldOnce, OneSessionPerTurn, NEW a \in Workers, Moves(a)
  PROVE  OneSessionPerTurn'
<1>1. w[a].turns \in Seq(TurnIds) /\ Injective(w[a].turns) /\ Injective(<<>>)
  BY DEF Ready, WorkersShaped, Shaped, HeldOnce, Distinct, Injective
<1>2. CASE Accepted(a) \/ Bundled(a) \/ Kept(a) \/ Repeated(a) \/ Halted(a) \/ Reading(a)
  BY <1>2 DEF Accepted, Bundled, Kept, Repeated, Halted, Reading, Quiet, OneSessionPerTurn
<1>3. CASE Creating(a)
  <2>1. ~Conflict(a, <<>>)
    BY DEF Conflict, TurnSet
  <2> QED BY <1>1, <1>3, <2>1, ReplacingKeepsOne DEF Creating
<1>4. CASE Forking(a)
  <2>1. PICK n \in 0..Len(w[a].turns) :
          LET seq == SubSeq(w[a].turns, 1, n)
          IN ~Conflict(a, seq) /\ turns' = [turns EXCEPT ![a] = seq]
    BY <1>4 DEF Forking
  <2> DEFINE seq == SubSeq(w[a].turns, 1, n)
  <2>2. ~Conflict(a, seq) /\ turns' = [turns EXCEPT ![a] = seq] /\ Injective(seq)
    BY <1>1, <2>1, FrontIsInjective
  <2> HIDE DEF seq
  <2> QED BY <2>2, ReplacingKeepsOne
<1>5. CASE Appending(a)
  <2> DEFINE s == w[a].ses
             old == turns[s]
             seq == Append(old, a)
  <2>1. turns' = [turns EXCEPT ![s] = seq]
    BY <1>5 DEF Appending
  <2>2. \A x \in Ids : a \notin TurnSet(turns[x])
    <3>1. w[a].steps \in Seq(StepNames) /\ Len(w[a].steps) > 0 /\ Head(w[a].steps) = "append"
      BY <1>5 DEF Appending, Advances, Ready, WorkersShaped, Shaped
    <3>2. 1 \in DOMAIN w[a].steps /\ w[a].steps[1] = "append"
      BY <3>1
    <3> QED BY <3>2 DEF Fresh, Pending, Known, TurnSet
  <2>3. CASE s \notin Ids
    <3>1. turns' = turns
      BY <2>1, <2>3 DEF TurnsTyped
    <3> QED BY <3>1 DEF OneSessionPerTurn
  <2>4. CASE s \in Ids
    <3>1. old \in Seq(TurnIds) /\ a \in TurnIds /\ a \notin TurnSet(old) /\ Injective(old)
      BY <2>2, <2>4, SessionsAreInjective DEF TurnsTyped, TurnIds
    <3>2. \A x \in Ids \ {s} : TurnSet(turns[x]) \cap TurnSet(old) = {}
      BY <2>4 DEF OneSessionPerTurn, TurnSet
    <3> HIDE DEF old, s
    <3>3. /\ \A i \in 1..Len(old) : seq[i] = old[i]
          /\ seq[Len(old) + 1] = a /\ DOMAIN seq = 1..(Len(old) + 1)
          /\ TurnSet(seq) = TurnSet(old) \cup {a}
      BY <3>1, AppendTurns
    <3>4. ~Conflict(s, seq)
      BY <2>2, <3>2, <3>3 DEF Conflict
    <3>5. Injective(seq)
      <4> HIDE DEF seq
      <4> SUFFICES ASSUME NEW i \in 1..(Len(old) + 1), NEW j \in 1..(Len(old) + 1),
                          seq[i] = seq[j]
                   PROVE  i = j
        BY <3>3 DEF Injective
      <4>1. Len(old) \in Nat /\ DOMAIN old = 1..Len(old)
        BY <3>1
      <4>2. \A k \in 1..Len(old) : seq[k] \in TurnSet(old)
        BY <3>3, <4>1 DEF TurnSet
      <4>3. CASE i \in 1..Len(old) /\ j \in 1..Len(old)
        BY <3>1, <3>3, <4>1, <4>3 DEF Injective
      <4>4. CASE i = Len(old) + 1 /\ j = Len(old) + 1
        BY <4>4
      <4>5. CASE i \in 1..Len(old) /\ j = Len(old) + 1
        <5>1. seq[i] \in TurnSet(old) /\ seq[j] = a
          BY <3>3, <4>2, <4>5
        <5> QED BY <3>1, <5>1
      <4>6. CASE i = Len(old) + 1 /\ j \in 1..Len(old)
        <5>1. seq[j] \in TurnSet(old) /\ seq[i] = a
          BY <3>3, <4>2, <4>6
        <5> QED BY <3>1, <5>1
      <4> QED BY <4>1, <4>3, <4>4, <4>5, <4>6
    <3> HIDE DEF seq
    <3> QED BY <2>1, <3>4, <3>5, ReplacingKeepsOne
  <2> QED BY <2>3, <2>4
<1>6. CASE Replacing(a)
  BY <1>1, <1>6, ReplacingKeepsOne DEF Replacing
<1> QED BY <1>2, <1>3, <1>4, <1>5, <1>6 DEF Moves

\* OwnInv holds at first.
LEMMA OwnInitial == Init => OwnInv
<1> SUFFICES ASSUME Init PROVE OwnInv
  OBVIOUS
<1>1. w = [a \in Workers |-> Blank] /\ turns = [s \in Ids |-> IF s \in Names THEN Stored[s] ELSE <<>>]
  BY DEF Init
<1>2. Blank.pc = "idle" /\ Blank.steps = <<>> /\ Blank.turns = <<>>
  BY DEF Blank
<1>3. Ready
  BY <1>1, <1>2, BlankIsShaped DEF Ready, WorkersShaped, BusyHasSteps
<1>4. TurnsTyped
  <2>1. \A seq \in Seq(OldTurns) : seq \in Seq(TurnIds)
    <3> TAKE seq \in Seq(OldTurns)
    <3>1. \A i \in 1..Len(seq) : seq[i] \in TurnIds
      BY DEF TurnIds
    <3>2. Len(seq) \in Nat /\ seq = [i \in 1..Len(seq) |-> seq[i]]
      OBVIOUS
    <3> QED BY <3>1, <3>2, SeqDef
  <2>2. \A s \in Names : Stored[s] \in Seq(TurnIds)
    BY <2>1, SessionsAssumption
  <2> QED BY <1>1, <2>2, EmptySeq DEF TurnsTyped
<1>5. Tasked /\ Seated /\ HeldOnce
  BY <1>1, <1>2 DEF Tasked, Seated, HeldOnce, Distinct, TurnSet
<1>6. Fresh
  <2> SUFFICES ASSUME NEW c \in Workers, Known(c) PROVE FALSE
    BY DEF Fresh
  <2>1. PICK s \in Ids : c \in TurnSet(turns[s])
    BY <1>1, <1>2 DEF Known, TurnSet
  <2>2. s \in Names /\ c \in TurnSet(Stored[s])
    BY <1>1, <2>1 DEF TurnSet
  <2>3. Stored[s] \in Seq(OldTurns)
    BY <2>2, SessionsAssumption
  <2>4. c \in OldTurns
    BY <2>2, <2>3 DEF TurnSet
  <2> QED BY <2>4, SessionsAssumption
<1>7. OneSessionPerTurn
  BY <1>1, SessionsAssumption DEF OneSessionPerTurn
<1> QED BY <1>3, <1>4, <1>5, <1>6, <1>7 DEF OwnInv

\* Every step is a move of some worker.
LEMMA NextMoves ==
  ASSUME Ready, TurnsTyped, Seated, Next
  PROVE  \E a \in Workers : Moves(a)
<1>1. PICK a \in Workers : Step(a)
  BY DEF Next
<1>2. At(a, "turns") => w[a].ses \in Ids
  <2> SUFFICES ASSUME At(a, "turns") PROVE w[a].ses \in Ids
    OBVIOUS
  <2>1. w[a].steps \in Seq(StepNames) /\ Len(w[a].steps) > 0 /\ Head(w[a].steps) = "turns"
    BY DEF At, Ready, WorkersShaped, Shaped, BusyHasSteps
  <2>2. 1 \in DOMAIN w[a].steps /\ w[a].steps[1] = "turns"
    BY <2>1
  <2> QED BY <2>2 DEF Seated, TurnSet
<1> QED BY <1>1, <1>2, StepMoves

\* OwnInv is inductive.
LEMMA OwnStep == OwnInv /\ [Next]_vars => OwnInv'
<1> SUFFICES ASSUME OwnInv, [Next]_vars PROVE OwnInv'
  OBVIOUS
<1>1. Ready /\ TurnsTyped /\ Tasked /\ Seated /\ Fresh /\ HeldOnce /\ OneSessionPerTurn
  BY DEF OwnInv
<1>2. CASE UNCHANGED vars
  BY <1>1, <1>2 DEF vars, OwnInv, Ready, WorkersShaped, BusyHasSteps, TurnsTyped, Tasked, Seated,
     Fresh, Pending, Known, HeldOnce, OneSessionPerTurn
<1>3. CASE Next
  <2>1. PICK a \in Workers : Moves(a)
    BY <1>1, <1>3, NextMoves
  <2> QED BY <1>1, <2>1, ShapesStay, TurnsStayTyped, FreshStays, HeldOnceStays, OneSessionStays
     DEF OwnInv
<1> QED BY <1>2, <1>3

\* Whatever forks and imports are made, of whatever sessions and bundles, a turn
\* belongs to one session and occurs in it once: AppendTurnWithEvents inserts a
\* turn nobody has, and SaveSession fails on a turn another session has.
THEOREM OneSessionPerTurnHolds == Spec => []OneSessionPerTurn
<1>1. OwnInv => OneSessionPerTurn
  BY DEF OwnInv
<1> QED BY <1>1, OwnInitial, OwnStep, PTL DEF Spec

-----------------------------------------------------------------------------
(* What was read or answered stays.                                         *)

Housed ==
  \A a \in Workers :
    /\ w[a].ses \in Names \cup {None, a}
    /\ w[a].pc = "idle" => w[a].ses = None
    /\ w[a].pc # "idle" /\ w[a].req.do \in {"import", "export"} => w[a].ses \in Names
Rowed ==
  DOMAIN rows \subseteq Ids /\ \A s \in Ids \ DOMAIN rows : turns[s] = <<>>
Openers == {"row", "create", "fork"}
Opened ==
  \A a \in Workers :
    w[a].pc = "busy" /\ "append" \in TurnSet(w[a].steps) /\ TurnSet(w[a].steps) \cap Openers = {}
      => w[a].ses \in DOMAIN rows
Blanked ==
  \A a \in Workers : w[a].pc = "busy" /\ "create" \in TurnSet(w[a].steps) => w[a].turns = <<>>
Answering(a) ==
  /\ w[a].pc \in {"busy", "done"} /\ MakesTurn(w[a].req.do) /\ "append" \notin TurnSet(w[a].steps)
Settled ==
  \A a \in Workers : Answering(a) => TurnSet(w[a].steps) \cap {"create", "fork"} = {}
Saved ==
  \A a \in Workers :
    Answering(a) /\ ~w[a].stale => w[a].ses \in Ids /\ a \in TurnSet(turns[w[a].ses])

\* What a worker's next step says of those that are left.
LEMMA HeadAndTail ==
  ASSUME Ready, Tasked, NEW a \in Workers, w[a].pc = "busy"
  PROVE  /\ TurnSet(w[a].steps) = {Head(w[a].steps)} \cup TurnSet(Tail(w[a].steps))
         /\ "create" \notin TurnSet(Tail(w[a].steps))
         /\ Head(w[a].steps) = "append" =>
              /\ "append" \notin TurnSet(Tail(w[a].steps))
              /\ TurnSet(w[a].steps) \cap Openers = {}
         /\ Head(w[a].steps) \in {"create", "fork"} => NewId(w[a].req.do)
         /\ Head(w[a].steps) = "session" => w[a].req.do = "import"
         /\ "append" \in TurnSet(w[a].steps) => MakesTurn(w[a].req.do)
<1> DEFINE steps == w[a].steps
           rest == Tail(steps)
<1>1. Orderly(steps, w[a].req.do) /\ steps \in Seq(StepNames) /\ Len(steps) > 0
  BY DEF Ready, BusyHasSteps, Tasked, Orderly
<1> HIDE DEF steps
<1>2. /\ rest \in Seq(StepNames) /\ Len(rest) = Len(steps) - 1 /\ Len(steps) \in Nat
      /\ \A i \in 1..Len(rest) : rest[i] = steps[i + 1]
      /\ DOMAIN rest = 1..Len(rest) /\ DOMAIN steps = 1..Len(steps)
      /\ steps[1] = Head(steps) /\ 1 \in 1..Len(steps)
  BY <1>1
<1> HIDE DEF rest
<1>3. \A i \in 1..Len(steps) : i # 1 => i - 1 \in 1..Len(rest) /\ (i - 1) + 1 = i
  BY <1>2
<1>4. \A i \in 1..Len(rest) : i + 1 \in 2..Len(steps) /\ i + 1 \in 1..Len(steps) /\ i + 1 # 1
  BY <1>2
<1>5. TurnSet(steps) \subseteq {Head(steps)} \cup TurnSet(rest)
  <2> SUFFICES ASSUME NEW i \in 1..Len(steps) PROVE steps[i] \in {Head(steps)} \cup TurnSet(rest)
    BY <1>2 DEF TurnSet
  <2>1. CASE i = 1
    BY <1>2, <2>1
  <2>2. CASE i # 1
    <3>1. i - 1 \in DOMAIN rest /\ rest[i - 1] = steps[i]
      BY <1>2, <1>3, <2>2
    <3> QED BY <3>1 DEF TurnSet
  <2> QED BY <2>1, <2>2
<1>6. {Head(steps)} \cup TurnSet(rest) \subseteq TurnSet(steps)
  BY <1>2, <1>4 DEF TurnSet
<1>7. "create" \notin TurnSet(rest)
  BY <1>1, <1>2, <1>4 DEF TurnSet, Orderly, CreateFirst
<1>8. Head(steps) = "append" => "append" \notin TurnSet(rest)
  BY <1>1, <1>2, <1>4 DEF TurnSet, Orderly, Once
<1>9. Head(steps) = "append" => TurnSet(steps) \cap Openers = {}
  <2> SUFFICES ASSUME Head(steps) = "append", NEW j \in 1..Len(steps),
                      steps[j] \in {"row", "create", "fork"}
               PROVE  FALSE
    BY <1>2 DEF TurnSet, Openers
  <2>1. j < 1
    BY <1>1, <1>2 DEF Orderly, OpensBefore
  <2> QED BY <2>1
<1>10. /\ Head(steps) \in {"create", "fork"} => NewId(w[a].req.do)
       /\ Head(steps) = "session" => w[a].req.do = "import"
       /\ "append" \in TurnSet(steps) => MakesTurn(w[a].req.do)
  BY <1>1, <1>2 DEF Orderly, Belong, TurnSet
<1> QED BY <1>5, <1>6, <1>7, <1>8, <1>9, <1>10 DEF steps, rest

\* What a new task has before it.
LEMMA NewTask ==
  ASSUME NEW r \in Request
  PROVE  LET set == TurnSet(Steps(r)) IN
         /\ MakesTurn(r.do) => "append" \in set /\ set \cap Openers # {}
         /\ "append" \in set => MakesTurn(r.do)
         /\ "create" \in set => r.do # "import"
<1>1. Orderly(Steps(r), r.do)
  BY StepsAreOrderly
<1>2. DOMAIN Steps(r) = 1..Len(Steps(r))
  BY <1>1 DEF Orderly
<1> QED BY <1>1, <1>2, StepsAreOrderly DEF TurnSet, Openers, Orderly, Belong, NewId

\* A worker is in a session it was asked for, or in the one it created.
LEMMA HousedStays ==
  ASSUME Ready, Tasked, Housed, NEW a \in Workers, Moves(a)
  PROVE  Housed'
<1>1. \A b \in Workers \ {a} : Alike(w[b], w'[b])
  BY MovesOn DEF Accepted, Bundled, Onward, OthersKeep
<1>2. SUFFICES /\ w'[a].ses \in Names \cup {None, a}
               /\ w'[a].pc # "idle"
               /\ w'[a].req.do \in {"import", "export"} => w'[a].ses \in Names
  BY <1>1 DEF Housed, Alike
<1>3. CASE Accepted(a)
  BY <1>3, SesIsNamed DEF Accepted
<1>4. CASE Bundled(a)
  <2>1. PICK b \in Bundles : w'[a].ses = IF w'[a].req.as = None THEN b.ses ELSE w'[a].req.as
    BY <1>4 DEF Bundled
  <2>2. w'[a].req \in Request /\ w'[a].req.do = "import" /\ w'[a].pc = "busy"
    BY <1>4 DEF Bundled
  <2>3. b.ses \in Names
    <3>1. CASE b \in Backups
      BY <3>1, SessionsAssumption DEF IsBundle
    <3>2. CASE \E x \in Exports : b = Exported(w[x])
      BY <3>2 DEF Exports, Exported, Housed
    <3> QED BY <3>1, <3>2 DEF Bundles
  <2>4. w'[a].req.as \in Names \cup {None}
    BY <2>2, SesIsNamed
  <2> QED BY <2>1, <2>2, <2>3, <2>4
<1>5. CASE Kept(a) \/ Repeated(a) \/ Halted(a) \/ Reading(a) \/ Appending(a) \/ Replacing(a)
  BY <1>5 DEF Kept, Repeated, Halted, Halts, Reading, Appending, Replacing, Advances, Housed
<1>6. CASE Creating(a) \/ Forking(a)
  <2>1. /\ w[a].pc = "busy" /\ Head(w[a].steps) \in {"create", "fork"}
        /\ w'[a].ses = a /\ w'[a].pc \in {"busy", "done"} /\ w'[a].req = w[a].req
    BY <1>6 DEF Creating, Forking, Advances
  <2>2. NewId(w[a].req.do)
    BY <2>1, HeadAndTail
  <2> QED BY <2>1, <2>2 DEF NewId
<1> QED BY <1>3, <1>4, <1>5, <1>6 DEF Moves

\* No session is ever removed.
LEMMA RowsGrow ==
  ASSUME NEW a \in Workers, Moves(a)
  PROVE  DOMAIN rows \subseteq DOMAIN rows'
<1>1. CASE Accepted(a) \/ Bundled(a) \/ Kept(a) \/ Repeated(a) \/ Halted(a) \/ Reading(a)
  BY <1>1 DEF Accepted, Bundled, Kept, Repeated, Halted, Reading, Quiet
<1>2. CASE Creating(a) \/ Forking(a) \/ Appending(a) \/ Replacing(a)
  BY <1>2 DEF Creating, Forking, Appending, Replacing
<1> QED BY <1>1, <1>2 DEF Moves

\* A turn is appended to a session that has its row.
LEMMA AppendsToRow ==
  ASSUME Ready, Tasked, Opened, Rowed, NEW a \in Workers, Appending(a)
  PROVE  w[a].ses \in DOMAIN rows /\ w[a].ses \in Ids
<1>1. w[a].pc = "busy" /\ Head(w[a].steps) = "append"
  BY DEF Appending, Advances
<1> QED BY <1>1, HeadAndTail DEF Opened, Rowed

\* An import replaces a session with a name.
LEMMA ReplacesNamed ==
  ASSUME Ready, Tasked, Housed, NEW a \in Workers, Replacing(a)
  PROVE  w[a].req.do = "import" /\ w[a].ses \in Names
<1>1. w[a].pc = "busy" /\ Head(w[a].steps) = "session"
  BY DEF Replacing
<1> QED BY <1>1, HeadAndTail DEF Housed

\* A session without a row has no turns.
LEMMA RowedStays ==
  ASSUME Ready, Tasked, TurnsTyped, Housed, Rowed, Opened, NEW a \in Workers, Moves(a)
  PROVE  Rowed'
<1>1. CASE Accepted(a) \/ Bundled(a) \/ Kept(a) \/ Repeated(a) \/ Halted(a) \/ Reading(a)
  BY <1>1 DEF Accepted, Bundled, Kept, Repeated, Halted, Reading, Quiet, Rowed
<1>2. CASE Creating(a) \/ Forking(a)
  <2>1. DOMAIN rows' = DOMAIN rows \cup {a} /\ \A s \in Ids \ {a} : turns'[s] = turns[s]
    BY <1>2 DEF Creating, Forking, TurnsTyped
  <2> QED BY <2>1 DEF Rowed, Ids
<1>3. CASE Appending(a)
  <2>1. DOMAIN rows' = DOMAIN rows /\ \A s \in Ids \ {w[a].ses} : turns'[s] = turns[s]
    BY <1>3 DEF Appending, TurnsTyped
  <2> QED BY <1>3, <2>1, AppendsToRow DEF Rowed
<1>4. CASE Replacing(a)
  <2>1. DOMAIN rows' = DOMAIN rows \cup {w[a].ses} /\ \A s \in Ids \ {w[a].ses} : turns'[s] = turns[s]
    BY <1>4 DEF Replacing, TurnsTyped
  <2> QED BY <1>4, <2>1, ReplacesNamed DEF Rowed, Ids
<1> QED BY <1>1, <1>2, <1>3, <1>4 DEF Moves

\* Who has opened its session finds its row.
LEMMA OpenedStays ==
  ASSUME Ready, Tasked, Opened, NEW a \in Workers, Moves(a)
  PROVE  Opened'
<1>1. \A b \in Workers \ {a} : Alike(w[b], w'[b])
  BY MovesOn DEF Accepted, Bundled, Onward, OthersKeep
<1>2. SUFFICES ASSUME w'[a].pc = "busy", "append" \in TurnSet(w'[a].steps),
                      TurnSet(w'[a].steps) \cap Openers = {}
               PROVE  w'[a].ses \in DOMAIN rows'
  BY <1>1, RowsGrow DEF Opened, Alike
<1>3. CASE Accepted(a) \/ Bundled(a)
  <2>1. w'[a].req \in Request /\ w'[a].steps = Steps(w'[a].req)
    BY <1>3 DEF Accepted, Bundled
  <2> QED BY <1>2, <2>1, NewTask
<1>4. CASE Kept(a) \/ Reading(a) \/ Appending(a)
  <2>1. w[a].pc = "busy" /\ w'[a].steps = Tail(w[a].steps) /\ w'[a].ses = w[a].ses
    BY <1>4 DEF Kept, Reading, Appending, Advances
  <2>2. CASE Head(w[a].steps) = "row"
    <3>1. w[a].ses \in DOMAIN rows
      BY <1>4, <2>2 DEF Kept, Reading, Appending
    <3> QED BY <2>1, <3>1, RowsGrow
  <2>3. CASE Head(w[a].steps) # "row"
    <3>1. Head(w[a].steps) \notin Openers
      BY <1>4, <2>3 DEF Kept, Reading, Appending, Openers
    <3>2. TurnSet(w[a].steps) \cap Openers = {} /\ "append" \in TurnSet(w[a].steps)
      BY <1>2, <2>1, <3>1, HeadAndTail
    <3> QED BY <2>1, <3>2, RowsGrow DEF Opened
  <2> QED BY <2>2, <2>3
<1>5. CASE Creating(a) \/ Forking(a)
  BY <1>5 DEF Creating, Forking, Advances
<1>6. CASE Repeated(a) \/ Halted(a)
  BY <1>2, <1>6, RowsGrow DEF Repeated, Halted, Halts, Opened
<1>7. CASE Replacing(a)
  BY <1>7 DEF Replacing
<1> QED BY <1>3, <1>4, <1>5, <1>6, <1>7 DEF Moves

\* Who will create a session holds no turns.
LEMMA BlankedStays ==
  ASSUME Ready, Tasked, Blanked, NEW a \in Workers, Moves(a)
  PROVE  Blanked'
<1>1. \A b \in Workers \ {a} : Alike(w[b], w'[b])
  BY MovesOn DEF Accepted, Bundled, Onward, OthersKeep
<1>2. SUFFICES ASSUME w'[a].pc = "busy", "create" \in TurnSet(w'[a].steps)
               PROVE  w'[a].turns = <<>>
  BY <1>1 DEF Blanked, Alike
<1>3. CASE Accepted(a)
  BY <1>3 DEF Accepted
<1>4. CASE Bundled(a)
  BY <1>2, <1>4, NewTask DEF Bundled
<1>5. CASE Repeated(a)
  BY <1>2, <1>5 DEF Repeated, Blanked
<1>6. CASE Halted(a)
  BY <1>6 DEF Halted, Halts
<1>7. CASE Kept(a) \/ Reading(a) \/ Appending(a) \/ Creating(a) \/ Forking(a) \/ Replacing(a)
  <2>1. w[a].pc = "busy" /\ w'[a].steps = Tail(w[a].steps)
    BY <1>2, <1>7 DEF Kept, Reading, Appending, Creating, Forking, Replacing, Advances
  <2> QED BY <1>2, <2>1, HeadAndTail
<1> QED BY <1>3, <1>4, <1>5, <1>6, <1>7 DEF Moves

\* After its turn a run opens no session.
LEMMA SettledStays ==
  ASSUME Ready, Tasked, Settled, NEW a \in Workers, Moves(a)
  PROVE  Settled'
<1>1. \A b \in Workers \ {a} : Alike(w[b], w'[b])
  BY MovesOn DEF Accepted, Bundled, Onward, OthersKeep
<1>2. SUFFICES ASSUME Answering(a)' PROVE TurnSet(w'[a].steps) \cap {"create", "fork"} = {}
  BY <1>1 DEF Settled, Answering, Alike
<1>3. CASE Accepted(a) \/ Bundled(a)
  <2>1. w'[a].req \in Request /\ w'[a].steps = Steps(w'[a].req)
    BY <1>3 DEF Accepted, Bundled
  <2> QED BY <1>2, <2>1, NewTask DEF Answering
<1>4. CASE Repeated(a) \/ Halted(a)
  BY <1>2, <1>4 DEF Repeated, Halted, Halts, Answering, Settled
<1>5. CASE Kept(a) \/ Reading(a) \/ Creating(a) \/ Forking(a)
  <2>1. w[a].pc = "busy" /\ w'[a].steps = Tail(w[a].steps) /\ w'[a].req = w[a].req
        /\ Head(w[a].steps) # "append"
    BY <1>5 DEF Kept, Reading, Creating, Forking, Advances
  <2>2. Answering(a)
    BY <1>2, <2>1, HeadAndTail DEF Answering
  <2> QED BY <2>1, <2>2, HeadAndTail DEF Settled
<1>6. CASE Appending(a)
  <2>1. w[a].pc = "busy" /\ w'[a].steps = Tail(w[a].steps) /\ Head(w[a].steps) = "append"
    BY <1>6 DEF Appending, Advances
  <2> QED BY <2>1, HeadAndTail DEF Openers
<1>7. CASE Replacing(a)
  <2>1. w[a].pc = "busy" /\ Head(w[a].steps) = "session" /\ w'[a].req = w[a].req
    BY <1>7 DEF Replacing
  <2>2. w[a].req.do = "import"
    BY <2>1, HeadAndTail
  <2> QED BY <1>2, <2>1, <2>2 DEF Answering, MakesTurn
<1> QED BY <1>3, <1>4, <1>5, <1>6, <1>7 DEF Moves

\* A prefix, element by element.
LEMMA PrefixIs ==
  ASSUME NEW s \in Seq(TurnIds), NEW t \in Seq(TurnIds)
  PROVE  IsPrefix(s, t) <=> Len(s) <= Len(t) /\ \A i \in 1..Len(s) : s[i] = t[i]
<1>1. IsPrefix(s, t) <=> Len(s) <= Len(t) /\ SubSeq(s, 1, Len(s)) = SubSeq(t, 1, Len(s))
  BY DEF IsPrefix
<1>2. Len(s) \in Nat /\ Len(t) \in Nat
  OBVIOUS
<1>3. ASSUME Len(s) <= Len(t)
      PROVE  SubSeq(s, 1, Len(s)) = SubSeq(t, 1, Len(s)) <=> \A i \in 1..Len(s) : s[i] = t[i]
  <2> DEFINE p == SubSeq(s, 1, Len(s))
             q == SubSeq(t, 1, Len(s))
  <2>1. Len(s) \in 0..Len(s) /\ Len(s) \in 0..Len(t)
    BY <1>2, <1>3
  <2>2. /\ p \in Seq(TurnIds) /\ Len(p) = Len(s) /\ \A i \in 1..Len(s) : p[i] = s[i]
        /\ q \in Seq(TurnIds) /\ Len(q) = Len(s) /\ \A i \in 1..Len(s) : q[i] = t[i]
    BY <2>1, FrontTurns
  <2> HIDE DEF p, q
  <2>3. p = q <=> \A i \in 1..Len(s) : p[i] = q[i]
    <3>1. ASSUME \A i \in 1..Len(s) : p[i] = q[i] PROVE p = q
      BY <2>2, <3>1, SeqEqual
    <3> QED BY <3>1
  <2> QED BY <2>2, <2>3 DEF p, q
<1> QED BY <1>1, <1>3

\* What the proofs use of prefixes.
LEMMA PrefixFacts ==
  ASSUME NEW s \in Seq(TurnIds)
  PROVE  /\ IsPrefix(s, s) /\ IsPrefix(<<>>, s)
         /\ IsPrefix(s, <<>>) => s = <<>>
         /\ \A t \in Seq(TurnIds), x \in TurnIds : IsPrefix(s, t) => IsPrefix(s, Append(t, x))
<1>1. <<>> \in Seq(TurnIds) /\ Len(<<>>) = 0 /\ Len(s) \in Nat
  BY EmptySeq
<1>2. IsPrefix(s, s) /\ IsPrefix(<<>>, s)
  <2>1. IsPrefix(s, s) <=> Len(s) <= Len(s) /\ \A i \in 1..Len(s) : s[i] = s[i]
    BY PrefixIs
  <2> DEFINE e == <<>>
  <2>3. e \in Seq(TurnIds) /\ Len(e) = 0
    BY <1>1
  <2> HIDE DEF e
  <2>4. IsPrefix(e, s) <=> Len(e) <= Len(s) /\ \A i \in 1..Len(e) : e[i] = s[i]
    BY <2>3, PrefixIs
  <2>5. Len(s) <= Len(s) /\ Len(e) <= Len(s) /\ \A i \in 1..Len(e) : FALSE
    BY <1>1, <2>3
  <2>6. IsPrefix(s, s) /\ IsPrefix(e, s)
    BY <2>1, <2>4, <2>5
  <2> QED BY <2>6 DEF e
<1>3. IsPrefix(s, <<>>) => s = <<>>
  <2>1. IsPrefix(s, <<>>) => Len(s) <= 0
    BY <1>1, PrefixIs
  <2>2. Len(s) = 0 => s = <<>>
    OBVIOUS
  <2> QED BY <1>1, <2>1, <2>2
<1>4. ASSUME NEW t \in Seq(TurnIds), NEW x \in TurnIds, IsPrefix(s, t)
      PROVE  IsPrefix(s, Append(t, x))
  <2>1. /\ Append(t, x) \in Seq(TurnIds) /\ Len(Append(t, x)) = Len(t) + 1
        /\ \A i \in 1..Len(t) : Append(t, x)[i] = t[i]
    BY AppendTurns
  <2>2. Len(s) <= Len(t) /\ \A i \in 1..Len(s) : s[i] = t[i]
    BY <1>4, PrefixIs
  <2>3. Len(t) \in Nat
    OBVIOUS
  <2>4. Len(s) <= Len(t) + 1 /\ \A i \in 1..Len(s) : i \in 1..Len(t)
    BY <1>1, <2>2, <2>3
  <2>5. Len(s) <= Len(Append(t, x)) /\ \A i \in 1..Len(s) : s[i] = Append(t, x)[i]
    BY <2>1, <2>2, <2>4
  <2> QED BY <2>1, <2>5, PrefixIs
<1> QED BY <1>2, <1>3, <1>4

\* What happens to the turns of a session somebody else is in.
LEMMA OtherSessions ==
  ASSUME Ready, Tasked, TurnsTyped, Housed, Rowed, NEW a \in Workers, Moves(a),
         NEW b \in Workers \ {a}, w[b].ses # None, w[b].pc # "idle", ~w'[b].stale
  PROVE  LET s == w[b].ses IN
         /\ s \in Ids /\ ~w[b].stale
         /\ \/ turns'[s] = turns[s]
            \/ turns'[s] = Append(turns[s], a)
            \/ turns[s] = <<>>
<1>1. w[b].ses \in Ids /\ w[b].ses # a
  BY SessionsAssumption DEF Housed, Ids
<1>2. ~w[b].stale
  BY MovesOn DEF Accepted, Bundled, Onward, OthersKeep, Alike
<1>3. CASE Accepted(a) \/ Bundled(a) \/ Kept(a) \/ Repeated(a) \/ Halted(a) \/ Reading(a)
  BY <1>1, <1>2, <1>3 DEF Accepted, Bundled, Kept, Repeated, Halted, Reading, Quiet
<1>4. CASE Creating(a) \/ Forking(a)
  BY <1>1, <1>2, <1>4 DEF Creating, Forking, TurnsTyped
<1>5. CASE Appending(a)
  BY <1>1, <1>2, <1>5 DEF Appending, TurnsTyped
<1>6. CASE Replacing(a)
  <2>1. CASE w[b].ses = w[a].ses
    <3>1. w[a].ses \notin DOMAIN rows
      BY <1>6, <2>1 DEF Replacing
    <3> QED BY <1>1, <1>2, <2>1, <3>1 DEF Rowed
  <2>2. CASE w[b].ses # w[a].ses
    BY <1>1, <1>2, <1>6, <2>2 DEF Replacing, TurnsTyped
  <2> QED BY <2>1, <2>2
<1> QED BY <1>3, <1>4, <1>5, <1>6 DEF Moves

\* What was read stays a prefix.
LEMMA HistoryStays ==
  ASSUME Ready, Tasked, TurnsTyped, Housed, Rowed, Opened, Blanked, HistoryIsAppendOnly,
         NEW a \in Workers, Moves(a), TurnsTyped', Housed'
  PROVE  HistoryIsAppendOnly'
<1> SUFFICES ASSUME NEW b \in Workers, Reader(b)', ~w'[b].stale
             PROVE  IsPrefix(w'[b].turns, turns'[w'[b].ses])
  BY DEF HistoryIsAppendOnly
<1>1. \A x \in Workers : w[x].turns \in Seq(TurnIds)
  BY DEF Ready, WorkersShaped, Shaped
<1>2. w'[b].ses # None /\ w'[b].ses \in Ids /\ turns'[w'[b].ses] \in Seq(TurnIds)
  BY DEF Reader, Housed, TurnsTyped, Ids
<1>3. w'[b].req.do # "import" /\ w'[b].pc \in {"busy", "done"}
      /\ (w'[b].pc = "done" => w'[b].req.do = "export")
  BY DEF Reader, Exports
<1>4. CASE b # a
  <2>1. Alike(w[b], w'[b])
    BY <1>4, MovesOn DEF Accepted, Bundled, Onward, OthersKeep
  <2> DEFINE s == w[b].ses
             old == w[b].turns
  <2>2. Reader(b) /\ s # None /\ w[b].pc # "idle" /\ w'[b].ses = s /\ w'[b].turns = old
    BY <1>2, <1>3, <2>1 DEF Reader, Alike, Exports
  <2>3. /\ s \in Ids /\ ~w[b].stale
        /\ turns'[s] = turns[s] \/ turns'[s] = Append(turns[s], a) \/ turns[s] = <<>>
    BY <1>4, <2>2, OtherSessions
  <2>4. IsPrefix(old, turns[s]) /\ old \in Seq(TurnIds) /\ turns[s] \in Seq(TurnIds)
        /\ a \in TurnIds
    BY <1>1, <2>2, <2>3 DEF HistoryIsAppendOnly, TurnsTyped, TurnIds
  <2>5. CASE turns'[s] = turns[s] \/ turns'[s] = Append(turns[s], a)
    BY <2>2, <2>4, <2>5, PrefixFacts
  <2>6. CASE turns[s] = <<>>
    BY <1>2, <2>2, <2>4, <2>6, PrefixFacts
  <2> QED BY <2>3, <2>5, <2>6
<1>5. CASE b = a
  <2>0. w'[a].turns = <<>> => IsPrefix(w'[a].turns, turns'[w'[a].ses])
    BY <1>2, <1>5, PrefixFacts
  <2>1. CASE Accepted(a)
    BY <2>0, <2>1, <1>5 DEF Accepted
  <2>2. CASE Bundled(a)
    BY <1>3, <1>5, <2>2 DEF Bundled
  <2>3. CASE Halted(a)
    BY <1>3, <1>5, <2>3 DEF Halted, Halts
  <2>4. CASE Kept(a) \/ Repeated(a)
    <3>1. turns' = turns /\ w[a].pc = "busy" /\ w'[a].req = w[a].req /\ w'[a].ses = w[a].ses
          /\ ~w[a].stale /\ (w'[a].turns = w[a].turns \/ w'[a].turns = <<>>)
      BY <1>5, <2>4 DEF Kept, Repeated, Quiet, Advances
    <3>2. IsPrefix(w[a].turns, turns[w[a].ses])
      BY <1>2, <1>3, <1>5, <3>1 DEF HistoryIsAppendOnly, Reader
    <3> QED BY <1>5, <2>0, <3>1, <3>2
  <2>5. CASE Reading(a)
    <3>1. turns' = turns /\ w'[a].ses = w[a].ses
          /\ (w'[a].turns = turns[w[a].ses] \/ w'[a].turns = <<>>)
      BY <2>5 DEF Reading, Quiet, Advances
    <3> QED BY <1>2, <1>5, <2>0, <3>1, PrefixFacts
  <2>6. CASE Creating(a)
    <3>1. w[a].pc = "busy" /\ Head(w[a].steps) = "create"
          /\ (w'[a].turns = w[a].turns \/ w'[a].turns = <<>>)
      BY <2>6 DEF Creating, Advances
    <3>2. w[a].turns = <<>>
      BY <3>1, HeadAndTail DEF Blanked
    <3> QED BY <1>5, <2>0, <3>1, <3>2
  <2>7. CASE Forking(a)
    <3>1. PICK seq : /\ turns' = [turns EXCEPT ![a] = seq] /\ w'[a].ses = a
                     /\ w'[a].turns = seq \/ w'[a].turns = <<>>
      BY <2>7 DEF Forking, Advances
    <3>2. turns'[a] = seq
      BY <3>1 DEF TurnsTyped, Ids
    <3> QED BY <1>2, <1>5, <2>0, <3>1, <3>2, PrefixFacts
  <2>8. CASE Appending(a)
    <3>1. /\ turns' = [turns EXCEPT ![w[a].ses] = Append(@, a)] /\ w[a].pc = "busy"
          /\ w'[a].req = w[a].req /\ w'[a].ses = w[a].ses
          /\ ~w[a].stale /\ (w'[a].turns = w[a].turns \/ w'[a].turns = <<>>)
      BY <1>5, <2>8 DEF Appending, Advances
    <3>2. IsPrefix(w[a].turns, turns[w[a].ses])
      BY <1>2, <1>3, <1>5, <3>1 DEF HistoryIsAppendOnly, Reader
    <3>3. w[a].ses \in Ids /\ turns[w[a].ses] \in Seq(TurnIds) /\ a \in TurnIds
      BY <1>2, <1>5, <3>1 DEF TurnsTyped, TurnIds
    <3>4. turns'[w[a].ses] = Append(turns[w[a].ses], a)
      BY <3>1, <3>3 DEF TurnsTyped
    <3>5. IsPrefix(w[a].turns, turns'[w[a].ses])
      BY <1>1, <3>2, <3>3, <3>4, PrefixFacts
    <3> QED BY <1>5, <2>0, <3>1, <3>5
  <2>9. CASE Replacing(a)
    BY <1>3, <1>5, <2>9, ReplacesNamed DEF Replacing
  <2> QED BY <2>1, <2>2, <2>3, <2>4, <2>5, <2>6, <2>7, <2>8, <2>9 DEF Moves
<1> QED BY <1>4, <1>5

\* A turn that was saved stays.
LEMMA SavedStays ==
  ASSUME Ready, Tasked, TurnsTyped, Housed, Rowed, Opened, Settled, Saved,
         NEW a \in Workers, Moves(a)
  PROVE  Saved'
<1> SUFFICES ASSUME NEW b \in Workers, Answering(b)', ~w'[b].stale
             PROVE  w'[b].ses \in Ids /\ b \in TurnSet(turns'[w'[b].ses])
  BY DEF Saved
<1>0. TurnSet(<<>>) = {}
  BY DEF TurnSet
<1>1. CASE b # a
  <2>1. Alike(w[b], w'[b])
    BY <1>1, MovesOn DEF Accepted, Bundled, Onward, OthersKeep
  <2> DEFINE s == w[b].ses
  <2>2. Answering(b) /\ ~w[b].stale /\ w[b].pc # "idle" /\ w'[b].ses = s
    BY <2>1 DEF Answering, Alike
  <2>3. s \in Ids /\ b \in TurnSet(turns[s]) /\ s # None
    BY <2>2, SessionsAssumption DEF Saved
  <2>4. turns'[s] = turns[s] \/ turns'[s] = Append(turns[s], a)
    BY <1>0, <1>1, <2>2, <2>3, OtherSessions
  <2>5. turns[s] \in Seq(TurnIds) /\ a \in TurnIds
    BY <2>3 DEF TurnsTyped, TurnIds
  <2>6. CASE turns'[s] = turns[s]
    BY <2>2, <2>3, <2>6
  <2>7. CASE turns'[s] = Append(turns[s], a)
    <3>1. TurnSet(turns'[s]) = TurnSet(turns[s]) \cup {a}
      BY <2>5, <2>7, AppendTurns
    <3> QED BY <2>2, <2>3, <3>1
  <2> QED BY <2>4, <2>6, <2>7
<1>2. CASE b = a
  <2>1. CASE Accepted(a) \/ Bundled(a)
    <3>1. w'[a].req \in Request /\ w'[a].steps = Steps(w'[a].req)
      BY <2>1 DEF Accepted, Bundled
    <3> QED BY <1>2, <3>1, NewTask DEF Answering
  <2>2. CASE Repeated(a) \/ Halted(a)
    <3>1. Repeated(a) /\ Answering(a) /\ ~w[a].stale
      BY <1>2, <2>2 DEF Repeated, Halted, Halts, Answering
    <3> QED BY <1>2, <3>1 DEF Repeated, Quiet, Saved
  <2>3. CASE Kept(a) \/ Reading(a) \/ Creating(a) \/ Forking(a)
    <3>1. w[a].pc = "busy" /\ w'[a].steps = Tail(w[a].steps) /\ w'[a].req = w[a].req
          /\ Head(w[a].steps) # "append" /\ ~w[a].stale
      BY <1>2, <2>3 DEF Kept, Reading, Creating, Forking, Advances
    <3>2. Answering(a)
      BY <1>2, <3>1, HeadAndTail DEF Answering
    <3>3. Head(w[a].steps) \notin {"create", "fork"}
      BY <3>1, <3>2, HeadAndTail DEF Settled
    <3>4. turns' = turns /\ w'[a].ses = w[a].ses
      BY <2>3, <3>3 DEF Kept, Reading, Creating, Forking, Advances, Quiet
    <3> QED BY <1>2, <3>1, <3>2, <3>4 DEF Saved
  <2>4. CASE Appending(a)
    <3>1. /\ turns' = [turns EXCEPT ![w[a].ses] = Append(@, a)] /\ w'[a].ses = w[a].ses
      BY <2>4 DEF Appending, Advances
    <3>2. w[a].ses \in Ids
      BY <2>4, AppendsToRow
    <3>3. turns[w[a].ses] \in Seq(TurnIds) /\ a \in TurnIds
      BY <3>2 DEF TurnsTyped, TurnIds
    <3>4. turns'[w[a].ses] = Append(turns[w[a].ses], a)
      BY <3>1, <3>2 DEF TurnsTyped
    <3>5. a \in TurnSet(turns'[w[a].ses])
      BY <3>3, <3>4, AppendTurns
    <3> QED BY <1>2, <3>1, <3>2, <3>5
  <2>5. CASE Replacing(a)
    BY <1>2, <2>5, ReplacesNamed DEF Replacing, Answering, MakesTurn
  <2> QED BY <2>1, <2>2, <2>3, <2>4, <2>5 DEF Moves
<1> QED BY <1>1, <1>2

DoneIsOver == \A a \in Workers : w[a].pc = "done" => w[a].steps = <<>>

\* Who is done has no steps left.
LEMMA DoneStays ==
  ASSUME Ready, DoneIsOver, NEW a \in Workers, Moves(a), Ready'
  PROVE  DoneIsOver'
<1>1. \A b \in Workers \ {a} : Alike(w[b], w'[b])
  BY MovesOn DEF Accepted, Bundled, Onward, OthersKeep
<1>2. SUFFICES ASSUME w'[a].pc = "done" PROVE w'[a].steps = <<>>
  BY <1>1 DEF DoneIsOver, Alike
<1>3. Len(w'[a].steps) = 0 \/ w'[a].steps = <<>>
  BY <1>2 DEF Moves, Accepted, Bundled, Kept, Repeated, Halted, Halts, Reading, Creating, Forking,
     Appending, Replacing, Advances
<1>4. w'[a].steps \in Seq(StepNames)
  BY DEF Ready, WorkersShaped, Shaped
<1> QED BY <1>3, <1>4

KeepInv ==
  DoneIsOver /\ OwnInv /\ Housed /\ Rowed /\ Opened /\ Blanked /\ Settled /\ HistoryIsAppendOnly /\ Saved

\* KeepInv holds at first.
LEMMA KeepInitial == Init => KeepInv
<1> SUFFICES ASSUME Init PROVE KeepInv
  OBVIOUS
<1>1. w = [a \in Workers |-> Blank] /\ rows = Rows
      /\ turns = [s \in Ids |-> IF s \in Names THEN Stored[s] ELSE <<>>]
  BY DEF Init
<1>2. Blank.pc = "idle" /\ Blank.ses = None
  BY DEF Blank
<1>3. DoneIsOver /\ Housed /\ Opened /\ Blanked /\ Settled /\ Saved
  BY <1>1, <1>2 DEF DoneIsOver, Housed, Opened, Blanked, Settled, Saved, Answering
<1>4. HistoryIsAppendOnly
  BY <1>1, <1>2 DEF HistoryIsAppendOnly, Reader
<1>5. Rowed
  BY <1>1, SessionsAssumption DEF Rowed, Ids
<1> QED BY <1>3, <1>4, <1>5, OwnInitial DEF KeepInv

\* KeepInv is inductive.
LEMMA KeepStep == KeepInv /\ [Next]_vars => KeepInv'
<1> SUFFICES ASSUME KeepInv, [Next]_vars PROVE KeepInv'
  OBVIOUS
<1>1. /\ Ready /\ TurnsTyped /\ Tasked /\ Seated /\ OwnInv
      /\ DoneIsOver /\ Housed /\ Rowed /\ Opened /\ Blanked /\ Settled
      /\ HistoryIsAppendOnly /\ Saved
  BY DEF KeepInv, OwnInv
<1>2. OwnInv'
  BY <1>1, OwnStep
<1>3. CASE UNCHANGED vars
  BY <1>1, <1>2, <1>3 DEF vars, KeepInv, DoneIsOver, Housed, Rowed, Opened, Blanked, Settled, Answering,
     HistoryIsAppendOnly, Reader, Exports, Saved
<1>4. CASE Next
  <2>1. PICK a \in Workers : Moves(a)
    BY <1>1, <1>4, NextMoves
  <2>2. Housed' /\ TurnsTyped' /\ DoneIsOver'
    BY <1>1, <1>2, <2>1, HousedStays, DoneStays DEF OwnInv
  <2>3. Rowed' /\ Opened' /\ Blanked' /\ Settled'
    BY <1>1, <2>1, RowedStays, OpenedStays, BlankedStays, SettledStays
  <2>4. HistoryIsAppendOnly' /\ Saved'
    BY <1>1, <2>1, <2>2, HistoryStays, SavedStays
  <2> QED BY <1>2, <2>2, <2>3, <2>4 DEF KeepInv
<1> QED BY <1>3, <1>4

\* What anyone has read of a session stays a prefix of it unless an import
\* replaces the session: no save of a run, a compaction or a fork drops, moves or
\* rewrites a turn that LoadSession has returned.
THEOREM HistoryKept == Spec => []HistoryIsAppendOnly
<1>1. KeepInv => HistoryIsAppendOnly
  BY DEF KeepInv
<1> QED BY <1>1, KeepInitial, KeepStep, PTL DEF Spec

\* However many runs overlap on one session, each that has answered has its turn
\* there exactly once, and one that was cut off before AppendTurnWithEvents left
\* none.
THEOREM AnswersSurvive == Spec => []AnsweredTurnsSurvive
<1>1. KeepInv => AnsweredTurnsSurvive
  <2> SUFFICES ASSUME KeepInv, NEW a \in Runs
               PROVE  /\ Unsaved(a) => \A s \in Ids : a \notin TurnSet(turns[s])
                      /\ w[a].pc = "done" /\ ~w[a].stale =>
                           \E i \in DOMAIN turns[w[a].ses] :
                             \A j \in DOMAIN turns[w[a].ses] :
                               (turns[w[a].ses][j] = a) = (i = j)
    BY DEF AnsweredTurnsSurvive
  <2>1. a \in Workers /\ MakesTurn(w[a].req.do) /\ Fresh /\ Saved /\ OneSessionPerTurn
    BY DEF Runs, MakesTurn, KeepInv, OwnInv
  <2>2. Unsaved(a) => \A s \in Ids : a \notin TurnSet(turns[s])
    BY <2>1 DEF Unsaved, Fresh, Pending, Known
  <2>3. ASSUME w[a].pc = "done", ~w[a].stale
        PROVE  \E i \in DOMAIN turns[w[a].ses] :
                 \A j \in DOMAIN turns[w[a].ses] : (turns[w[a].ses][j] = a) = (i = j)
    <3>1. "append" \notin TurnSet(w[a].steps)
      BY <2>1, <2>3 DEF KeepInv, DoneIsOver, TurnSet
    <3>2. w[a].ses \in Ids /\ a \in TurnSet(turns[w[a].ses])
      BY <2>1, <2>3, <3>1 DEF Saved, Answering
    <3>3. PICK i \in DOMAIN turns[w[a].ses] : turns[w[a].ses][i] = a
      BY <3>2 DEF TurnSet
    <3>4. \A j \in DOMAIN turns[w[a].ses] : turns[w[a].ses][j] = a => i = j
      BY <2>1, <3>2, <3>3 DEF OneSessionPerTurn
    <3> QED BY <3>3, <3>4
  <2> QED BY <2>2, <2>3
<1> QED BY <1>1, KeepInitial, KeepStep, PTL DEF Spec
=============================================================================

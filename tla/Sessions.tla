------------------------------ MODULE Sessions ------------------------------
(***************************************************************************)
(* The sessions of one SQLite database (session/sqlite_store.go) and the   *)
(* requests that read and write them: runs and forks (runtime/runtime.go,  *)
(* session/fork.go), the todo tools and the todo API, compaction,          *)
(* checkpoints, artifacts, export and import (session/todo_tools.go,       *)
(* gateway/todos.go, compact_api.go, checkpoints.go, artifacts.go,         *)
(* session_export.go).                                                     *)
(*                                                                         *)
(* The store has one connection, so a query or a transaction is one step,  *)
(* and everything between two of them may interleave: LoadSession is four  *)
(* queries, and whatever is saved was computed from what was read before.  *)
(* A request that makes no use of a table it loads does not read it here.  *)
(* A turn and the events of its run are written by one transaction; a turn *)
(* stands for both.  A run's turn, and a session or an item it creates     *)
(* with a fresh id, is named by its worker.                                *)
(***************************************************************************)
EXTENDS Integers, FiniteSets, Sequences, SequencesExt

CONSTANTS
  None,
  Workers,       \* requests and tool calls; each serves one
  Names,         \* session ids a request may name
  OldTurns,      \* turns stored before
  TodoIds, ItemIds,
  Serves,        \* the requests each worker may serve
  Rows, Stored, Todos,   \* what the database holds at first
  Backups,       \* bundles exported earlier, here or elsewhere
  CompactAfter,  \* turns from which a run compacts (17 for the default ratio)
  KeepLast,      \* turns a summary leaves out at the end
  KeepLatest     \* artifacts a prune keeps

Ids     == Names \cup Workers
TurnIds == OldTurns \cup Workers
Kinds   == {"checkpoint", "artifact", "run"}
Items   == Kinds \X (ItemIds \cup Workers)

Row == [sum : SUBSET TurnIds, last : TurnIds \cup {None}]
EmptyRow == [sum |-> {}, last |-> None]
TodoList == UNION {[d -> Workers \cup {None}] : d \in SUBSET TodoIds}

\* What is known of an item of a bundle is the turn it is about.
ItemTurns(f) == DOMAIN f \subseteq Items /\ \A k \in DOMAIN f : f[k] \in TurnIds \cup {None}

IsBundle(b) ==
  /\ b.ses \in Names /\ b.row \in Row /\ b.turns \in Seq(OldTurns) /\ b.events \subseteq OldTurns
  /\ b.todos \in TodoList /\ ItemTurns(b.items) /\ b.stale \in BOOLEAN

Request == [do : {"run"}, ses : Names \cup {None}]
      \cup [do : {"fork"}, ses : Names, at : TurnIds \cup {None}]
      \cup [do : {"put"}, ses : Names, todos : SUBSET TodoIds]
      \cup [do : {"upsert", "drop"}, ses : Names, todo : TodoIds]
      \cup [do : {"compact"}, ses : Names, checkpoint : BOOLEAN]
      \cup [do : {"checkpoint", "artifact"}, ses : Names, id : ItemIds,
            turn : TurnIds \cup {None}]
      \cup [do : {"remove"}, id : ItemIds]
      \cup [do : {"create"}]
      \cup [do : {"prune", "export"}, ses : Names]
      \cup [do : {"import"}, as : Names \cup {None}, overwrite : BOOLEAN]

TurnSet(seq) == {seq[i] : i \in DOMAIN seq}

\* An import is refused unless everything in the bundle is about its turns.
KnownEvents(b) == b.events \subseteq TurnSet(b.turns)
Distinct(b)    == \A i, j \in DOMAIN b.turns : b.turns[i] = b.turns[j] => i = j
KnownItems(b)  == \A k \in DOMAIN b.items : b.items[k] \in TurnSet(b.turns) \cup {None}
Admissible(b)  == KnownEvents(b) /\ Distinct(b) /\ KnownItems(b)

\* A row that speaks of no turn its session does not have.
Sound(row, seq) == row.sum \subseteq TurnSet(seq) /\ row.last \in TurnSet(seq) \cup {None}

ASSUME SessionsAssumption ==
  /\ None \notin Ids \cup TurnIds \cup TodoList
  /\ Names \cap Workers = {} /\ OldTurns \cap Workers = {}
  /\ Serves \in [Workers -> SUBSET Request]
  /\ DOMAIN Rows \subseteq Names
  /\ Stored \in [Names -> Seq(OldTurns)]
  /\ \A s \in Names : s \notin DOMAIN Rows => Stored[s] = <<>> /\ Todos[s] = <<>>
  /\ \A s, x \in Names : \A i \in DOMAIN Stored[s], j \in DOMAIN Stored[x] :
       Stored[s][i] = Stored[x][j] => s = x /\ i = j
  /\ \A s \in DOMAIN Rows : Rows[s] \in Row /\ Sound(Rows[s], Stored[s])
  /\ Todos \in [Names -> TodoList]
  /\ \A b \in Backups : IsBundle(b) /\ Admissible(b) /\ Sound(b.row, b.turns)
  /\ {CompactAfter, KeepLast, KeepLatest} \subseteq Nat

VARIABLES
  rows,    \* table sessions: id -> summary and last response
  turns,   \* tables turns and events: the turns of every session, by ordinal
  todos,   \* table todos: id -> who wrote it
  items,   \* tables checkpoints, artifacts and runs: key -> session, turn, time
  w,       \* each worker
  torn,    \* history: sessions replaced by an import, or robbed of a checkpoint
  mixed    \* history: sessions whose row was computed from replaced turns

vars == <<rows, turns, todos, items, w, torn, mixed>>

-----------------------------------------------------------------------------
(* What a request does, step by step.                                      *)

StepNames == {"row", "turns", "events", "todos", "create", "fork", "agent", "append", "record",
              "save", "state", "attach", "remove", "prune",
              "checkpoint", "artifact", "run", "admit", "session", "restore"}

\* LoadSession is "row", "turns", "events", "todos".  Runtime.Run, once it has its
\* session, is the agent, whose tools use the todos, the turn, and the outcome
\* the starter returns.
NewRunSteps     == <<"create", "agent", "todos", "append", "record">>
ResumeSteps     == <<"row", "turns", "agent", "todos", "append", "record">>
ForkSteps       == <<"row", "turns", "todos", "fork", "agent", "todos", "append", "record">>
CreateSteps     == <<"create">>
PutSteps        == <<"save">>
UpsertSteps     == <<"row", "todos", "save">>
DropSteps       == <<"row", "todos", "save">>
CompactSteps(r) == IF r.checkpoint THEN <<"row", "turns", "state", "attach">>
                   ELSE <<"row", "turns", "state">>
CheckpointSteps == <<"row", "turns", "attach">>
ArtifactSteps   == <<"row", "turns", "attach">>
RemoveSteps     == <<"remove">>
PruneSteps      == <<"row", "prune">>
ExportSteps     == <<"row", "turns", "events", "todos", "checkpoint", "artifact", "run">>
ImportSteps     == <<"admit", "session", "restore">>

Steps(r) ==
  CASE r.do = "run" -> (IF r.ses = None THEN NewRunSteps ELSE ResumeSteps)
    [] r.do = "fork" -> ForkSteps         [] r.do = "create" -> CreateSteps
    [] r.do = "put" -> PutSteps           [] r.do = "upsert" -> UpsertSteps
    [] r.do = "drop" -> DropSteps         [] r.do = "compact" -> CompactSteps(r)
    [] r.do = "checkpoint" -> CheckpointSteps
    [] r.do = "artifact" -> ArtifactSteps
    [] r.do = "remove" -> RemoveSteps     [] r.do = "prune" -> PruneSteps
    [] r.do = "export" -> ExportSteps     [] r.do = "import" -> ImportSteps

Blank == [pc |-> "idle", req |-> None, steps |-> <<>>, ses |-> None, row |-> EmptyRow,
          turns |-> <<>>, events |-> {}, todos |-> None, items |-> <<>>, left |-> {},
          alone |-> TRUE, stale |-> FALSE]

At(a, step) == w[a].pc = "busy" /\ Head(w[a].steps) = step

\* The worker after its step; one that is done keeps what its answer showed.
After(r) ==
  LET rest == Tail(r.steps)
  IN IF rest # <<>> THEN [r EXCEPT !.steps = rest]
     ELSE IF r.req.do = "export" THEN [r EXCEPT !.steps = rest, !.pc = "done"]
     ELSE [Blank EXCEPT !.pc = "done", !.req = r.req, !.ses = r.ses,
                        !.alone = r.alone, !.stale = r.stale]

Stopped(r) == [Blank EXCEPT !.pc = "failed", !.req = r.req, !.ses = r.ses,
                            !.steps = r.steps, !.stale = r.stale]

\* What a write does to the marks of another worker: an export or an import is
\* no longer alone, and who holds a replaced session holds stale data.
Disturbed(r, s, replaced) ==
  [r EXCEPT !.alone = @ /\ ~(r.pc = "busy" /\ r.req.do \in {"export", "import"}),
            !.stale = @ \/ (replaced /\ r.pc # "idle" /\ r.ses = s)]

DbSame        == UNCHANGED <<rows, turns, todos, items, torn, mixed>>
Reads(a, r)   == w' = [w EXCEPT ![a] = After(r)]
Becomes(a, r) == w' = [b \in Workers |-> IF b = a THEN r ELSE Disturbed(w[b], None, FALSE)]
Writes(a, r)  == Becomes(a, After(r))
Fails(a)      == w' = [w EXCEPT ![a] = Stopped(@)] /\ DbSame

Put(f, k, v) == [x \in DOMAIN f \cup {k} |-> IF x = k THEN v ELSE f[x]]

-----------------------------------------------------------------------------
(* Store operations.                                                       *)

\* turns.id and events.id are primary keys: an insert of a turn that another
\* session has fails, and with it the whole transaction.
MutConflictReplaces(s, seq) == FALSE
Conflict(s, seq) == \E x \in Ids \ {s} : TurnSet(turns[x]) \cap TurnSet(seq) # {}

MutSaveSessionUpdates(s, row, seq, list) ==
  /\ ~Conflict(s, seq)
  /\ rows'  = IF s \in DOMAIN rows THEN Put(rows, s, row) ELSE rows
  /\ turns' = [turns EXCEPT ![s] = seq]
  /\ todos' = [todos EXCEPT ![s] = list]

SaveSession(s, row, seq, list) ==
  /\ ~Conflict(s, seq)
  /\ rows'  = Put(rows, s, row)
  /\ turns' = [turns EXCEPT ![s] = seq]
  /\ todos' = [todos EXCEPT ![s] = list]

Now == LET times == {items[k].at : k \in DOMAIN items}
       IN 1 + (IF times = {} THEN 0 ELSE CHOOSE t \in times : \A u \in times : u <= t)

\* ON CONFLICT(id): a checkpoint stays with the session that first used its id,
\* an artifact and a run go to the session of the last writer.
MutOwnerStays(k, s) == IF k \in DOMAIN items THEN items[k].ses ELSE s
Owner(k, s) == IF k[1] = "checkpoint" /\ k \in DOMAIN items THEN items[k].ses ELSE s

SaveItem(k, s, turn) ==
  /\ items' = Put(items, k, [ses |-> Owner(k, s), turn |-> turn, at |-> Now])
  /\ torn' = IF Owner(k, s) = s THEN torn ELSE torn \cup {Owner(k, s)}

\* What a summary covers: all turns but the last ones.
Summary(seq) == {seq[i] : i \in 1..(Len(seq) - KeepLast)}

Newer(k) == {l \in DOMAIN items : /\ l[1] = "artifact" /\ items[l].ses = items[k].ses
                                  /\ items[l].at > items[k].at}

\* raw_session is the whole session, whatever the limits on its parts.
MutExportedTrimmed(r) ==
  [ses |-> r.ses, row |-> r.row, turns |-> IF r.turns = <<>> THEN <<>> ELSE <<Head(r.turns)>>, events |-> r.events,
   todos |-> r.todos, items |-> r.items, stale |-> r.stale]
Exported(r) == [ses |-> r.ses, row |-> r.row, turns |-> r.turns, events |-> r.events,
                todos |-> r.todos, items |-> r.items, stale |-> r.stale]

Exports == {a \in Workers : w[a].pc = "done" /\ w[a].req.do = "export"}
Bundles == Backups \cup {Exported(w[a]) : a \in Exports}

-----------------------------------------------------------------------------
(* Requests.                                                               *)

Init ==
  /\ rows = Rows
  /\ turns = [s \in Ids |-> IF s \in Names THEN Stored[s] ELSE <<>>]
  /\ todos = [s \in Ids |-> IF s \in Names THEN Todos[s] ELSE <<>>]
  /\ items = <<>>
  /\ w = [a \in Workers |-> Blank]
  /\ torn = {} /\ mixed = {}

Accept(a) ==
  /\ w[a].pc = "idle"
  /\ \E r \in Serves[a] :
       /\ r.do # "import"
       /\ w' = [w EXCEPT ![a] = [Blank EXCEPT !.pc = "busy", !.req = r, !.steps = Steps(r),
                 !.ses = IF "ses" \in DOMAIN r THEN r.ses ELSE None]]
  /\ DbSame

AcceptImport(a) ==
  /\ w[a].pc = "idle"
  /\ \E r \in Serves[a], b \in Bundles :
       /\ r.do = "import"
       /\ w' = [w EXCEPT ![a] = [Blank EXCEPT !.pc = "busy", !.req = r, !.steps = Steps(r),
                 !.ses = IF r.as = None THEN b.ses ELSE r.as, !.row = b.row,
                 !.turns = b.turns, !.events = b.events, !.todos = b.todos,
                 !.items = b.items, !.left = DOMAIN b.items, !.stale = b.stale]]
  /\ DbSame

\* LoadSession: four queries, each on its own.
ReadRow(a) ==
  /\ At(a, "row")
  /\ w[a].ses \in DOMAIN rows
  /\ Reads(a, [w[a] EXCEPT !.row = rows[w[a].ses], !.stale = @ \/ w[a].ses \in mixed])
  /\ DbSame

NotFound(a) ==
  /\ \/ At(a, "row") \/ At(a, "save")
  /\ w[a].ses \notin DOMAIN rows
  /\ Fails(a)

ReadTurns(a) ==
  /\ At(a, "turns")
  /\ Reads(a, [w[a] EXCEPT !.turns = turns[w[a].ses]])
  /\ DbSame

ReadEvents(a) ==
  /\ At(a, "events")
  /\ Reads(a, [w[a] EXCEPT !.events = TurnSet(turns[w[a].ses])])
  /\ DbSame

ReadTodos(a) ==
  /\ At(a, "todos")
  /\ Reads(a, [w[a] EXCEPT !.todos = todos[w[a].ses]])
  /\ DbSame

\* A new session gets a fresh id.
Create(a) ==
  /\ At(a, "create")
  /\ SaveSession(a, EmptyRow, <<>>, <<>>)
  /\ Writes(a, [w[a] EXCEPT !.ses = a])
  /\ UNCHANGED <<items, torn, mixed>>

\* The turns a fork keeps: all, or those up to and with the one named.
Retained(seq, at) ==
  IF at = None THEN seq ELSE SubSeq(seq, 1, CHOOSE i \in DOMAIN seq : seq[i] = at)

\* A fork keeps the ids of its turns, the summary and the todos; its last
\* response is that of its last turn, if that one has a response.
ForkRow(row, seq) == [row EXCEPT !.last = IF seq = <<>> THEN None ELSE Last(seq)]

Fork(a) ==
  /\ At(a, "fork")
  /\ w[a].req.at \in TurnSet(w[a].turns) \cup {None}
  /\ LET seq == Retained(w[a].turns, w[a].req.at)
         row == ForkRow(w[a].row, seq)
     IN /\ SaveSession(a, row, seq, w[a].todos)
        /\ Writes(a, [w[a] EXCEPT !.ses = a, !.row = row, !.turns = seq])
  /\ mixed' = IF w[a].stale THEN mixed \cup {a} ELSE mixed
  /\ UNCHANGED <<items, torn>>

\* No such turn, or the turns it keeps are those of another session.
ForkFails(a) ==
  /\ At(a, "fork")
  /\ \/ w[a].req.at \notin TurnSet(w[a].turns) \cup {None}
     \/ /\ w[a].req.at \in TurnSet(w[a].turns) \cup {None}
        /\ Conflict(a, Retained(w[a].turns, w[a].req.at))
  /\ Fails(a)

MutAgentSavesStateFirst(a) ==
  /\ At(a, "agent")
  /\ LET row == [w[a].row EXCEPT !.last = a]
     IN /\ rows' = [rows EXCEPT ![w[a].ses] = row]
        /\ Writes(a, [w[a] EXCEPT !.row = row])
  /\ UNCHANGED <<turns, todos, items, torn, mixed>>

\* A long session is summed up, unless there would be nothing to sum up.
Compacted(row, seq) ==
  IF Len(seq) < CompactAfter \/ Summary(seq) = {} THEN row ELSE [row EXCEPT !.sum = Summary(seq)]

\* The agent answers or fails; both make a turn, with the id of a response or not.
Agent(a) ==
  /\ At(a, "agent")
  /\ \E answered \in BOOLEAN :
       LET row == [w[a].row EXCEPT !.last = IF answered THEN a ELSE @]
       IN Reads(a, [w[a] EXCEPT !.row = Compacted(row, Append(w[a].turns, a))])
  /\ DbSame

\* The turn, at the next ordinal whatever was loaded, its events and the row in
\* one transaction; the todos are not part of it.
MutAppendTurnSavesSession(a) ==
  /\ At(a, "append")
  /\ SaveSession(w[a].ses, w[a].row, Append(w[a].turns, a), w[a].todos)
  /\ Writes(a, w[a])
  /\ UNCHANGED <<items, torn, mixed>>

AppendTurn(a) ==
  LET s == w[a].ses
  IN /\ At(a, "append")
     /\ turns' = [turns EXCEPT ![s] = Append(@, a)]
     /\ rows' = [rows EXCEPT ![s] = w[a].row]
     /\ Writes(a, w[a])
     /\ mixed' = IF w[a].stale THEN mixed \cup {s} ELSE mixed
     /\ UNCHANGED <<todos, items, torn>>

\* The run manager writes the outcome with the id of the turn (what it writes
\* before, and for runs that have no turn, is in RunManager).
RecordRun(a) ==
  /\ At(a, "record")
  /\ SaveItem(<<"run", a>>, w[a].ses, a)
  /\ Writes(a, w[a])
  /\ UNCHANGED <<rows, turns, todos, mixed>>

-----------------------------------------------------------------------------
(* Todos.                                                                  *)

\* The todos a request is about.
Subject(r) ==
  CASE r.do = "put" -> TodoIds
    [] r.do \in {"upsert", "drop"} -> {r.todo}
    [] OTHER -> {}

NewTodos(a) ==
  LET r == w[a].req
  IN CASE r.do = "put"    -> [d \in r.todos |-> a]
       [] r.do = "upsert" -> Put(w[a].todos, r.todo, a)
       [] r.do = "drop"   -> [d \in DOMAIN w[a].todos \ {r.todo} |-> w[a].todos[d]]

\* Requests that have read a list of s and will write it back.
Holding(a, s) == {b \in Workers \ {a} : /\ w[b].pc = "busy" /\ w[b].req.do \in {"upsert", "drop"}
                                        /\ w[b].ses = s /\ w[b].todos # None}

\* Later requests about the same todo make an earlier one obsolete.
Obsolete(a, s) == {b \in Workers \ {a} : /\ w[b].pc = "done" /\ w[b].ses = s
                                         /\ Subject(w[b].req) \cap Subject(w[a].req) # {}}

SaveTodos(a) ==
  LET s == w[a].ses
      rivals == Holding(a, s)
  IN /\ At(a, "save")
     /\ s \in DOMAIN rows
     /\ w[a].req.do = "drop" => w[a].req.todo \in DOMAIN w[a].todos
     /\ todos' = [todos EXCEPT ![s] = NewTodos(a)]
     /\ w' = [b \in Workers |->
               IF b = a THEN After([w[a] EXCEPT !.alone = @ /\ rivals = {}])
               ELSE IF b \in rivals \cup Obsolete(a, s) THEN [w[b] EXCEPT !.alone = FALSE]
               ELSE Disturbed(w[b], None, FALSE)]
     /\ UNCHANGED <<rows, turns, items, torn, mixed>>

NoSuchTodo(a) ==
  /\ At(a, "save")
  /\ w[a].req.do = "drop"
  /\ w[a].req.todo \notin DOMAIN w[a].todos
  /\ Fails(a)

-----------------------------------------------------------------------------
(* Compaction, checkpoints and artifacts.                                  *)

\* Nothing is written when the summary would be empty.
MutSaveStateDropsTurns(a) ==
  LET s == w[a].ses
      sum == Summary(w[a].turns)
  IN /\ At(a, "state")
     /\ rows' = [rows EXCEPT ![s] = [w[a].row EXCEPT !.sum = sum]]
     /\ turns' = [turns EXCEPT ![s] = SelectSeq(@, LAMBDA t : t \notin sum)]
     /\ Writes(a, w[a])
     /\ UNCHANGED <<todos, items, torn, mixed>>

SaveState(a) ==
  LET s == w[a].ses
      sum == Summary(w[a].turns)
      row == [w[a].row EXCEPT !.sum = IF sum = {} THEN @ ELSE sum]
  IN /\ At(a, "state")
     /\ rows' = IF sum = {} THEN rows ELSE [rows EXCEPT ![s] = row]
     /\ mixed' = IF w[a].stale /\ sum # {} THEN mixed \cup {s} ELSE mixed
     /\ Writes(a, w[a])
     /\ UNCHANGED <<turns, todos, items, torn>>

\* The key and the turn of what a request attaches to its session.
Attached(a) ==
  LET r == w[a].req
  IN IF r.do = "compact"
     THEN [key |-> <<"checkpoint", a>>,
           turn |-> IF w[a].turns = <<>> THEN None ELSE Last(w[a].turns)]
     ELSE [key |-> <<r.do, r.id>>, turn |-> r.turn]

\* A checkpoint whose id another session uses is overwritten there, and the
\* request fails when it loads what it saved.
Attach(a) ==
  LET s == w[a].ses
      it == Attached(a)
  IN /\ At(a, "attach")
     /\ it.turn \in TurnSet(w[a].turns) \cup {None}
     /\ SaveItem(it.key, s, it.turn)
     /\ Becomes(a, IF Owner(it.key, s) = s THEN After(w[a]) ELSE Stopped(w[a]))
     /\ UNCHANGED <<rows, turns, todos, mixed>>

NoSuchTurn(a) ==
  /\ At(a, "attach")
  /\ Attached(a).turn \notin TurnSet(w[a].turns) \cup {None}
  /\ Fails(a)

Drop(a, keys) == /\ items' = [k \in DOMAIN items \ keys |-> items[k]]
                 /\ Writes(a, w[a])
                 /\ UNCHANGED <<rows, turns, todos, torn, mixed>>

RemoveArtifact(a) ==
  /\ At(a, "remove")
  /\ Drop(a, {<<"artifact", w[a].req.id>>})

PruneArtifacts(a) ==
  /\ At(a, "prune")
  /\ Drop(a, {k \in DOMAIN items : /\ k[1] = "artifact" /\ items[k].ses = w[a].ses
                                   /\ Cardinality(Newer(k)) >= KeepLatest})

-----------------------------------------------------------------------------
(* Export and import.                                                      *)

ReadItems(a) ==
  LET kind == Head(w[a].steps)
      own == {k \in DOMAIN items : k[1] = kind /\ items[k].ses = w[a].ses}
  IN /\ w[a].pc = "busy" /\ kind \in Kinds
     /\ Reads(a, [w[a] EXCEPT !.items = [k \in DOMAIN @ \cup own |->
                                           IF k \in own THEN items[k].turn ELSE @[k]]])
     /\ DbSame

\* The bundle is checked as a whole, and so is the id, unless overwrite is set.
Admit(a) ==
  /\ At(a, "admit")
  /\ Admissible(w[a])
  /\ w[a].req.overwrite \/ w[a].ses \notin DOMAIN rows
  /\ Reads(a, w[a])
  /\ DbSame

Refuse(a) ==
  /\ At(a, "admit")
  /\ \/ ~Admissible(w[a])
     \/ Admissible(w[a]) /\ ~w[a].req.overwrite /\ w[a].ses \in DOMAIN rows
  /\ Fails(a)

ImportSession(a) ==
  LET s == w[a].ses
      replaced == s \in DOMAIN rows
      next == IF w[a].left = {} THEN [w[a] EXCEPT !.steps = <<"session">>] ELSE w[a]
  IN /\ At(a, "session")
     /\ SaveSession(s, w[a].row, w[a].turns, w[a].todos)
     /\ torn' = IF replaced THEN torn \cup {s} ELSE torn
     /\ mixed' = IF w[a].stale THEN mixed \cup {s} ELSE mixed \ {s}
     /\ w' = [b \in Workers |->
               IF b = a THEN After(next)
               ELSE [Disturbed(w[b], s, replaced) EXCEPT
                       !.alone = @ /\ ~(w[b].ses = s /\ w[b].pc # "idle")]]
     /\ UNCHANGED items

ImportConflict(a) ==
  /\ At(a, "session")
  /\ Conflict(w[a].ses, w[a].turns)
  /\ Fails(a)

\* Checkpoints first, then artifacts, then runs, one statement each.
Rank(k) == CASE k[1] = "checkpoint" -> 1 [] k[1] = "artifact" -> 2 [] k[1] = "run" -> 3

RestoreItem(a) ==
  /\ At(a, "restore")
  /\ \E k \in w[a].left :
       LET rest == w[a].left \ {k}
           next == [w[a] EXCEPT !.left = rest]
       IN /\ \A l \in rest : Rank(k) <= Rank(l)
          /\ SaveItem(k, w[a].ses, w[a].items[k])
          /\ Writes(a, IF rest = {} THEN next
                       ELSE [next EXCEPT !.steps = <<"restore">> \o @])
  /\ UNCHANGED <<rows, turns, todos, mixed>>

-----------------------------------------------------------------------------
\* A client that goes away, a run that is cancelled, or a crash: the context of
\* the request ends and nothing more of it reaches the database.
Abandon(a) == w[a].pc = "busy" /\ Fails(a)

Step(a) ==
  \/ Accept(a)        \/ AcceptImport(a)
  \/ ReadRow(a)       \/ NotFound(a)      \/ ReadTurns(a)   \/ ReadEvents(a)
  \/ ReadTodos(a)     \/ Create(a)        \/ Fork(a)        \/ ForkFails(a)
  \/ Agent(a)         \/ AppendTurn(a)    \/ RecordRun(a)
  \/ SaveTodos(a)     \/ NoSuchTodo(a)
  \/ SaveState(a)     \/ Attach(a)        \/ NoSuchTurn(a)
  \/ RemoveArtifact(a) \/ PruneArtifacts(a)
  \/ ReadItems(a)     \/ Admit(a)         \/ Refuse(a)
  \/ ImportSession(a) \/ ImportConflict(a) \/ RestoreItem(a)
  \/ Abandon(a)

Next == \E a \in Workers : Step(a)
Spec == Init /\ [][Next]_vars

-----------------------------------------------------------------------------
(* Properties.                                                             *)

WorkerOK(r) ==
  /\ DOMAIN r = DOMAIN Blank
  /\ r.pc \in {"idle", "busy", "done", "failed"} /\ r.req \in Request \cup {None}
  /\ r.steps \in Seq(StepNames) /\ r.ses \in Ids \cup {None} /\ r.row \in Row
  /\ r.turns \in Seq(TurnIds) /\ r.events \subseteq TurnIds
  /\ r.todos \in TodoList \cup {None} /\ ItemTurns(r.items) /\ r.left \subseteq Items
  /\ r.alone \in BOOLEAN /\ r.stale \in BOOLEAN

\* Every table, and what every worker holds, has its shape; a session without a
\* row has neither turns nor todos (foreign keys are on).
TypeOK ==
  /\ DOMAIN rows \subseteq Ids /\ \A s \in DOMAIN rows : rows[s] \in Row
  /\ turns \in [Ids -> Seq(TurnIds)]
  /\ todos \in [Ids -> TodoList]
  /\ DOMAIN items \subseteq Items
  /\ \A k \in DOMAIN items :
       items[k] \in [ses : Ids, turn : TurnIds \cup {None}, at : Nat \ {0}]
  /\ \A a \in Workers : WorkerOK(w[a])
  /\ \A s \in Ids \ DOMAIN rows : turns[s] = <<>> /\ todos[s] = <<>>
  /\ torn \cup mixed \subseteq Ids

Runs == {a \in Workers : w[a].pc # "idle" /\ w[a].req.do \in {"run", "fork"}}
Unsaved(a) == w[a].pc # "done" /\ "append" \in TurnSet(w[a].steps)

\* However many runs of one session overlap (each computed its turn from the
\* session as it was when it started), a run that has answered finds its turn in
\* its session exactly once, and one that was cut off before it saved left none.
AnsweredTurnsSurvive ==
  \A a \in Runs :
    /\ Unsaved(a) => \A s \in Ids : a \notin TurnSet(turns[s])
    /\ w[a].pc = "done" /\ ~w[a].stale =>
         \E i \in DOMAIN turns[w[a].ses] :
           \A j \in DOMAIN turns[w[a].ses] : (turns[w[a].ses][j] = a) = (i = j)

Reader(a) == /\ w[a].ses # None /\ w[a].req.do # "import"
             /\ w[a].pc = "busy" \/ a \in Exports

\* What anyone has read of a session stays a prefix of it, whatever is saved
\* later, unless an import replaces it: compaction drops no turn, a turn gets no
\* earlier ordinal, and a turn that was read is never taken back.
HistoryIsAppendOnly ==
  \A a \in Workers : Reader(a) /\ ~w[a].stale => IsPrefix(w[a].turns, turns[w[a].ses])

\* The summary and the last response of a session are about turns it has, also
\* when runs, compactions, exports and imports of it overlap: each writes a row
\* computed from what it loaded in four separate queries.
RowSpeaksOfItsTurns ==
  \A s \in DOMAIN rows \ mixed : Sound(rows[s], turns[s])

\* A todo change that overlapped no other stays until a later request about the
\* same todo or an import, also when runs and compactions that loaded the
\* session before it save after it.
TodosAreKept ==
  \A a \in Workers :
    w[a].pc = "done" /\ w[a].alone =>
      LET list == todos[w[a].ses]  r == w[a].req
      IN /\ r.do = "upsert" => r.todo \in DOMAIN list /\ list[r.todo] = a
         /\ r.do = "drop" => r.todo \notin DOMAIN list
         /\ r.do = "put" => \A d \in TodoIds :
                              IF d \in r.todos THEN d \in DOMAIN list /\ list[d] = a
                              ELSE d \notin DOMAIN list

\* A turn belongs to one session and occurs in it once, whoever forks or imports
\* what.
OneSessionPerTurn ==
  \A s, x \in Ids : \A i \in DOMAIN turns[s], j \in DOMAIN turns[x] :
    turns[s][i] = turns[x][j] => s = x /\ i = j

\* An export nobody wrote beside can be imported: its events, checkpoints,
\* artifacts and runs are about turns it contains.  (A session that an import
\* replaced, or whose checkpoint id another session used, is left out.)
ExportIsClosed ==
  \A a \in Exports :
    w[a].alone /\ ~w[a].stale /\ w[a].ses \notin torn => Admissible(Exported(w[a]))

Imported(a) ==
  LET b == w[a]
  IN /\ b.ses \in DOMAIN rows' /\ rows'[b.ses] = b.row
     /\ turns'[b.ses] = b.turns /\ todos'[b.ses] = b.todos
     /\ \A k \in DOMAIN b.items :
          /\ k \in DOMAIN items' /\ items'[k].turn = b.items[k]
          /\ k[1] # "checkpoint" => items'[k].ses = b.ses

\* The answer to an import means that the session is the one of the bundle, if
\* nobody wrote beside it: session, turns, todos, and every checkpoint, artifact
\* and run, which are saved one by one.  (A checkpoint id that another session
\* uses stays with that one.)
ImportRestoresBundle ==
  [][\A a \in Workers :
       w[a].pc = "busy" /\ w[a].req.do = "import" /\ w[a].alone /\ w'[a].pc = "done"
         => Imported(a)]_vars
=============================================================================

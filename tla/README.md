# TLA+ models of kkode

kkode is a Go agent runtime: a gateway process accepts *runs* over HTTP, executes
each in a goroutine that drives an LLM provider and its tools, stores sessions,
runs and events in one SQLite file, and streams run events to clients. This
directory holds TLA+ models of the parts where order, concurrency and failure
decide whether the program is right, the TLC configurations that check them, and
proofs checked by TLAPS. Paths below are relative to the repository's root.

## 1. The system

| Component | State | Operations | Hard behaviour | What makes it correct |
|---|---|---|---|---|
| Run manager (`gateway/run_manager.go`) | map of managed runs, one context per run, slot channel, wait group | Start, Cancel, Get, execute, Shutdown, RecoverStaleRuns | status copied under the lock and written after it; duplicates; several processes on one database; cancel against result; exits | executed at most once; slots accounted for; terminal is final; cancelled and accepted runs end |
| Gateway process (`cmd/kkode-gateway/main.go`) | the wired parts | start with recovery, signal, drain, shutdown, exit | order of the two shutdowns, timeout, kill | a shutdown ends and leaves outcomes |
| Run event bus (`gateway/event_bus.go`) | channels per run id | subscribe, unsubscribe, publish | non-blocking sends, full and closed channels, concurrent publishers | the outcome reaches every subscriber |
| SSE handler (`gateway/server.go`) | cursor, last status, channel | subscribe, get, replay, live events | gap and overlap between replay and live; renumbering; filter and limit | no gap, increasing ids, ends with the run |
| Session store (`session/sqlite_store.go`) | sessions, turns, events, todos, checkpoints, runs, run events, resources, artifacts | transactions, list queries | upserts, seq numbering, retries | claims are exclusive, seqs have no holes |
| Session runtime (`runtime/runtime.go`, `session/`) | a session loaded in memory | Run, Resume, Fork, compaction | concurrent runs of one session, cancelled context | no turn lost, history in order |
| Todos (`gateway/todos.go`, `session/todo_tools.go`) | the list of a session | upsert, delete, todo_write, todo_update | two read-modify-write paths | a change that overlapped no other stays |
| Import/export (`gateway/session_export.go`) | none | export, import | several tables, no transaction | an export can be imported; an answered import has restored its bundle |
| Workspace (`workspace/workspace.go`, `tools/file.go`) | a file tree | write, delete, move, edit, apply_patch | partial failure, overlapping paths | an operation happens as described or not at all |
| File checkpoints (`workspace/checkpoint.go`, `gateway/files_api.go`) | saved entries | create, restore, delete, prune | restore after kind changes, partial restore | restoring undoes the operation |
| Resources (`gateway/resources.go`, `cmd/kkode-gateway/main.go`) | MCP servers, skills, subagents as rows | save, delete; validate, preview, assemble an agent | rows change between the validator and the starter, and between two loads | a run is built of what it names, as it stands when its turn comes |
| Provider registry (`app/provider_registry.go`) | table of providers | register a batch, look up, unregister | aliases, profiles of profiles, refusal in the middle of a batch | a name means one provider; all of a batch or nothing |
| Provider pipeline and transport (`llm/pipeline.go`, `providers/internal/httptransport`) | none | convert, send with retry, parse | retry of what was done, backoff arithmetic, cancel while waiting | bounded attempts and waits |
| Tool loop (`llm/tools.go`, `agent/agent.go`) | request in progress | iterate, execute calls in parallel | panics, cancellation, ordering | one result per call, in order; the loop ends |
| MCP client (`tools/mcp.go`) | a subprocess or a URL | handshake, call | messages of the server in between, its own ids | the answer belongs to the call |
| Provider streams (`llm/stream.go`, `providers/*`) | channel, reader goroutine, subprocess | open, receive, close | consumer gone, close against send | events in order, the last one true |

Clients call the HTTP handlers; Start and Cancel go to the run manager, which
writes the `runs` and `run_events` tables and publishes on the bus; SSE handlers
read the tables and the bus; `execute` calls the starter, which runs the session
runtime and through it the tool loop, a provider and the workspace; trace events
of the agent come back through a reporter in the context and are stored and
published like status changes. Before that, the validator of a POST and the starter
of the run each load the MCP servers, skills and subagents the request names.
`PROJECT.json` lists every component, also those
left out, and every hazard with the line where it bites.

## 2. Modules

| Module | Models | Checked with |
|---|---|---|
| `RunManager` | the run manager, the process around it, the status column of `runs` | `MCRunManager`, five cfgs |
| `RunPool` | abstract: ids are claimed once, begun once, bounded per process | `ImplementsRunPool` of `RunManager` |
| `RunManagerProofs`, `RunOutcomeProofs` | theorems about `RunManager` | TLAPS |
| `RunStream` | one run's events: store, bus, SSE handler | `MCRunStream`, three cfgs |
| `RunStreamProofs` | theorems about `RunStream` | TLAPS |
| `Workspace` | the files of a workspace and their checkpoints | `MCWorkspace`, two cfgs |
| `WorkspaceProofs` | theorems about `Workspace` | TLAPS |
| `Sessions` | the tables of sessions, turns, todos, checkpoints, artifacts and runs, and every request that reads and writes them | `MCSessions` |
| `SessionsProofs`, `SessionDataProofs` | theorems about `Sessions` | TLAPS |
| `CallContext` | what the parts of one provider call share | through `AgentRun` |
| `ProviderRegistry` | the table of providers of a process | through `AgentRun` |
| `Assembly` | stored resources, and the validator, queue, starter and preview of a run | through `AgentRun` |
| `ProviderCall` | one Generate call: attempts, waits, outcome | through `AgentRun` |
| `ToolLoop` | iterations, tool calls, MCP exchanges | through `AgentRun` |
| `EventStream` | source, reader, channel and caller of a streamed call | through `AgentRun` |
| `AgentRun` | composes the six modules above into one process and one call | `MCAgentRun` |
| `EventStreamProofs`, `AgentRunProofs` | theorems about `AgentRun`: its streams, and all the rest of it | TLAPS |

### RunManager

A step is one critical section of `m.mu`, one SQLite transaction, or one channel
or context operation. State and code correspond so: `runs`, `ctxDone`, `slots` are
`m.runs[id].run.Status` (`Absent` if not in the map), the run's context, and
`len(m.runSlots)`; `exec[g][r]` is the goroutine of `execute`, with its program
counter, whether it holds a token, and the snapshot that `update` copied under
the lock and `persist` writes later; `call[c]` is an HTTP handler inside Start or
Cancel; `shut` and `recov` are the loops of Shutdown and RecoverStaleRuns; `row`
is the status column. `feed` is the last status a process published, `logged` the outcomes among the
stored `run_events` of each run. `started` and `exits` are history.

The parts of a run other than its status (prompt, provider, tools, error text)
are left out: no branch modelled here reads them, and `Keyed` stands for the test of
`sameIdempotentRun`. A run id is either derived from session and
Idempotency-Key (`Keyed`) or random, so a duplicate of an unkeyed id is a
conflict. A write under a request's context may fail (`StoreMayRefuse`);
`update` writes under `context.Background()` and the model lets those succeed, as
it does the write of Shutdown. `Crash` is a kill, and also an exit because the
shutdown timeout expired.

### RunStream

It begins when Start's claim is committed. `pub[p]` is what the execute
goroutine or a Cancel handler is storing and publishing: the row, then the
channels copied under the read lock, then per channel the three selects of
`publishEventToChannel` as three steps, because nothing holds a lock over them.
`h[s]` is an SSE handler with its parameters and the locals `seq` and `initial`;
`ch[s]` the subscriber's channel; `sent[s]` the last id the client was sent, the
rows it got and the last status it read; `lost[s]` the rows it missed because
its channel was full. Progress reports come one at a time from inside the
starter (the agent's observer mutex, and the tool loop waits for its calls).

### Workspace

`tree` says what each path is: missing, a directory, or a file with a text. A
text is the set of edits made to it, which is what tells a lost edit from a kept
one; names are numbers in byte order, because the order decides what `WalkDir`
leaves out. A worker `w[a]` is one handler (`file_*` and `workspace_*` tools, the
files API): it takes a snapshot of the paths it names, saves it, checks the tree,
and then makes its file system calls one by one (`Calls`); the first that fails
ends it. A restore loads a checkpoint and does the same entry by entry; a prune
works through a list it read before. `Works` and `Effect` are the five file system
calls the code uses, with the errors that matter here (a missing parent, a parent
that is a file, a directory in the way). A snapshot, a check with its several
stats and reads, a `RemoveAll` and a `WriteFile` are one step each, except that a
crash may leave a file that was being written empty. `base` is history: the tree
at the last snapshot, kept as long as only that request and restores of its
checkpoint change the tree, and whether the last such restore succeeded. Nothing
changes inside `.kkode`, and paths deeper than those of `Paths` do not occur in the
requests.

### Sessions

The store has one connection (`SetMaxOpenConns(1)`), so a query or a transaction is
one step and everything between two of them interleaves. A worker `w[a]` is one
request or tool call with what it has loaded (`row`, `turns`, `events`, `todos`,
`items`) and the steps it still has to make; `Steps(r)` gives, for each handler, the
order of its queries, the tables `LoadSession` reads being `row`, `turns`, `events`,
`todos` in this order.
`rows[s]` is the row of the table `sessions`, reduced to which turns its summary
covers and which turn its last response is of; `turns[s]` are the turns by ordinal;
`todos[s]` says who wrote each todo; `items` are the rows of `checkpoints`,
`artifacts` and `runs` with their session, their turn and their age. A turn and the
events of its run are written by one transaction, so a turn stands for both. Fresh
ids are named by the worker that makes them. `Conflict` is the primary key of
`turns` and `events`, `Owner` the `ON CONFLICT` clauses of the other tables.

`alone`, `stale`, `torn` and `mixed` are history: a request nobody wrote beside; a
request that holds data of a session an import replaced; a session replaced by an
import or robbed of a checkpoint; a session whose row was computed from replaced
turns. They state under which condition a property is promised.

### AgentRun and its parts

`kind`, `cancelled`, `servers` and `offered` (`CallContext`) are the provider that was
resolved, the context of the call, the MCP servers and tool handlers of the agent.

`ProviderRegistry`: `registry` is `providerRegistry`, `batch` the list of
`KKODE_HTTPJSON_PROVIDERS`, `added` the number of unregister functions held, `boot`
where `main` is. Each registration and removal is one critical section of
`providerRegistryMu`. `Find` compares keys as the code does, `Converter` follows a
profile to the entry with converters of its own.

`Assembly`: `resources` is the table, `job` one POST: `left` are the loads still to be
made, one `LoadResource` query per step, a subagent putting its linked servers in
front. `Post`/`Peek` clean and check a request, `Validated` drops what the validator
loaded and queues the run, `TurnComes` begins the second pass in the starter,
`Assembled` and `Previewed` merge with the defaults and filter tools. `since` (the
rows in force since the pass began), `used` and `blocks` are history.

`ProviderCall`: `http` is one call of `DoWithRetry`, with how each attempt ended; a
reply is the sequence of its items. `ToolLoop`: `loop` and `req` are the locals of
`RunToolLoop`, `work[i]` the goroutine (or turn) of the i-th call, `slots` the
semaphore; an MCP call is its handshake and its request as separate steps, because
any message of the server may come between. `BuildInput` is what goes over the wire.
`replies` and `ran` are history. `EventStream`: `source` is an SSE body, a process or
an SDK session, `reader` the goroutine or callback that moves events into `chan`,
`caller` who receives.

`AgentRun` adds the lookup of a provider, `mode`, `Cancel` and the end of the process.
There is one call per process, and a tool ends the same way each time it is called.

## 3. Runs

| Run | Instance | Shows |
|---|---|---|
| `RunManagerOne` | 1 gateway, 2 keyed runs, 1 slot, 2 starts, 2 cancels, refusing store, 1 exit | types, slot accounting, tracked entries, outcomes in the database are real, terminal is final, recovery leaves no active row |
| `RunManagerTwo` | 2 gateways, 1 id, 2 starts, 1 cancel, refusing store, 1 exit | at most one execution, the inductive invariant, refinement of `RunPool` |
| `RunManagerLive` | 1 gateway, 2 runs, 1 slot, 1 cancel, 1 exit, fairness | announced outcomes are stored, a cancel wins over the result, cancelled and accepted runs end, shutdown ends |
| `RunManagerStaleShutdown` | 1 gateway, 1 run | **violation**: Shutdown returns with `cancelling` stored |
| `RunManagerRecoverLive` | 2 gateways, 1 run | **violation**: recovery closes a run that another process executes |
| `RunStreamRaces` | 1 stream with any cursor of {0, 2}, type of {none, queued}, limit of {1, 9}; channel of 1; 1 progress event; 1 Cancel; fairness | no gap, outcome shown before the end, outcome kept, ids increase, live streams end |
| `RunStreamFullBuffer` | the same | **violation**: with a Cancel publishing alongside, the outcome is dropped |
| `RunStreamCursor` | the same | **violation**: a resumed stream sends ids below its cursor |
| `Sessions` | 3 requests (every kind in one worker, the run, compaction, export and import of one session in another, todo changes, a run and an overwriting import in the third), 3 sessions, 2 old turns, 2 todos, 1 id of an item, 2 bundles from elsewhere, each request cut off anywhere | what a run, a reader, a todo change, an export and an import are promised while others write |
| `AgentRun` | 9 batches on 4 built-in entries, 5 names to ask for, 4 posted requests over 4 resources with one edit, replies of up to 4 items, 2 iterations, 2 places, channel of 2, 3 events, cancel anywhere, fairness | registry, assembly, retries, the request that carries results back, the stream, and that what has begun ends |
| `WorkspaceUndo` | 5 paths on two levels, 3 trees, 3 workers, 11 changes of every kind, `keep_latest` 1 and 2, crashes | what a restore brings back and when it fails, what a prune keeps |
| `WorkspaceHidden` | the same, 2 workers | **violation**: files beside a `.git` file are not restored |

Why these bounds are enough to be interesting. Two runs behind one slot give a
holder and a waiter; two starts of one id give a duplicate in memory, in another
process, and after an exit; a cancel can hit each phase; one exit gives recovery
with rows in every active status, and a page size of one makes the scan loop. In the
stream runs a channel of one place is full after one event, so that drop, drain
and resend happen with every order of the other publisher and the reader; cursor
2 lies in the middle of the log or at its end, and limit 1 cuts the replay.
In `WorkspaceUndo` two workers are a change and its undo, or two changes at once,
and the third adds a second undo, a rival or a prune; the trees hold two files, a
directory with a file and an empty one to move onto, and a directory with a
`.git` file. The workers are interchangeable, hence the symmetry.

In `Sessions` two runs of one session overlap at every query, with a compaction, an
import or a todo change as the third party; `CompactAfter = 3` stands for the 17 turns
of the default ratio and `KeepLast = 1` for the 3 or 4 turns a summary leaves out, so
that the third turn of a session compacts it; `KeepLatest = 0` makes every artifact
one that a prune may take. The first worker serves only the four requests of the
core, and the third only what meets them, because a third worker with everything is
out of reach.

In `AgentRun` the batches are empty, good, an alias that is taken, an alias repeated, a
malformed name, a profile that comes too late, a limit out of range, a name taken in
another spelling, and a profile without routes. The requests name one server twice
and one that a subagent links to, withhold a tool, ask for a single tool, and ask for
no known provider; the edit switches off, spoils or deletes any row at any moment.
`MaxRetries = 0` is the default that means two; with `MinBackoff = 2`, `MaxBackoff = 3` and
six bits the shift passes the maximum, and the headers are one below zero and one
above it. The replies ask for a tool that answers, one that panics, one that fails,
two MCP servers (pipes and HTTP) and one that is not configured, with an item
in between that is no call; two places for three calls make one wait. A channel of
two with three events blocks the reader.

`exits <= MaxExits`, `MaxProgress`, `MaxEdits` and `MaxEvents` are the only bounds in
guards; the request sets bound everything else. Deadlock is not checked: the requests are finite and
the system may then be at rest.

Some properties hold under a condition that the code needs and the comment at the
property names: `DurableOutcomeIsReal`, `RecoveryLeavesNoOrphan` and
`AnnouncedOutcomeIsDurable` with one gateway, the latter and `CancelWins` with a store
that accepts the request's write, `CancelIsAnswered` for a run that is launched (a Cancel
between the insert of an id and its claim is answered cancelling, and the run it leaves
is never launched), `UndoLosesNothing` for
files `WalkDir` does not pass by and a tree nobody else changed, `TerminalIsKept` and `LiveStreamEnds` as long as no
Cancel arrived. The violation runs show two of these conditions to be needed. In
`Sessions`, what an import replaces and what is computed from it are left out of the
promises about runs and rows, a todo change must overlap no other request that
writes todos, and an export must have had nobody write beside it (`ExportIsClosed`):
the code takes no lock across the queries of a request.

### Fairness

Weak fairness of each goroutine: the Go scheduler runs what can run and each
transaction ends. A starter whose context is done returns (providers, tools and
the store take that context); one whose context is alive need not, except under
`StartersReturn`, the premise of `AcceptedRunEnds`, which `-run-timeout` provides,
and in `RunStream`. Nothing is assumed about requests, clients, exits or
restarts.

`AgentRun` states three weak fairness conditions: of the work of the call (a query
returns; the turn of a queued run comes, which `RunManager` shows for runs that end;
an attempt ends, since the HTTP client has a timeout that covers the body; a timer
fires; a handler returns; an MCP server answers or its context ends the exchange; a
process or SDK turn is taken to end), of the reader of a stream, and of a caller that
keeps receiving. None of posting, editing, cancelling, closing or stopping.
`Sessions` states none: it has safety properties only.

### Findings

* Shutdown (`gateway/run_manager.go:493`) persists a snapshot after releasing the
  lock, so its `cancelling` can land on top of the outcome that `execute` wrote;
  the comment promises that the final status is stored.
* RecoverStaleRuns (`gateway/run_manager.go:220`) fails every active row, not only
  those whose owner is gone, when two processes share a database.
* `publishEventToChannel` (`gateway/event_bus.go:164`) can drop the terminal event
  when two publishers meet at a full channel; the stream then never ends.
* `writeRunSSE` (`gateway/server.go:1072`) answers a resumed stream that has
  nothing new with an event of id 1, below the client's cursor.
* `snapshotExistingPath` (`workspace/checkpoint.go:251`) returns `SkipDir` for files
  too: deleting a directory that holds a `.git` file (a submodule or a worktree)
  and restoring the checkpoint gives back an empty directory, and success.

### Observations

Seen while modelling; the models behave as the code does here, and no run is spent
on them.

Sessions and store:

* A fork that keeps turns fails on SQLite: turn ids are a primary key of the whole
  table (`session/sqlite_store.go:77`). So does an import under a new session id into
  the store the bundle comes from.
* `SaveCheckpoint` (`session/sqlite_store.go:830`) updates the row of the same id
  whatever its session is; the caller then does not find what it saved. An import
  that overwrites leaves checkpoints, artifacts and runs about turns that are gone.
* A todo change is load, change, save: of two that overlap one is lost. An export
  made while a run is saved may be one that an import refuses.

Assembly:

* What the validator loads is dropped; the starter loads everything again, so a
  validated run can fail, and it runs with the resources of its turn.
* The API accepts configs the loader refuses (`tools` of an MCP server that is no
  list of strings, a skill without `SKILL.md`). A skill whose file is blank is accepted
  and adds nothing to the context.
* `disabled_tools` does not withhold the todo tools, which the runtime merges in after
  the filter, and a preview does not show them. Of two requested servers with one
  name the later replaces the earlier silently.
* An httpjson provider whose profile has no routes (codex, copilot) registers and
  cannot be built. A circle of profiles can be registered through the Go API, not
  through the environment.

Calls:

* A `function_call` of a reply is sent back with an empty `call_id` on its output,
  because the parser does not read the field (`providers/openai/parse.go:98`).
* After the first iteration the loop drops the prompt and relies on
  `previous_response_id`, while `agent.request` leaves `Store` false; items are sent
  again although the previous response has them.
* `MaxRetries: 0` means 2; a shift that overflows gives a wait of zero or less; a
  `Retry-After` of `1m` is read as one millisecond.
* A message of an MCP server with the number of the request, also a request of its
  own, is taken for the answer and gives a success with an empty result. That holds over
  pipes and in an event stream. A JSON body over HTTP is taken whatever its number is
  (`tools/mcp.go:231`): a notification becomes a success with an empty result, a reply to
  another request that one's result, and an empty body is a success too. `OutputsAnswerCalls`
  promises the number only where several messages may come, and says that the others are
  outputs of HTTP servers.
* `httpjson` and `codexcli` send their last event without looking at the context: when
  the caller has left a full channel the goroutine stays. The copilot callback can
  send on a channel that `Close` has closed, and drops events after a cancel.
* An SSE body that ends without `[DONE]` counts as complete.

## 4. Proofs

`RunManagerProofs` proves, for every set of gateways, runs and requests and every
limit, from `RunManagerAssumption` alone (finite `Runs`, `Keyed \subseteq Runs`, and
the types of the numbers):

* `Invariance`: `Spec => []IInv`, the inductive invariant;
* from it `TypeCorrect`, `SlotsAreAccounted`, `ExecutedAtMostOnce`,
  `EntriesAreTracked`, `RunningIsBounded`, and the action property `TerminalStays`;
* `RefinesRunPool`: `Spec => ImplementsRunPool`, under the mapping of `Pool`
  (rows are claims; executions are goroutines inside the starter).

`AtMostOnceExecution` is not inductive. `IInv` adds that the right to execute is a
token: it is the absent row, or the one handler between its committed claim and
the launch, or the one goroutine that has not called the starter
(`ClaimIsExclusive`); that handlers run only in processes that serve or drain,
that a starting process is empty, that two handlers never hold one entry
open, and that status and goroutine agree. `SlotAccounting` needs `SlotsHeld` and the
cardinality lemmas of the library. The proof goes by effects: each group of actions is
summarised by what the other conjuncts can see of it, and one lemma per conjunct
shows that every effect preserves it. TLC checks `IInv` in `RunManagerTwo`.

`RunOutcomeProofs` adds what the database and the subscribers are told, with one
gateway (`OneGateway`) and any number of runs, requests, exits and restarts:

* `OutcomesAreReal`: `Spec => []DurableOutcomeIsReal`, whatever the store refuses;
* `AnnouncedAreDurable`: `Spec => []AnnouncedOutcomeIsDurable`, when the store accepts
  the writes (`StoreMayRefuse = FALSE`). Both conditions are those under which the
  code keeps the promise. An announced outcome is in `logged`, the stored events, and
  the row is not back in queued or running while the run has a goroutine; it may say
  cancelling, which is what `ShutdownSavesOutcomes` shows.

Each effect of `RunManagerProofs` is extended by what it writes to rows and feed and
which snapshot it takes (`Written`). `OutcomeInv` says that a snapshot still to be
written is current (`SnapshotsAreCurrent`) and that a row between its claim and its
outcome is open (`ClaimedRowIsOpen`). `LoggedInv` says that whoever is about to publish an
outcome, the goroutine or a request that met an ended run, has stored an event of it, and
that what was published is stored; the stored events only grow (`LogGrows`). `AnnouncedInv`
adds the row, with the lemma that a closed row is not opened again (`ClosedRowStays`).

* `RecoveryIsComplete`: `Spec => RecoveryLeavesNoOrphan`, an action property, with one
  gateway, whatever the store refuses. `RecoverInv` says that while a process recovers no
  row stands in a status whose listing it has finished: nobody else writes, since no
  handler runs before the process serves, and recovery only closes rows.
* `CancelDecides`: `Spec => CancelWins`, an action property, for any number of gateways,
  when the store accepts the writes. `CancelInv` says that whoever fired a context had
  written the row before, so that no later Start opens the run anew (`Going`), and that the
  context stays done while the run it was fired for goes on.

`AgentRunProofs` proves of the whole composition, from the assumptions on the
constants:

* `RetriesAreBounded`: `Spec => []RetriesFollowPolicy`, for every retry limit, every
  set of `Retry-After` values and every width of a duration. `PolicyInv` adds the type
  of the call and that an attempt under way is one of those allowed. That the wait
  never exceeds the maximum holds whatever the shift has wrapped round to
  (`WaitIsBounded`);
* `RegistryStaysSound`: `Spec => []RegistryIsSound`, for every table of built-in entries
  and every batch. `RegistryInv` says that the table is the built-in entries followed by
  the part of the batch that is in, under the same names. An unregister function, which
  removes the first entry of a name, then always removes the last one
  (`UnregisterTakesLast`), so undoing a batch leaves the built-in table. It also says that
  the profile of an entry names one before it (`ProfileBefore`), so following profiles
  goes down the table and has ended after as many steps as there are entries
  (`ProfilesEnd`);
* `AssemblyFaithful`: `Spec => AssemblyIsFaithful`, an action property, for every set of
  resources, requests and writes to the table. `AssemblyInv` says where a pass is
  (`PassAt`): it has made the first `m` loads of its request and has `q` loads of a
  subagent's servers before it goes on, each load made was of a row in force since the pass
  began (`UsedInv`), the blocks follow the order of the loads (that of a skill may be
  missing, its file blank: `Given`), and a server that is found
  under a name has the config of the last place the name was loaded from (`FoundInv`). For
  the latter a request must name each resource once, which holds because it was cleaned
  (`SanitizedIsGood`). When nothing is left to load, `m` is all of them and `q` is none;
* `OutputsAnswer`: `Spec => []OutputsAnswerCalls`, for every set of replies, tools and servers,
  any number of iterations and of places, and every order in which handlers end. `LoopInv`
  says that the items of the next request are those of the replies so far, each followed by
  the outputs of its calls once they are collected (`ToldInv`); that a call that has not
  ended has no end in `ran` and one that has ended has exactly one, which its output
  reports (`HandlersInv`, `Reported`), a call cancelled before its handler began having
  none; that an MCP call ends with a message that lacks the number of its request only
  over HTTP (`CanEnd`, `FrameTaken`, `BodyTaken`); that this stays so once an output has joined the items (`OutputsInv`); and that the
  semaphore counts the handlers under way (`PlacesInv`). Collecting adds a slice at the end
  of the items (`ReplyJoins`, `OutputsJoin`), whichever handler was last;
* `AgentRunKeepsType`: `Spec => []TypeOK`, from all of these and the invariant of the stream;
  among other things that no more handlers run at a time than there are places.

The operators behind the last three build sequences in a loop: `Selected` (what
`sanitizeUniqueStrings` and the filter of tool calls keep), `Converter` and `FlattenSeq`. They
are recursive functions, and a lemma each (`SelectedDef`, `ConverterDef`, `FlattenDef`) says that
there is a function obeying the recursion, whose values follow by induction up to a
number (`UpTo`, from `WellFoundedInduction`, with a set in place of a predicate). The
proofs assume of the constants that a reply, the lists of a request and the links of a
subagent are sequences, as slices are. TLC has checked `LoopInv`, `JobInv` and `AssemblyInv` on the
instance of the run `AgentRun`.

`EventStreamProofs` proves of the streamed call, for every capacity of the channel, every
number of events and every provider, `StreamFaithful`: `Spec => []StreamIsFaithful`. The
argument goes by the line: the events the caller has received followed by those in the
channel. A receive does not change it (`LineReceived`) and a send appends to it
(`LineGrows`). `StreamInv` says for each place of the reader how far the line is behind the
source: a scanning reader loses nothing before it leaves and leaves early only when the
context is done (`ScanInv`); the SDK's callback closes the channel with the last event,
unless `Close` does (`SDKInv`); the reader's own event comes last and says how the source
ended (`LineInv`, `HandInv`). `ModeInv` says that a stream belongs to a call that streams and
whose request was answered, so no other step of the process touches it. TLC has checked
`IInv` on the instance of the run `AgentRun`.

`SessionsProofs` first reduces every step of `Sessions` to one of ten moves (`StepMoves`):
a request is accepted, reads the turns, creates, forks, appends to or replaces a
session, fails, or does something that touches neither turns nor rows. The rest is
proved from the moves, for every set of workers, names, requests and bundles, under
`SessionsAssumption` (ids of sessions, stored turns and runs differ, and what is
stored at first is itself consistent: a session that has no row yet has no turns and no
todos, since both tables refer to `sessions(id)`, `session/sqlite_store.go:78` and `:152`).

* `OneSessionPerTurnHolds`: `Spec => []OneSessionPerTurn`. The invariant is not inductive: the
  append of a run puts a turn in a session, so `OwnInv` adds that nobody, neither a
  session nor a worker nor an export that may become a bundle, has the turn of a
  run that has not appended it (`Fresh`); that the steps of a request append at most
  once (`Tasked`); and that no worker holds a turn twice (`HeldOnce`), which forks and
  imports rely on beside the primary key (`Conflict`).
* `HistoryKept`: `Spec => []HistoryIsAppendOnly`, and `AnswersSurvive`: `Spec => []AnsweredTurnsSurvive`.
  `KeepInv` adds to `OwnInv` that a worker is in a session it named or created
  (`Housed`), so a create or a fork never writes to a session another one is in; that
  a session without a row has no turns (`Rowed`), so an import that is not a replacement
  takes nothing away; that a request about to append has opened its session
  (`Opened`); that a creation comes before any read (`Blanked`); and that after its turn
  a run opens no other session (`Settled`), so the turn is in the session it names (`Saved`).

`SessionDataProofs` proves the other properties of `Sessions`, under the same assumption.
It reduces every step to what becomes of the record of its worker (`StepWorks`: a request or
a bundle is taken, the worker fails, or it goes on with one step less) and of those of
the others, who only learn that they are no longer alone or that what they read is stale.

* `SessionsTyped`: `Spec => []TypeOK`. `TypeInv` adds to `KeepInv` the order of the steps a
  request has left (`Courses`), what it has been given by then (`Placed`, `Listed`) and the
  tables. That a checkpoint can always get a later time than those stored is a maximum of a
  finite set, had from the least counterexample (`LeastOf`).
* `RowsSpeakOfTheirTurns`: `Spec => []RowSpeaksOfItsTurns`. A row that is held speaks of turns its
  session has, save the turn its holder is about to append (`RowHeld`); whoever writes a
  row together with turns has read the turns after it (`ReadsBoth`), and turns are only
  added in between. Hence a row that is older than the turns beside it does no harm.
* `TodoChangesKept`: `Spec => []TodosAreKept`. Not inductive: somebody may have read the list
  before the change and write it back after. `TodoInv` demands the change of every
  list that is held to be written back (`Holding`).
* `ExportsAreClosed`: `Spec => []ExportIsClosed`. `ExportInv` says for every item of the database that
  its turn was saved before it (`ItemsKnown`, from `TurnSaved` and `ReadThere`, for the
  requests that will store one), and of an export that nobody disturbed that it holds the
  session as it is (`ExportsHeld`). An item of a session that is torn is left out, as in
  the property.
* `ImportsRestore`: `Spec => ImportRestoresBundle`, an action property. `ImportInv` says what an
  import has saved so far: everything except the items left to restore (`Restored`).

`RunStreamProofs` proves, for every set of requests, cancels and cursors and every
capacity of a channel, from `RunStreamAssumption`: `TypeCorrect`;
`OutcomeIsDelivered`: `Spec => []TerminalIsKept`; `StreamEndsWithOutcome`:
`Spec => []EndedStreamShowsOutcome`; `ReplayMeetsLive`: `Spec => []NothingIsSkipped`;
and the action property `StreamIdsIncrease`.

* None of the three invariants is inductive. A row a client waits for is delivered, lost
  in a full channel, in the channel, or still in the hands of `execute` (`DeliveredInv`);
  that the handler may stop at a terminal event without leaving one behind needs the
  order within a channel (`ChannelInv`: nothing `execute` stored before its outcome comes
  after a terminal event).
* That nobody is left without an outcome needs, beside the channel that holds it, the
  publisher that has it still to send, and, for the time before the stream subscribes, the
  log it replays (`OutcomeInv`). It is promised when no Cancel publishes (`NoCancel`): with
  one, the run `RunStreamFullBuffer` shows the terminal event dropped. The place `Drain`
  made is then still free when the event is offered again.
* `StageInv` ties terminal statuses to the end of `execute`, `PubInv` an event that is
  stored to its row and to the channels still to be served. The proofs go from what each
  action does to one publisher, one handler or one channel (the lemmas before them).

`WorkspaceProofs` proves, for every finite set of paths, every tree and every set of
workers and requests, from `WorkspaceAssumption`: `TypeCorrect`; `PruneKeeps`:
`Spec => []PruneKeepsNewest`; `UndoRestores`, `UndoIsWhole` and `UndoFailure`: `Spec => []` of
`UndoRestoresEntries`, `UndoLosesNothing` and `UndoFailsOnlyAfterReplacing`.

* First, that each file system call takes a tree to a tree, and that the calls of a request
  are on the paths it names (`OwnCall`), or, in a restore, on one path that is put back
  to what it was (`UndoCalls`). `TypeInv` is the type invariant, split by field, with what
  is true of a worker at each program counter (`Shape`).
* The checkpoint `base` speaks of belongs to one worker (`IdsInv`), who was accepted on that
  tree and changes only what it named (`OwnerInv`). Every path no checkpoint records is
  what it was if it was a file the walk did not pass by (`Promise`), and every path a restore
  has been through is what it was (`UndoShape`); an undo that ended well therefore has
  them all (`AllBack`). A request that replaces nothing leaves no file where a directory
  was and none above a path it named (`Kinds`), which is why no restore of it fails.
* `PruneInv` adds to `PruneKeepsNewest` that whatever a prune has still to delete has enough
  newer ones among all that were ever saved: the list it works through is old, but the
  saved checkpoints only become more.
* `Calls` flattens a sequence of sequences, a recursive function. Induction with an operator as
  parameter being out of reach, `FlattenType` takes the least counterexample
  (`LeastNumber`, from `WellFoundedInduction`).

Only model-checked: the five liveness properties (`CancelIsAnswered`, `AcceptedRunEnds`,
`ShutdownEnds`, `LiveStreamEnds`, `CallEnds`), because TLAPS does not do fairness or ENABLED.
Every invariant and every action property of a passing run is a theorem.

## 5. Not modelled

Run listings and statistics, retryRun (a Start with a new id), the RunDTO channels of
the bus (the same code on another map), the JSON form of run events. A failing
write of `update`: its error is ignored by the code, and the row then stays behind.
Listings, filters and page offsets of the store and its migrations. Trace events,
the text of summaries and prompts, redaction, schemas and options of payloads.
`llm.Router`, which no program of the repository uses; hosted MCP tools, which the
provider executes; the probes of MCP servers; the side calls of omniroute.
`Agent.Stream` is modelled, but neither main program calls it. `handleAPI`
(`gateway/api.go:8`) routes `openapi.yaml`, `providers`, `models`, `sessions` and `runs` at
this commit; the handlers behind other prefixes are modelled as they are written.
Also left out are commands run in a workspace, file modes and symbolic links there, a process
that keeps the pipes of a dead MCP server open, and the data race on the buffer
of its standard error. The HTTP edge, read-only views, code intelligence, Git, LSP and
web tools are stateless or pure I/O.

## 6. Plan

1. An abstract specification of a session (a log of turns and a map of todos) that
   `Sessions` implements for requests that do not overlap an import.
2. Page offsets of listings under concurrent inserts, and the JSON page of run events
   beside the stream.

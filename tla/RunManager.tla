----------------------------- MODULE RunManager -----------------------------
(***************************************************************************)
(* The background run manager of the gateway (gateway/run_manager.go):     *)
(* AsyncRunManager accepts runs, executes each in a goroutine behind a     *)
(* bounded pool of slots, cancels them, and shuts down.  Several gateway   *)
(* processes share one SQLite file (session/sqlite_store.go), of which     *)
(* this module keeps the status column of each run row.                    *)
(*                                                                         *)
(* A step is one critical section of the manager's mutex, one transaction  *)
(* of the store, or one operation on a channel or a context; every pair of *)
(* those can be interleaved with the steps of the other goroutines.        *)
(* Publishing on the event bus is merged with the step that follows it in  *)
(* the same goroutine, which shares no state with it.                      *)
(***************************************************************************)
EXTENDS Integers, Sequences, FiniteSets

CONSTANTS
  Gateways,       \* gateway processes that open the same database
  Runs,           \* run ids
  Starts,         \* client requests to start a run
  Cancels,        \* client requests to cancel a run
  Keyed,          \* run ids derived from (session, Idempotency-Key)
  MaxConcurrent,  \* -max-concurrent-runs; 0 leaves runSlots nil (no limit)
  RecoverLimit,   \* page size of the scan of RecoverStaleRuns (1000)
  StoreMayRefuse, \* may a store call made under a request's context fail?
  MaxExits        \* bound: process exits explored, orderly or not

ASSUME RunManagerAssumption ==
  /\ IsFiniteSet(Runs)
  /\ Keyed \subseteq Runs
  /\ MaxConcurrent \in Nat
  /\ RecoverLimit \in Nat \ {0}
  /\ StoreMayRefuse \in BOOLEAN
  /\ MaxExits \in Nat

VARIABLES
  gw,       \* phase of each gateway process
  runs,     \* m.runs: status of the managed run, Absent when not in the map
  ctxDone,  \* has the run's context been cancelled?
  slots,    \* number of tokens in the runSlots channel
  exec,     \* the execute goroutine of each managed run
  call,     \* the HTTP handler goroutine of each client request
  shut,     \* the loop of Shutdown over the runs it marked
  recov,    \* the loop of RecoverStaleRuns
  row,      \* durable status of each run, Absent when there is no row
  logged,   \* durable: the outcomes among the run_events of each run
  feed,     \* last status each gateway published on its event bus
  started,  \* history: how often the starter was invoked for a run id
  exits     \* bound: process exits so far

procVars == <<gw, shut, recov, exits>>
memVars  == <<runs, ctxDone, slots, exec>>
vars     == <<gw, runs, ctxDone, slots, exec, call, shut, recov, row, logged,
              feed, started, exits>>

-----------------------------------------------------------------------------
Calls == Starts \cup Cancels

Absent   == "absent"
Active   == {"queued", "running", "cancelling"}
Terminal == {"completed", "failed", "cancelled"}
Status   == Active \cup Terminal

\* Program counters.  "lost" is a request whose gateway process died.
ExecPC == {"none", "slot", "dropped", "entered", "persistRunning", "invoke",
           "starter", "persistEnd", "release", "done"}
CallPC == {"claim", "launch", "withdraw", "load", "disown", "persist",
           "signal", "done"}
Reply  == {"none", "accepted", "reused", "conflict", "error"} \cup Status

NoExec   == [pc |-> "none", slot |-> FALSE, snap |-> "queued"]
IdleCall == [pc |-> "idle"]
LostCall == [pc |-> "lost"]
NoShut   == [todo |-> {}, cur |-> {}]
NoRecov  == [scan |-> 1, todo |-> {}]

Alive(g) == gw[g] \in {"serving", "draining", "stopping"}

StatusMap  == [Gateways -> [Runs -> Status \cup {Absent}]]
ExecRecord == [pc: ExecPC, slot: BOOLEAN, snap: Status]
CallRecord == [pc: CallPC, g: Gateways, r: Runs, snap: Status,
               fire: BOOLEAN, reply: Reply]

\* Requests a handler of gateway g is still working on.
Working(c)   == call[c].pc \notin {"idle", "lost", "done"}
Handlers(g)  == {c \in Calls : Working(c) /\ call[c].g = g}

\* snap is the status the handler writes, fire whether it calls cancel().
NewCall(pc, g, r, snap, fire, reply) ==
  [pc |-> pc, g |-> g, r |-> r, snap |-> snap, fire |-> fire, reply |-> reply]

\* What Start answers when the run id exists already: sameIdempotentRun holds
\* exactly for the ids that are derived from an Idempotency-Key.
Duplicate(r) == IF r \in Keyed THEN "reused" ELSE "conflict"

Answer(c, reply) ==
  call' = [call EXCEPT ![c].pc = "done", ![c].reply = reply]

Step(c, pc) == call' = [call EXCEPT ![c].pc = pc]

ExecStep(g, r, pc) == exec' = [exec EXCEPT ![g][r].pc = pc]

-----------------------------------------------------------------------------
(* The runs table: one transaction each, of which this is the status column *)

\* Upsert of the row and insert of the matching run event, in one commit.  A
\* later save overwrites the row; the events stay.
SaveRunWithEvent(r, status) ==
  /\ row' = [row EXCEPT ![r] = status]
  /\ logged' = [logged EXCEPT ![r] = @ \cup ({status} \cap Terminal)]

\* Insert unless the id exists; the caller learns which of both happened.
ClaimRunWithEvent(r) == row[r] = Absent /\ SaveRunWithEvent(r, "queued")

(* Start                                                                    *)

\* findIdempotentRun of the HTTP handler: the row is already there.
StartReplay(c, g, r) ==
  /\ gw[g] = "serving" /\ call[c].pc = "idle"
  /\ r \in Keyed /\ row[r] # Absent
  /\ call' = [call EXCEPT ![c] = NewCall("done", g, r, "queued", FALSE, "reused")]
  /\ UNCHANGED <<procVars, memVars, row, logged, feed, started>>

\* Mutant of StartInsert: inserts without looking for the id in the map.
MutInsertBlindly(c, g, r) ==
  /\ gw[g] = "serving" /\ call[c].pc = "idle"
  /\ runs' = [runs EXCEPT ![g][r] = "queued"]
  /\ ctxDone' = [ctxDone EXCEPT ![g][r] = FALSE]
  /\ call' = [call EXCEPT ![c] = NewCall("claim", g, r, "queued", FALSE, "none")]
  /\ UNCHANGED <<procVars, slots, exec, row, logged, feed, started>>

\* The first critical section of Start: the id is in the map, or it is
\* inserted as queued before the durable claim is attempted.
StartInsert(c, g, r) ==
  /\ gw[g] = "serving" /\ call[c].pc = "idle"
  /\ \/ /\ runs[g][r] # Absent
        /\ call' = [call EXCEPT ![c] =
                      NewCall("done", g, r, "queued", FALSE, Duplicate(r))]
        /\ UNCHANGED <<runs, ctxDone>>
     \/ /\ runs[g][r] = Absent
        /\ runs' = [runs EXCEPT ![g][r] = "queued"]
        /\ ctxDone' = [ctxDone EXCEPT ![g][r] = FALSE]
        /\ call' = [call EXCEPT ![c] =
                      NewCall("claim", g, r, "queued", FALSE, "none")]
  /\ UNCHANGED <<procVars, slots, exec, row, logged, feed, started>>

\* Mutant of StartClaim: SaveRun's upsert instead of the insert-if-absent.
MutClaimUpserts(c) ==
  /\ call[c].pc = "claim"
  /\ SaveRunWithEvent(call[c].r, "queued")
  /\ Step(c, "launch")
  /\ UNCHANGED <<procVars, memVars, feed, started>>

\* Mutant of StartClaim: a failed claim is ignored and the run launched.
MutClaimErrorIgnored(c) ==
  /\ call[c].pc = "claim"
  /\ \/ ClaimRunWithEvent(call[c].r) /\ Step(c, "launch")
     \/ StoreMayRefuse /\ Step(c, "launch") /\ UNCHANGED <<row, logged>>
  /\ UNCHANGED <<procVars, memVars, feed, started>>

\* claimAcceptedRun: one transaction inserts the queued row unless it exists.
StartClaim(c) ==
  /\ call[c].pc = "claim"
  /\ LET r == call[c].r IN
     \/ /\ ClaimRunWithEvent(r)
        /\ Step(c, "launch")
     \/ /\ row[r] # Absent
        /\ call' = [call EXCEPT ![c].pc = "withdraw",
                                ![c].reply = Duplicate(r)]
        /\ UNCHANGED <<row, logged>>
     \/ /\ StoreMayRefuse
        /\ call' = [call EXCEPT ![c].pc = "withdraw", ![c].reply = "error"]
        /\ UNCHANGED <<row, logged>>
  /\ UNCHANGED <<procVars, memVars, feed, started>>

\* The claim failed or another process holds the row: forget the entry.
StartWithdraw(c) ==
  /\ call[c].pc = "withdraw"
  /\ runs' = [runs EXCEPT ![call[c].g][call[c].r] = Absent]
  /\ Answer(c, call[c].reply)
  /\ UNCHANGED <<procVars, ctxDone, slots, exec, row, logged, feed, started>>

\* The claim succeeded: publish queued and spawn the execute goroutine.
StartLaunch(c) ==
  /\ call[c].pc = "launch"
  /\ LET g == call[c].g
         r == call[c].r
     IN /\ feed' = [feed EXCEPT ![g][r] = "queued"]
        /\ exec' = [exec EXCEPT ![g][r] = [NoExec EXCEPT !.pc = "slot"]]
  /\ Answer(c, "accepted")
  /\ UNCHANGED <<procVars, runs, ctxDone, slots, row, logged, started>>

-----------------------------------------------------------------------------
(* Cancel                                                                   *)

\* Mutant of CancelMark: marks every tracked run, ended ones included.
MutCancelMarksAll(c, g, r) ==
  /\ gw[g] = "serving" /\ call[c].pc = "idle" /\ runs[g][r] # Absent
  /\ runs' = [runs EXCEPT ![g][r] = "cancelling"]
  /\ call' = [call EXCEPT ![c] = NewCall("persist", g, r, "cancelling", TRUE, "none")]
  /\ UNCHANGED <<procVars, ctxDone, slots, exec, row, logged, feed, started>>

\* The critical section of Cancel.  The status is copied out of the map here
\* and written to the store later, outside the lock.
CancelMark(c, g, r) ==
  /\ gw[g] = "serving" /\ call[c].pc = "idle"
  /\ \/ /\ runs[g][r] = Absent
        /\ call' = [call EXCEPT ![c] = NewCall("load", g, r, "cancelled", FALSE, "none")]
        /\ UNCHANGED runs
     \/ /\ runs[g][r] \in {"queued", "running"}
        /\ runs' = [runs EXCEPT ![g][r] = "cancelling"]
        /\ call' = [call EXCEPT ![c] =
                      NewCall("persist", g, r, "cancelling", TRUE, "none")]
     \/ /\ runs[g][r] \in Terminal \cup {"cancelling"}
        /\ call' = [call EXCEPT ![c] =
                      NewCall("persist", g, r, runs[g][r], FALSE, "none")]
        /\ UNCHANGED runs
  /\ UNCHANGED <<procVars, ctxDone, slots, exec, row, logged, feed, started>>

\* A run this process does not own: LoadRun, and decide on what it returned.
CancelLoad(c) ==
  /\ call[c].pc = "load"
  /\ LET loaded == row[call[c].r] IN
     \/ (loaded = Absent \/ StoreMayRefuse) /\ Answer(c, "error")
     \/ loaded \in Terminal /\ Answer(c, loaded)
     \/ loaded \in Active /\ Step(c, "disown")
  /\ UNCHANGED <<procVars, memVars, row, logged, feed, started>>

\* ... and the write of cancelled, a second transaction.
CancelDisown(c) ==
  /\ call[c].pc = "disown"
  /\ \/ /\ SaveRunWithEvent(call[c].r, "cancelled")
        /\ Answer(c, "cancelled")
     \/ /\ StoreMayRefuse
        /\ Answer(c, "error")
        /\ UNCHANGED <<row, logged>>
  /\ UNCHANGED <<procVars, memVars, feed, started>>

\* persist of the copied status; its error is ignored.
CancelPersist(c) ==
  /\ call[c].pc = "persist"
  /\ Step(c, "signal")
  /\ \/ SaveRunWithEvent(call[c].r, call[c].snap)
     \/ StoreMayRefuse /\ UNCHANGED <<row, logged>>
  /\ UNCHANGED <<procVars, memVars, feed, started>>

\* publish, and cancel() if this request made the run cancelling.
CancelSignal(c) ==
  /\ call[c].pc = "signal"
  /\ LET g == call[c].g
         r == call[c].r
     IN /\ feed' = [feed EXCEPT ![g][r] = call[c].snap]
        /\ ctxDone' = [ctxDone EXCEPT ![g][r] = @ \/ call[c].fire]
  /\ Answer(c, call[c].snap)
  /\ UNCHANGED <<procVars, runs, slots, exec, row, logged, started>>

-----------------------------------------------------------------------------
(* execute                                                                  *)

\* Mutant of AbandonSlot: no ctx.Done() case in the select.
MutNeverAbandon(g, r) == FALSE

\* The two ready cases of the select in acquireRunSlot.  A nil runSlots
\* returns at once and looks at no context.
AcquireSlot(g, r) ==
  /\ Alive(g) /\ exec[g][r].pc = "slot"
  /\ \/ /\ MaxConcurrent = 0
        /\ ExecStep(g, r, "entered")
        /\ UNCHANGED slots
     \/ /\ MaxConcurrent # 0 /\ slots[g] < MaxConcurrent
        /\ slots' = [slots EXCEPT ![g] = @ + 1]
        /\ exec' = [exec EXCEPT ![g][r].pc = "entered", ![g][r].slot = TRUE]
  /\ UNCHANGED <<procVars, runs, ctxDone, call, row, logged, feed, started>>

AbandonSlot(g, r) ==
  /\ Alive(g) /\ exec[g][r].pc = "slot"
  /\ MaxConcurrent # 0 /\ ctxDone[g][r]
  /\ ExecStep(g, r, "dropped")
  /\ UNCHANGED <<procVars, runs, ctxDone, slots, call, row, logged, feed, started>>

\* A critical section of update: set the status and take the snapshot that
\* the following persist writes.
Update(g, r, status, pc) ==
  /\ runs' = [runs EXCEPT ![g][r] = status]
  /\ exec' = [exec EXCEPT ![g][r].pc = pc, ![g][r].snap = status]
  /\ UNCHANGED <<procVars, ctxDone, slots, call, row, logged, feed, started>>

UpdateDropped(g, r) ==
  /\ Alive(g) /\ exec[g][r].pc = "dropped"
  /\ Update(g, r, "cancelled", "persistEnd")

\* The status becomes running whatever it was, cancelling included.
UpdateRunning(g, r) ==
  /\ Alive(g) /\ exec[g][r].pc = "entered"
  /\ Update(g, r, "running", "persistRunning")

PersistSnapshot(g, r, from, to) ==
  /\ Alive(g) /\ exec[g][r].pc = from
  /\ SaveRunWithEvent(r, exec[g][r].snap)
  /\ ExecStep(g, r, to)
  /\ UNCHANGED <<procVars, runs, ctxDone, slots, call, feed, started>>

PersistRunning(g, r) == PersistSnapshot(g, r, "persistRunning", "invoke")

\* publish running, then call the starter.
InvokeStarter(g, r) ==
  /\ Alive(g) /\ exec[g][r].pc = "invoke"
  /\ feed' = [feed EXCEPT ![g][r] = "running"]
  /\ started' = [started EXCEPT ![r] = @ + 1]
  /\ ExecStep(g, r, "starter")
  /\ UNCHANGED <<procVars, runs, ctxDone, slots, call, row, logged>>

\* Mutant of Outcomes: the status of the starter's result is kept although
\* the context is done.
MutResultWins(g, r) == Terminal

\* Mutant of Finish: the snapshot is taken before the context is looked at.
MutEarlySnapshot(g, r) ==
  /\ Alive(g) /\ exec[g][r].pc = "starter"
  /\ \E status \in Terminal :
       /\ runs' = [runs EXCEPT ![g][r] = IF ctxDone[g][r] THEN "cancelled" ELSE status]
       /\ exec' = [exec EXCEPT ![g][r].pc = "persistEnd", ![g][r].snap = status]
  /\ UNCHANGED <<procVars, ctxDone, slots, call, row, logged, feed, started>>

\* Mutant of Finish: update publishes before it persists.
MutPublishFirst(g, r) ==
  /\ Alive(g) /\ exec[g][r].pc = "starter"
  /\ \E status \in (IF ctxDone[g][r] THEN {"cancelled"} ELSE Terminal) :
       /\ runs' = [runs EXCEPT ![g][r] = status]
       /\ feed' = [feed EXCEPT ![g][r] = status]
       /\ exec' = [exec EXCEPT ![g][r].pc = "persistEnd", ![g][r].snap = status]
  /\ UNCHANGED <<procVars, ctxDone, slots, call, row, logged, started>>

\* A done context always wins; otherwise the starter's result decides.  It is
\* cancelled on the run timeout or when the error is a context error.
Outcomes(g, r) == IF ctxDone[g][r] THEN {"cancelled"} ELSE Terminal

Finish(g, r) ==
  /\ Alive(g) /\ exec[g][r].pc = "starter"
  /\ \E status \in Outcomes(g, r) : Update(g, r, status, "persistEnd")

PersistEnd(g, r) == PersistSnapshot(g, r, "persistEnd", "release")

\* Mutant of Release: the deferred release is not run.
MutReleaseLeaks(g, r) ==
  /\ Alive(g) /\ exec[g][r].pc = "release"
  /\ feed' = [feed EXCEPT ![g][r] = exec[g][r].snap]
  /\ exec' = [exec EXCEPT ![g][r].pc = "done", ![g][r].slot = FALSE]
  /\ UNCHANGED <<procVars, runs, ctxDone, slots, call, row, logged, started>>

\* Mutant of Release: the slot is released although none was acquired.
MutReleaseAlways(g, r) ==
  /\ Alive(g) /\ exec[g][r].pc = "release"
  /\ feed' = [feed EXCEPT ![g][r] = exec[g][r].snap]
  /\ slots' = [slots EXCEPT ![g] = @ - 1]
  /\ exec' = [exec EXCEPT ![g][r].pc = "done", ![g][r].slot = FALSE]
  /\ UNCHANGED <<procVars, runs, ctxDone, call, row, logged, started>>

\* publish the outcome, then the deferred release of the slot and wg.Done.
Release(g, r) ==
  /\ Alive(g) /\ exec[g][r].pc = "release"
  /\ feed' = [feed EXCEPT ![g][r] = exec[g][r].snap]
  /\ slots' = [slots EXCEPT ![g] = IF exec[g][r].slot THEN @ - 1 ELSE @]
  /\ exec' = [exec EXCEPT ![g][r].pc = "done", ![g][r].slot = FALSE]
  /\ UNCHANGED <<procVars, runs, ctxDone, call, row, logged, started>>

-----------------------------------------------------------------------------
(* Shutdown: serveHTTP first waits for the handlers, then runs the hook.     *)

Interrupt(g) ==
  /\ gw[g] = "serving" /\ exits < MaxExits
  /\ exits' = exits + 1
  /\ gw' = [gw EXCEPT ![g] = "draining"]
  /\ UNCHANGED <<memVars, call, shut, recov, row, logged, feed, started>>

\* Mutant of ShutdownMark: only the running runs are cancelled.
MutShutdownRunningOnly(g) ==
  LET owned == {r \in Runs : runs[g][r] = "running"} IN
  /\ gw[g] = "draining" /\ Handlers(g) = {}
  /\ gw' = [gw EXCEPT ![g] = "stopping"]
  /\ runs' = [runs EXCEPT ![g] =
                [r \in Runs |-> IF r \in owned THEN "cancelling" ELSE @[r]]]
  /\ shut' = [shut EXCEPT ![g].todo = owned]
  /\ UNCHANGED <<ctxDone, slots, exec, call, recov, row, logged, feed, started, exits>>

\* The critical section of Shutdown marks every active run it owns.
ShutdownMark(g) ==
  LET owned == {r \in Runs : runs[g][r] \in Active} IN
  /\ gw[g] = "draining" /\ Handlers(g) = {}
  /\ gw' = [gw EXCEPT ![g] = "stopping"]
  /\ runs' = [runs EXCEPT ![g] =
                [r \in Runs |-> IF r \in owned THEN "cancelling" ELSE @[r]]]
  /\ shut' = [shut EXCEPT ![g].todo = owned]
  /\ UNCHANGED <<ctxDone, slots, exec, call, recov, row, logged, feed, started, exits>>

\* For each marked run, in any order: persist the snapshot ...
ShutdownPersist(g, r) ==
  /\ gw[g] = "stopping" /\ shut[g].cur = {} /\ r \in shut[g].todo
  /\ SaveRunWithEvent(r, "cancelling")
  /\ shut' = [shut EXCEPT ![g] = [todo |-> @.todo \ {r}, cur |-> {r}]]
  /\ UNCHANGED <<gw, memVars, call, recov, feed, started, exits>>

\* ... publish it and cancel the context.
ShutdownSignal(g, r) ==
  /\ gw[g] = "stopping" /\ shut[g].cur = {r}
  /\ feed' = [feed EXCEPT ![g][r] = "cancelling"]
  /\ ctxDone' = [ctxDone EXCEPT ![g][r] = TRUE]
  /\ shut' = [shut EXCEPT ![g].cur = {}]
  /\ UNCHANGED <<gw, runs, slots, exec, call, recov, row, logged, started, exits>>

\* wg.Wait returns: every execute goroutine has ended.
ShutdownReturn(g) ==
  /\ gw[g] = "stopping" /\ shut[g] = NoShut
  /\ \A r \in Runs : exec[g][r].pc \in {"none", "done"}
  /\ gw' = [gw EXCEPT ![g] = "stopped"]
  /\ UNCHANGED <<memVars, call, shut, recov, row, logged, feed, started, exits>>

-----------------------------------------------------------------------------
(* Process exit and restart                                                 *)

ForgetProcess(g) ==
  /\ runs'    = [runs    EXCEPT ![g] = [r \in Runs |-> Absent]]
  /\ ctxDone' = [ctxDone EXCEPT ![g] = [r \in Runs |-> FALSE]]
  /\ slots'   = [slots   EXCEPT ![g] = 0]
  /\ exec'    = [exec    EXCEPT ![g] = [r \in Runs |-> NoExec]]
  /\ feed'    = [feed    EXCEPT ![g] = [r \in Runs |-> Absent]]
  /\ shut'    = [shut    EXCEPT ![g] = NoShut]
  /\ recov'   = [recov   EXCEPT ![g] = NoRecov]

\* A kill, or an exit because the shutdown timeout expired.
Crash(g) ==
  /\ Alive(g) \/ gw[g] = "recovering"
  /\ exits < MaxExits
  /\ exits' = exits + 1
  /\ gw' = [gw EXCEPT ![g] = "down"]
  /\ call' = [c \in Calls |-> IF c \in Handlers(g) THEN LostCall ELSE call[c]]
  /\ ForgetProcess(g)
  /\ UNCHANGED <<row, logged, started>>

Restart(g) ==
  /\ gw[g] \in {"down", "stopped"}
  /\ gw' = [gw EXCEPT ![g] = "recovering"]
  /\ ForgetProcess(g)
  /\ UNCHANGED <<call, row, logged, started, exits>>

\* Mutant of ScanOrder: cancelling rows are not looked for.
MutScanSkipsCancelling == <<"queued", "running">>

\* RecoverStaleRuns lists one status after the other, page by page, until a
\* page is empty, and only then does the process start to serve.
ScanOrder == <<"queued", "running", "cancelling">>

Pages(S) == {T \in SUBSET S :
               Cardinality(T) = IF Cardinality(S) < RecoverLimit
                                THEN Cardinality(S) ELSE RecoverLimit}

RecoverList(g) ==
  /\ gw[g] = "recovering" /\ recov[g].todo = {}
  /\ LET stale == {r \in Runs : row[r] = ScanOrder[recov[g].scan]} IN
     \/ /\ stale # {}
        /\ \E page \in Pages(stale) :
             recov' = [recov EXCEPT ![g].todo = page]
        /\ UNCHANGED gw
     \/ /\ stale = {} /\ recov[g].scan < Len(ScanOrder)
        /\ recov' = [recov EXCEPT ![g].scan = @ + 1]
        /\ UNCHANGED gw
     \/ /\ stale = {} /\ recov[g].scan = Len(ScanOrder)
        /\ recov' = [recov EXCEPT ![g] = NoRecov]
        /\ gw' = [gw EXCEPT ![g] = "serving"]
  /\ UNCHANGED <<memVars, call, shut, row, logged, feed, started, exits>>

\* The listed run is written as failed, whatever its row says by now.
RecoverSave(g, r) ==
  /\ gw[g] = "recovering" /\ r \in recov[g].todo
  /\ SaveRunWithEvent(r, "failed")
  /\ feed' = [feed EXCEPT ![g][r] = "failed"]
  /\ recov' = [recov EXCEPT ![g].todo = @ \ {r}]
  /\ UNCHANGED <<gw, memVars, call, shut, started, exits>>
-----------------------------------------------------------------------------
Init ==
  /\ gw      = [g \in Gateways |-> "serving"]
  /\ runs    = [g \in Gateways |-> [r \in Runs |-> Absent]]
  /\ ctxDone = [g \in Gateways |-> [r \in Runs |-> FALSE]]
  /\ slots   = [g \in Gateways |-> 0]
  /\ exec    = [g \in Gateways |-> [r \in Runs |-> NoExec]]
  /\ call    = [c \in Calls |-> IdleCall]
  /\ shut    = [g \in Gateways |-> NoShut]
  /\ recov   = [g \in Gateways |-> NoRecov]
  /\ row     = [r \in Runs |-> Absent]
  /\ logged  = [r \in Runs |-> {}]
  /\ feed    = [g \in Gateways |-> [r \in Runs |-> Absent]]
  /\ started = [r \in Runs |-> 0]
  /\ exits = 0

Request(g, r) ==
  \/ \E c \in Starts : StartReplay(c, g, r) \/ StartInsert(c, g, r)
  \/ \E c \in Cancels : CancelMark(c, g, r)

Handle(c) ==
  \/ StartClaim(c)    \/ StartWithdraw(c) \/ StartLaunch(c)
  \/ CancelLoad(c)    \/ CancelDisown(c)
  \/ CancelPersist(c) \/ CancelSignal(c)

\* The steps of an execute goroutine, the return of the starter apart.
Execute(g, r) ==
  \/ AcquireSlot(g, r)    \/ AbandonSlot(g, r)   \/ UpdateDropped(g, r)
  \/ UpdateRunning(g, r)  \/ PersistRunning(g, r) \/ InvokeStarter(g, r)
  \/ PersistEnd(g, r)     \/ Release(g, r)

Shutdown(g) ==
  \/ ShutdownMark(g) \/ ShutdownReturn(g)
  \/ \E r \in Runs : ShutdownPersist(g, r) \/ ShutdownSignal(g, r)

Recover(g) == RecoverList(g) \/ \E r \in Runs : RecoverSave(g, r)

Next ==
  \/ \E g \in Gateways, r \in Runs :
       Request(g, r) \/ Execute(g, r) \/ Finish(g, r)
  \/ \E c \in Calls : Handle(c)
  \/ \E g \in Gateways :
       Interrupt(g) \/ Shutdown(g) \/ Crash(g) \/ Restart(g) \/ Recover(g)

Spec == Init /\ [][Next]_vars

(***************************************************************************)
(* Goroutines that can take a step eventually do: the Go scheduler runs    *)
(* them and every store transaction ends.  A starter gives up once its     *)
(* context is done (providers, tools and the store take that context).     *)
(* Nothing says that requests arrive, that a process exits or restarts, or *)
(* that a starter whose context is alive ever returns.                     *)
(***************************************************************************)
Fairness ==
  /\ \A c \in Calls : WF_vars(Handle(c))
  /\ \A g \in Gateways, r \in Runs :
       /\ WF_vars(Execute(g, r))
       /\ WF_vars(ctxDone[g][r] /\ Finish(g, r))
  /\ \A g \in Gateways : WF_vars(Shutdown(g)) /\ WF_vars(Recover(g))

FairSpec == Spec /\ Fairness

\* Every starter returns by itself sooner or later, as with -run-timeout.
StartersReturn == \A g \in Gateways, r \in Runs : WF_vars(Finish(g, r))

-----------------------------------------------------------------------------
(* Properties                                                               *)

TypeOK ==
  /\ gw \in [Gateways -> {"serving", "draining", "stopping", "stopped",
                          "down", "recovering"}]
  /\ runs \in StatusMap
  /\ ctxDone \in [Gateways -> [Runs -> BOOLEAN]]
  /\ slots \in [Gateways -> Nat]
  /\ exec \in [Gateways -> [Runs -> ExecRecord]]
  /\ call \in [Calls -> CallRecord \cup {IdleCall, LostCall}]
  /\ shut \in [Gateways -> [todo: SUBSET Runs, cur: SUBSET Runs]]
  /\ recov \in [Gateways -> [scan: 1..Len(ScanOrder), todo: SUBSET Runs]]
  /\ row \in [Runs -> Status \cup {Absent}]
  /\ logged \in [Runs -> SUBSET Terminal]
  /\ feed \in StatusMap
  /\ started \in [Runs -> Nat]
  /\ exits \in Nat

\* A run id is executed at most once, by whichever gateway process claimed
\* its row, across duplicate requests, cancels, exits and restarts.
AtMostOnceExecution == \A r \in Runs : started[r] <= 1

\* The slot channel holds one token per goroutine that acquired one and has
\* not released it, so no path of execute leaks or double-frees a slot.
Holders(g) == {r \in Runs : exec[g][r].slot}
SlotAccounting == \A g \in Gateways : slots[g] = Cardinality(Holders(g))

\* -max-concurrent-runs bounds the runs a process reports as running.
RunningRuns(g) == {r \in Runs : runs[g][r] = "running"}
ConcurrencyBound ==
  MaxConcurrent # 0 =>
    \A g \in Gateways : Cardinality(RunningRuns(g)) <= MaxConcurrent

\* While a run has an execute goroutine its entry stays in m.runs, so the
\* early return of update never swallows a status; and the entry an
\* unsuccessful Start deletes is the one it inserted, with no goroutine.
Opening(c) == call[c].pc \in {"claim", "withdraw", "launch"}
ExecutingRunIsTracked ==
  /\ \A g \in Gateways, r \in Runs :
       Alive(g) /\ exec[g][r].pc # "none" => runs[g][r] # Absent
  /\ \A c \in Calls :
       Opening(c) => /\ exec[call[c].g][call[c].r].pc = "none"
                     /\ runs[call[c].g][call[c].r] \in Active

\* In a living process a terminal status is never overwritten: not by a
\* late Cancel, not by Shutdown, not by a second Start of the same id.
TerminalIsFinal ==
  [][\A g \in Gateways, r \in Runs :
       runs[g][r] \in Terminal /\ runs'[g][r] # runs[g][r]
         => gw'[g] \in {"down", "recovering"}]_<<runs, gw>>

\* With a store that accepts every write: a client whose request cancelled
\* the context of a run, and was answered before the run ended, never sees
\* it end otherwise than cancelled, whatever the starter returns.
CancelWins ==
  [][\A c \in Calls, g \in Gateways, r \in Runs :
       (/\ call[c].pc = "done" /\ call[c].g = g /\ call[c].r = r
        /\ call[c].fire /\ exec[g][r].pc # "none"
        /\ runs[g][r] \notin Terminal /\ runs'[g][r] \in Terminal)
         => runs'[g][r] = "cancelled"]_<<runs, call>>

\* With one gateway: a run this process executes has completed or failed in
\* the database only if it did so in memory; no other writer invents that.
DurableOutcomeIsReal ==
  \A g \in Gateways, r \in Runs :
    exec[g][r].pc # "none" /\ row[r] \in {"completed", "failed"}
      => row[r] = runs[g][r]

\* With one gateway whose store accepts every write: what a live subscriber
\* is told of an outcome was written before, so the event is there when the
\* run is replayed, and while the run has a goroutine its row is not back in
\* queued or running.  The row may say cancelling: a request that marked the
\* run earlier can write that after the outcome (ShutdownSavesOutcomes).
AnnouncedOutcomeIsDurable ==
  \A g \in Gateways, r \in Runs :
    feed[g][r] \in Terminal =>
      /\ feed[g][r] \in logged[r]
      /\ exec[g][r].pc # "none" => row[r] \notin {"queued", "running"}

\* With one gateway: when the process starts to serve, no row it inherited
\* is left in an active status.
RecoveryLeavesNoOrphan ==
  [][\A g \in Gateways :
       gw[g] = "recovering" /\ gw'[g] = "serving"
         => \A r \in Runs : row'[r] \notin Active]_<<gw, row>>

\* With a store that accepts every write: a client that was answered
\* cancelling sees the run end, once it is launched, even when every slot is
\* taken by a run that never returns, unless the process exits.  A Cancel that
\* comes between the insert of an id and its claim may write the row first;
\* then the claim fails, no run is launched, and the row stays cancelling
\* until recovery: that case is outside this property.
CancelIsAnswered ==
  \A c \in Cancels, g \in Gateways, r \in Runs :
    (/\ call[c].pc = "done" /\ call[c].g = g /\ call[c].r = r
     /\ call[c].reply = "cancelling" /\ exec[g][r].pc # "none")
      ~> (runs[g][r] \in Terminal \/ ~Alive(g))

\* If starters return, every accepted run ends: slots come back.
AcceptedRunEnds == StartersReturn =>
  \A c \in Starts, g \in Gateways, r \in Runs :
    (/\ call[c].pc = "done" /\ call[c].g = g /\ call[c].r = r
     /\ call[c].reply = "accepted" /\ exec[g][r].pc # "none")
      ~> (runs[g][r] \in Terminal \/ ~Alive(g))

\* A shutdown ends: the handlers drain, and every context that wg.Wait
\* depends on is cancelled, whichever request had marked the run before.
ShutdownEnds ==
  \A g \in Gateways : gw[g] = "draining" ~> gw[g] \notin {"draining", "stopping"}

\* Documented at Shutdown: it waits until the final status of the runs it
\* owns is stored.
ShutdownSavesOutcomes ==
  \A g \in Gateways, r \in Runs :
    gw[g] = "stopped" /\ exec[g][r].pc = "done" => row[r] \in Terminal

\* Documented at RecoverStaleRuns: it closes the runs whose owner is gone.
RecoverySparesOwnedRuns ==
  [][\A r \in Runs :
       (\E g \in Gateways : gw[g] = "recovering" /\ r \in recov[g].todo
                             /\ row'[r] = "failed" /\ row[r] # "failed")
         => \A h \in Gateways : exec[h][r].pc \in {"none", "done"}]_<<row, recov>>

-----------------------------------------------------------------------------
(* What holds besides, and makes the invariants above inductive.            *)

\* A goroutine holds a token only between acquireRunSlot and its end, and
\* with a limit every goroutine that calls the starter holds one.
InSlot   == {"entered", "persistRunning", "invoke", "starter"}
SlotsHeld ==
  \A g \in Gateways, r \in Runs :
    /\ exec[g][r].slot => exec[g][r].pc \in InSlot \cup {"persistEnd", "release"}
    /\ exec[g][r].pc \in InSlot /\ MaxConcurrent # 0 => exec[g][r].slot

SlotsBounded == MaxConcurrent # 0 => \A g \in Gateways : slots[g] <= MaxConcurrent

\* Handlers run only while their process serves or drains.
HandlersAreServed ==
  \A c \in Calls : Working(c) => gw[call[c].g] \in {"serving", "draining"}

\* A process comes up with nothing in memory.
FreshProcess ==
  \A g \in Gateways, r \in Runs :
    gw[g] = "recovering" => runs[g][r] = Absent /\ exec[g][r].pc = "none"

\* Two handlers never hold the same entry open.
OneOpener ==
  \A c, d \in Calls :
    Opening(c) /\ Opening(d) /\ call[c].g = call[d].g /\ call[c].r = call[d].r
      => c = d

\* What the status in m.runs says about the goroutine.
StatusMatchesExec ==
  \A g \in Gateways, r \in Runs :
    /\ runs[g][r] \in Terminal => exec[g][r].pc \in {"persistEnd", "release", "done"}
    /\ runs[g][r] = "running" => exec[g][r].pc \in {"persistRunning", "invoke", "starter"}

\* The right to execute a run is a token: it is the absent row, the handler
\* that claimed the row, or a goroutine that has not called the starter yet.
BeforeStart == {"slot", "entered", "persistRunning", "invoke"}
Claimant(c, r) == call[c].pc = "launch" /\ call[c].r = r
ClaimIsExclusive ==
  \A r \in Runs :
    /\ row[r] = Absent =>
         /\ started[r] = 0
         /\ \A c \in Calls : ~Claimant(c, r)
         /\ \A g \in Gateways : exec[g][r].pc = "none"
    /\ \A c \in Calls : Claimant(c, r) =>
         /\ started[r] = 0
         /\ \A d \in Calls : Claimant(d, r) => d = c
         /\ \A g \in Gateways : exec[g][r].pc = "none"
    /\ \A g \in Gateways : exec[g][r].pc \in BeforeStart =>
         /\ started[r] = 0
         /\ \A h \in Gateways : exec[h][r].pc \in BeforeStart => h = g

IInv ==
  /\ TypeOK
  /\ SlotAccounting
  /\ SlotsHeld
  /\ SlotsBounded
  /\ HandlersAreServed
  /\ FreshProcess
  /\ ExecutingRunIsTracked
  /\ OneOpener
  /\ StatusMatchesExec
  /\ ClaimIsExclusive
  /\ AtMostOnceExecution

\* What a goroutine or a handler has copied out of m.runs, and writes later,
\* is still what m.runs says when it is an outcome.
EndPC == {"persistEnd", "release", "done"}
SnapshotsAreCurrent ==
  /\ \A g \in Gateways, r \in Runs :
       /\ exec[g][r].pc \in EndPC =>
            runs[g][r] \in Terminal /\ exec[g][r].snap = runs[g][r]
       /\ exec[g][r].pc = "persistRunning" => exec[g][r].snap = "running"
  /\ \A c \in Calls : call[c].pc \in {"persist", "signal"} =>
       \/ call[c].snap = "cancelling"
       \/ call[c].snap \in Terminal /\ call[c].snap = runs[call[c].g][call[c].r]

\* With one gateway: nobody writes a result between a claim and its launch.
ClaimedRowIsOpen ==
  \A c \in Calls : call[c].pc = "launch" => row[call[c].r] \notin {"completed", "failed"}

OutcomeInv == SnapshotsAreCurrent /\ ClaimedRowIsOpen /\ DurableOutcomeIsReal

\* With a store that accepts every write: whoever is about to publish an
\* outcome has written it; with one gateway its row has been closed, and the
\* run has ended in m.runs.
LoggedInv ==
  /\ \A g \in Gateways, r \in Runs :
       /\ exec[g][r].pc = "release" => exec[g][r].snap \in logged[r]
       /\ feed[g][r] \in Terminal => feed[g][r] \in logged[r]
  /\ \A c \in Calls :
       call[c].pc = "signal" /\ call[c].snap \in Terminal =>
         call[c].snap \in logged[call[c].r]

AnnouncedInv ==
  /\ LoggedInv
  /\ \A g \in Gateways, r \in Runs :
       /\ exec[g][r].pc # "none" /\ feed[g][r] \in Terminal =>
            runs[g][r] \in Terminal /\ row[r] \notin {"queued", "running"}
       /\ exec[g][r].pc = "release" => row[r] \notin {"queued", "running"}
  /\ \A c \in Calls :
       call[c].pc = "signal" /\ call[c].snap \in Terminal =>
         row[call[c].r] \notin {"queued", "running"}

(***************************************************************************)
(* The manager implements RunPool: a row is a claim, and a run is executed *)
(* between the call of the starter and its return.                         *)
(***************************************************************************)
Pool == INSTANCE RunPool WITH
  Workers <- Gateways, Jobs <- Runs, Limit <- MaxConcurrent,
  claimed <- {r \in Runs : row[r] # Absent},
  begun   <- {r \in Runs : started[r] # 0},
  busy    <- [g \in Gateways |-> {r \in Runs : exec[g][r].pc = "starter"}]

\* Every step of the manager is a step of RunPool or leaves it unchanged: a
\* claim, an execution of a claimed and never executed id, its end.
ImplementsRunPool == Pool!PoolSpec
=============================================================================

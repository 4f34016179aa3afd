-------------------------- MODULE RunOutcomeProofs --------------------------
(***************************************************************************)
(* What the database and the subscribers are told of the outcome of a run, *)
(* for every set of runs and requests of one gateway.  RunManagerProofs    *)
(* says what a step does to memory; the predicates below add what it       *)
(* writes to the rows and to the feed, and which snapshot it takes.  The   *)
(* two invariants, OutcomeInv and AnnouncedInv, are preserved by every     *)
(* step that has these effects, on top of IInv.  Two action properties     *)
(* follow in the same way: what recovery has closed when it ends, from     *)
(* RecoverInv, and that a cancel decides the outcome, from CancelInv.      *)
(***************************************************************************)
EXTENDS RunManagerProofs

OneGateway == \A g, h \in Gateways : g = h

\* One row gets a new status, and its events the outcome if it is one; one
\* entry of the feed gets a new status.  The others stay.
Wrote(r, status) ==
  /\ row'[r] = status /\ \A q \in Runs : q # r => row'[q] = row[q]
  /\ logged'[r] = logged[r] \cup ({status} \cap Terminal)
  /\ \A q \in Runs : q # r => logged'[q] = logged[q]
Told(g, r, status) ==
  /\ feed'[g][r] = status
  /\ \A h \in Gateways, q \in Runs : (h # g \/ q # r) => feed'[h][q] = feed[h][q]

RequestWrites(c, g, r) ==
  /\ UNCHANGED <<row, logged, feed>>
  /\ call'[c].pc = "persist" =>
       \/ call'[c].snap = "cancelling"
       \/ call'[c].snap \in Terminal /\ call'[c].snap = runs'[g][r]

HandleWrites(c, g, r) ==
  /\ call'[c].snap = call[c].snap
  /\ \/ /\ call[c].pc = "claim" /\ call'[c].pc = "launch"
        /\ Wrote(r, "queued") /\ UNCHANGED feed
     \/ /\ call[c].pc # "launch" /\ call'[c].pc \in {"withdraw", "done", "disown"}
        /\ UNCHANGED <<row, logged, feed>>
     \/ /\ call[c].pc = "launch" /\ call'[c].pc = "done"
        /\ Told(g, r, "queued") /\ UNCHANGED <<row, logged>>
     \/ /\ call[c].pc = "disown" /\ call'[c].pc = "done"
        /\ Wrote(r, "cancelled") /\ UNCHANGED feed
     \/ /\ call[c].pc = "persist" /\ call'[c].pc = "signal"
        /\ Wrote(r, call[c].snap) \/ (StoreMayRefuse /\ UNCHANGED <<row, logged>>)
        /\ UNCHANGED feed
     \/ /\ call[c].pc = "signal" /\ call'[c].pc = "done"
        /\ Told(g, r, call[c].snap) /\ UNCHANGED <<row, logged, runs, exec>>

ExecuteWrites(g, r) ==
  \/ /\ exec'[g][r].pc \in {"entered", "dropped"}
     /\ UNCHANGED <<row, logged, feed>>
  \/ /\ exec'[g][r].pc \in {"persistRunning", "persistEnd"}
     /\ exec'[g][r].snap = runs'[g][r] /\ UNCHANGED <<row, logged, feed>>
  \/ /\ exec[g][r].pc \in {"persistRunning", "persistEnd"}
     /\ Wrote(r, exec[g][r].snap) /\ exec'[g][r].snap = exec[g][r].snap
     /\ UNCHANGED feed
  \/ /\ exec[g][r].pc = "invoke"
     /\ Told(g, r, "running") /\ UNCHANGED <<row, logged>>
  \/ /\ exec[g][r].pc = "release"
     /\ Told(g, r, exec[g][r].snap) /\ exec'[g][r].snap = exec[g][r].snap
     /\ UNCHANGED <<row, logged>>

ProcessWrites(g) ==
  \/ UNCHANGED <<row, logged, feed, exec, call>>
  \/ /\ UNCHANGED <<runs, exec, call>>
     /\ \E r \in Runs :
          \/ Wrote(r, "cancelling") /\ UNCHANGED feed
          \/ Told(g, r, "cancelling") /\ UNCHANGED <<row, logged>>
          \/ gw[g] = "recovering" /\ Wrote(r, "failed") /\ Told(g, r, "failed")
  \/ /\ \A q \in Runs : exec'[g][q].pc = "none" /\ feed'[g][q] = Absent
     /\ \A h \in Gateways : h # g => feed'[h] = feed[h]
     /\ UNCHANGED <<row, logged>>

-----------------------------------------------------------------------------
(* Every step writes what these predicates say                              *)

\* A write of the store, and of the feed, seen point by point.
LEMMA WritesOne ==
  ASSUME TypeOK, NEW r \in Runs, NEW status
  PROVE  /\ SaveRunWithEvent(r, status) => Wrote(r, status)
         /\ \A g \in Gateways :
              feed' = [feed EXCEPT ![g][r] = status] => Told(g, r, status)
BY DEF TypeOK, StatusMap, SaveRunWithEvent, Wrote, Told

\* The first step of a request copies at most a status of m.runs.
LEMMA RequestHasWrites ==
  ASSUME TypeOK, NEW c \in Calls, NEW g \in Gateways, NEW r \in Runs,
         StartReplay(c, g, r) \/ StartInsert(c, g, r) \/ CancelMark(c, g, r)
  PROVE  RequestWrites(c, g, r)
<1>1. call \in [Calls -> CallType]
  BY DEF TypeOK, CallType
<1>2. ASSUME NEW pc, NEW snap, NEW fire, NEW reply,
             call' = [call EXCEPT ![c] = NewCall(pc, g, r, snap, fire, reply)]
      PROVE  call'[c].pc = pc /\ call'[c].snap = snap
  BY <1>1, <1>2 DEF NewCall
<1>3. CASE StartReplay(c, g, r)
  BY <1>2, <1>3 DEF StartReplay, RequestWrites
<1>4. CASE StartInsert(c, g, r)
  <2>1. \/ call' = [call EXCEPT ![c] = NewCall("done", g, r, "queued", FALSE, Duplicate(r))]
        \/ call' = [call EXCEPT ![c] = NewCall("claim", g, r, "queued", FALSE, "none")]
    BY <1>4 DEF StartInsert
  <2>2. call'[c].pc \in {"done", "claim"}
    BY <1>1, <2>1 DEF NewCall
  <2> QED BY <1>4, <2>2 DEF StartInsert, RequestWrites
<1>5. CASE CancelMark(c, g, r)
  <2>1. \/ call' = [call EXCEPT ![c] = NewCall("load", g, r, "cancelled", FALSE, "none")]
        \/ call' = [call EXCEPT ![c] = NewCall("persist", g, r, "cancelling", TRUE, "none")]
        \/ /\ call' = [call EXCEPT ![c] = NewCall("persist", g, r, runs[g][r], FALSE, "none")]
           /\ runs' = runs /\ runs[g][r] \in Terminal \cup {"cancelling"}
    BY <1>5 DEF CancelMark
  <2>2. \/ call'[c].pc = "load"
        \/ call'[c].snap = "cancelling"
        \/ /\ call'[c].snap = runs[g][r]
           /\ runs' = runs /\ runs[g][r] \in Terminal \cup {"cancelling"}
    BY <1>1, <2>1 DEF NewCall
  <2> QED BY <1>5, <2>2 DEF CancelMark, RequestWrites
<1> QED BY <1>3, <1>4, <1>5

\* The later steps write the snapshot of the request, or a fixed status.
LEMMA HandleHasWrites ==
  ASSUME TypeOK, NEW c \in Calls, Handle(c)
  PROVE  HandleWrites(c, call[c].g, call[c].r)
<1> DEFINE g == call[c].g
           r == call[c].r
<1>0. call[c].pc \in CallPC
  BY DEF Handle, CallPC, StartClaim, StartWithdraw, StartLaunch,
         CancelLoad, CancelDisown, CancelPersist, CancelSignal
<1>1. call[c] \in CallRecord /\ g \in Gateways /\ r \in Runs
  BY <1>0, HandlerRecord
<1>2. call \in [Calls -> CallType]
  BY DEF TypeOK, CallType
<1>3. ASSUME NEW pc, Step(c, pc)
      PROVE  call'[c].snap = call[c].snap /\ call'[c].pc = pc
  <2>1. call'[c] = [call[c] EXCEPT !.pc = pc]
    BY <1>2, <1>3 DEF Step
  <2> QED BY <1>1, <2>1 DEF CallRecord
<1>4. ASSUME NEW pc, NEW reply, call' = [call EXCEPT ![c].pc = pc, ![c].reply = reply]
      PROVE  call'[c].snap = call[c].snap /\ call'[c].pc = pc
  <2>1. call'[c] = [call[c] EXCEPT !.pc = pc, !.reply = reply]
    BY <1>2, <1>4
  <2> QED BY <1>1, <2>1 DEF CallRecord
<1>5. CASE StartClaim(c)
  <2>1. CASE ClaimRunWithEvent(r) /\ Step(c, "launch")
    BY <1>1, <1>3, <1>5, <2>1, WritesOne
       DEF StartClaim, ClaimRunWithEvent, HandleWrites
  <2>2. CASE /\ UNCHANGED <<row, logged>>
             /\ \/ call' = [call EXCEPT ![c].pc = "withdraw", ![c].reply = Duplicate(r)]
                \/ call' = [call EXCEPT ![c].pc = "withdraw", ![c].reply = "error"]
    <3>1. call'[c].snap = call[c].snap /\ call'[c].pc = "withdraw"
      BY <1>4, <2>2
    <3> QED BY <1>5, <2>2, <3>1 DEF StartClaim, HandleWrites
  <2> QED BY <1>5, <2>1, <2>2 DEF StartClaim
<1>6. CASE StartWithdraw(c)
  BY <1>4, <1>6 DEF StartWithdraw, Answer, HandleWrites
<1>7. CASE StartLaunch(c)
  <2>1. Told(g, r, "queued")
    BY <1>1, <1>7, WritesOne DEF StartLaunch
  <2> QED BY <1>4, <1>7, <2>1 DEF StartLaunch, Answer, HandleWrites
<1>8. CASE CancelLoad(c)
  <2>1. Answer(c, "error") \/ Answer(c, row[r]) \/ Step(c, "disown")
    BY <1>8 DEF CancelLoad
  <2>2. call'[c].snap = call[c].snap /\ call'[c].pc \in {"done", "disown"}
    BY <1>3, <1>4, <2>1 DEF Answer
  <2> QED BY <1>8, <2>2 DEF CancelLoad, HandleWrites
<1>9. CASE CancelDisown(c)
  <2>1. call'[c].snap = call[c].snap /\ call'[c].pc = "done"
    BY <1>4, <1>9 DEF CancelDisown, Answer
  <2>2. Wrote(r, "cancelled") \/ UNCHANGED <<row, logged>>
    BY <1>1, <1>9, WritesOne DEF CancelDisown
  <2> QED BY <1>9, <2>1, <2>2 DEF CancelDisown, HandleWrites
<1>10. CASE CancelPersist(c)
  <2>1. Wrote(r, call[c].snap) \/ (StoreMayRefuse /\ UNCHANGED <<row, logged>>)
    BY <1>1, <1>10, WritesOne DEF CancelPersist
  <2> QED BY <1>3, <1>10, <2>1 DEF CancelPersist, HandleWrites
<1>11. CASE CancelSignal(c)
  <2>1. Told(g, r, call[c].snap)
    BY <1>1, <1>11, WritesOne DEF CancelSignal
  <2> QED BY <1>4, <1>11, <2>1 DEF CancelSignal, Answer, HandleWrites
<1> QED BY <1>5, <1>6, <1>7, <1>8, <1>9, <1>10, <1>11 DEF Handle

\* A goroutine copies the status it sets, and writes its copy.
LEMMA ExecuteHasWrites ==
  ASSUME TypeOK, NEW g \in Gateways, NEW r \in Runs, Execute(g, r) \/ Finish(g, r)
  PROVE  ExecuteWrites(g, r)
<1>1. exec \in [Gateways -> [Runs -> ExecRecord]] /\ exec[g][r] \in ExecRecord
  BY DEF TypeOK
<1>2. runs \in [Gateways -> [Runs -> Status \cup {Absent}]]
  BY DEF TypeOK, StatusMap
<1>3. ASSUME NEW to, exec' = [exec EXCEPT ![g][r].pc = to]
      PROVE  exec'[g][r].pc = to /\ exec'[g][r].snap = exec[g][r].snap
  <2>1. exec'[g][r] = [exec[g][r] EXCEPT !.pc = to]
    BY <1>1, <1>3
  <2> QED BY <1>1, <2>1 DEF ExecRecord
<1>4. ASSUME NEW status, NEW to, Update(g, r, status, to)
      PROVE  /\ exec'[g][r].pc = to /\ exec'[g][r].snap = runs'[g][r]
             /\ UNCHANGED <<row, logged, feed>>
  <2>1. exec' = [exec EXCEPT ![g][r] = [exec[g][r] EXCEPT !.pc = to, !.snap = status]]
    BY <1>1, <1>4 DEF Update
  <2>2. exec'[g][r] = [exec[g][r] EXCEPT !.pc = to, !.snap = status]
    BY <1>1, <2>1
  <2>3. exec'[g][r].pc = to /\ exec'[g][r].snap = status
    BY <1>1, <2>2 DEF ExecRecord
  <2>4. runs'[g][r] = status
    BY <1>2, <1>4 DEF Update
  <2> QED BY <1>4, <2>3, <2>4 DEF Update
<1>5. ASSUME NEW from \in {"persistRunning", "persistEnd"}, NEW to,
             PersistSnapshot(g, r, from, to)
      PROVE  ExecuteWrites(g, r)
  <2>1. Wrote(r, exec[g][r].snap)
    BY <1>5, WritesOne DEF PersistSnapshot
  <2> QED BY <1>3, <1>5, <2>1 DEF PersistSnapshot, ExecStep, ExecuteWrites
<1>6. CASE AcquireSlot(g, r)
  <2>1. exec'[g][r].pc = "entered"
    <3>1. CASE MaxConcurrent = 0
      BY <1>3, <1>6, <3>1 DEF AcquireSlot, ExecStep
    <3>2. CASE MaxConcurrent # 0
      <4>1. exec' = [exec EXCEPT ![g][r] = [exec[g][r] EXCEPT !.pc = "entered", !.slot = TRUE]]
        BY <1>1, <1>6, <3>2 DEF AcquireSlot
      <4>2. exec'[g][r] = [exec[g][r] EXCEPT !.pc = "entered", !.slot = TRUE]
        BY <1>1, <4>1
      <4> QED BY <1>1, <4>2 DEF ExecRecord
    <3> QED BY <3>1, <3>2
  <2> QED BY <1>6, <2>1 DEF AcquireSlot, ExecuteWrites
<1>7. CASE AbandonSlot(g, r)
  BY <1>3, <1>7 DEF AbandonSlot, ExecStep, ExecuteWrites
<1>8. CASE UpdateDropped(g, r) \/ UpdateRunning(g, r) \/ Finish(g, r)
  BY <1>4, <1>8 DEF UpdateDropped, UpdateRunning, Finish, ExecuteWrites
<1>9. CASE PersistRunning(g, r) \/ PersistEnd(g, r)
  BY <1>5, <1>9 DEF PersistRunning, PersistEnd
<1>10. CASE InvokeStarter(g, r)
  BY <1>10, WritesOne DEF InvokeStarter, ExecuteWrites
<1>11. CASE Release(g, r)
  <2>1. exec' = [exec EXCEPT ![g][r] = [exec[g][r] EXCEPT !.pc = "done", !.slot = FALSE]]
    BY <1>1, <1>11 DEF Release
  <2>2. exec'[g][r] = [exec[g][r] EXCEPT !.pc = "done", !.slot = FALSE]
    BY <1>1, <2>1
  <2>3. exec'[g][r].snap = exec[g][r].snap
    BY <1>1, <2>2 DEF ExecRecord
  <2>4. Told(g, r, exec[g][r].snap)
    BY <1>11, WritesOne DEF Release
  <2> QED BY <1>11, <2>3, <2>4 DEF Release, ExecuteWrites
<1> QED BY <1>6, <1>7, <1>8, <1>9, <1>10, <1>11 DEF Execute

\* Shutdown and recovery write rows and feed only; an exit forgets the feed.
LEMMA ProcessHasWrites ==
  ASSUME TypeOK, NEW g \in Gateways,
         Interrupt(g) \/ Shutdown(g) \/ Crash(g) \/ Restart(g) \/ Recover(g)
  PROVE  ProcessWrites(g)
<1>1. ASSUME NEW r \in Runs,
             ShutdownPersist(g, r) \/ ShutdownSignal(g, r) \/ RecoverSave(g, r)
      PROVE  ProcessWrites(g)
  BY <1>1, WritesOne
     DEF ShutdownPersist, ShutdownSignal, RecoverSave, ProcessWrites, memVars
<1>2. CASE Interrupt(g) \/ ShutdownMark(g) \/ ShutdownReturn(g) \/ RecoverList(g)
  BY <1>2 DEF Interrupt, ShutdownMark, ShutdownReturn, RecoverList, ProcessWrites, memVars
<1>3. CASE Crash(g) \/ Restart(g)
  <2>1. ForgetProcess(g)
    BY <1>3 DEF Crash, Restart
  <2>2. /\ exec' = [exec EXCEPT ![g] = [q \in Runs |-> NoExec]]
        /\ feed' = [feed EXCEPT ![g] = [q \in Runs |-> Absent]]
    BY <2>1 DEF ForgetProcess
  <2>3. /\ \A q \in Runs : exec'[g][q] = NoExec
        /\ feed'[g] = [q \in Runs |-> Absent]
        /\ \A h \in Gateways : h # g => feed'[h] = feed[h]
    BY <2>2 DEF TypeOK, StatusMap
  <2>4. \A q \in Runs : exec'[g][q].pc = "none" /\ feed'[g][q] = Absent
    BY <2>3 DEF NoExec
  <2> QED BY <1>3, <2>3, <2>4 DEF Crash, Restart, ProcessWrites
<1> QED BY <1>1, <1>2, <1>3 DEF Shutdown, Recover

\* What a step does to memory, and what it writes.
Written ==
  \/ \E c \in Calls, g \in Gateways, r \in Runs :
       \/ RequestEffect(c, g, r) /\ RequestWrites(c, g, r)
       \/ HandleEffect(c, g, r) /\ HandleWrites(c, g, r)
  \/ \E g \in Gateways, r \in Runs :
       /\ Alive(g) /\ ExecuteEffect(g, r) /\ UNCHANGED <<gw, call>>
       /\ ExecuteWrites(g, r)
  \/ \E g \in Gateways : ProcessEffect(g) /\ ProcessWrites(g)
  \/ UNCHANGED vars

\* The two together; the lemmas below split on these.
LEMMA StepIsWritten ==
  ASSUME IInv, [Next]_vars
  PROVE  Written
<1>0. TypeOK /\ SlotsHeld
  BY DEF IInv
<1>1. ASSUME NEW g \in Gateways, NEW r \in Runs, Request(g, r)
      PROVE  Written
  BY <1>0, <1>1, RequestHasEffect, RequestHasWrites DEF Written, Request, Calls
<1>2. ASSUME NEW g \in Gateways, NEW r \in Runs, Execute(g, r) \/ Finish(g, r)
      PROVE  Written
  BY <1>0, <1>2, ExecuteHasEffect, ExecuteHasWrites DEF Written
<1>3. ASSUME NEW c \in Calls, Handle(c)
      PROVE  Written
  <2>1. PICK g \in Gateways, r \in Runs : HandleEffect(c, g, r)
    BY <1>0, <1>3, HandleHasEffect
  <2>2. HandleWrites(c, g, r)
    BY <1>0, <1>3, <2>1, HandleHasWrites DEF HandleEffect
  <2> QED BY <2>1, <2>2 DEF Written
<1>4. ASSUME NEW g \in Gateways,
             Interrupt(g) \/ Shutdown(g) \/ Crash(g) \/ Restart(g) \/ Recover(g)
      PROVE  Written
  BY <1>0, <1>4, ProcessHasEffect, ProcessHasWrites DEF Written
<1> QED BY <1>1, <1>2, <1>3, <1>4 DEF Next, Written

-----------------------------------------------------------------------------
(* Every step preserves OutcomeInv                                          *)

\* An outcome in m.runs stays there until its process is forgotten.
LEMMA OutcomeStays ==
  ASSUME IInv, Effect, NEW h \in Gateways, NEW q \in Runs, runs[h][q] \in Terminal
  PROVE  \/ runs'[h][q] = runs[h][q]
         \/ gw'[h] \in {"down", "recovering"} /\ exec'[h][q].pc = "none"
<1>0. /\ runs[h][q] \notin Active /\ runs[h][q] # Absent
      /\ exec[h][q].pc \in {"persistEnd", "release", "done"}
  BY DEF Active, Terminal, Absent, IInv, StatusMatchesExec
<1>1. ASSUME NEW c \in Calls, NEW g \in Gateways, NEW r \in Runs, RequestEffect(c, g, r)
      PROVE  runs'[h][q] = runs[h][q]
  BY <1>0, <1>1 DEF RequestEffect, OtherRuns
<1>2. ASSUME NEW c \in Calls, NEW g \in Gateways, NEW r \in Runs, HandleEffect(c, g, r)
      PROVE  runs'[h][q] = runs[h][q]
  <2>1. Opening(c) => runs[g][r] \in Active
    BY <1>2 DEF HandleEffect, IInv, ExecutingRunIsTracked
  <2> QED BY <1>0, <1>2, <2>1 DEF HandleEffect, OtherRuns, Opening
<1>3. ASSUME NEW g \in Gateways, NEW r \in Runs, ExecuteEffect(g, r)
      PROVE  runs'[h][q] = runs[h][q]
  BY <1>0, <1>3 DEF ExecuteEffect, Moves, SameStatus
<1>4. ASSUME NEW g \in Gateways, ProcessEffect(g)
      PROVE  \/ runs'[h][q] = runs[h][q]
             \/ gw'[h] \in {"down", "recovering"} /\ exec'[h][q].pc = "none"
  BY <1>0, <1>4 DEF ProcessEffect, Forgets
<1>5. CASE UNCHANGED vars
  BY <1>5 DEF vars
<1> QED BY <1>1, <1>2, <1>3, <1>4, <1>5 DEF Effect

\* What is written in full has the effect on memory of RunManagerProofs.
LEMMA WrittenHasEffect == Written => Effect
BY DEF Written, Effect

\* What a goroutine has copied stays current.
LEMMA GoroutineSnapshotStep ==
  ASSUME IInv, SnapshotsAreCurrent, Written, NEW h \in Gateways, NEW q \in Runs
  PROVE  /\ exec'[h][q].pc \in EndPC =>
              runs'[h][q] \in Terminal /\ exec'[h][q].snap = runs'[h][q]
         /\ exec'[h][q].pc = "persistRunning" => exec'[h][q].snap = "running"
<1>0. /\ exec[h][q].pc \in EndPC =>
           runs[h][q] \in Terminal /\ exec[h][q].snap = runs[h][q]
      /\ exec[h][q].pc = "persistRunning" => exec[h][q].snap = "running"
  BY DEF SnapshotsAreCurrent
<1>1. CASE exec'[h][q] = exec[h][q]
  BY <1>0, <1>1, OutcomeStays, WrittenHasEffect DEF EndPC
<1>2. CASE exec'[h][q].pc \in {"none", "slot"}
  BY <1>2 DEF EndPC
<1>3. ASSUME NEW g \in Gateways, NEW r \in Runs, ExecuteEffect(g, r), ExecuteWrites(g, r)
      PROVE  \/ exec'[h][q] = exec[h][q]
             \/ /\ exec'[h][q].pc \in EndPC =>
                     runs'[h][q] \in Terminal /\ exec'[h][q].snap = runs'[h][q]
                /\ exec'[h][q].pc = "persistRunning" => exec'[h][q].snap = "running"
  <2>1. CASE h # g \/ q # r
    BY <1>3, <2>1 DEF ExecuteEffect, Moves
  <2>2. CASE h = g /\ q = r
    BY <1>0, <1>3, <2>2 DEF ExecuteEffect, ExecuteWrites, Moves, SameStatus, EndPC
  <2> QED BY <2>1, <2>2
<1>4. ASSUME NEW c \in Calls, NEW g \in Gateways, NEW r \in Runs,
             RequestEffect(c, g, r) \/ HandleEffect(c, g, r)
      PROVE  exec'[h][q] = exec[h][q] \/ exec'[h][q].pc \in {"none", "slot"}
  BY <1>4 DEF RequestEffect, HandleEffect
<1>5. ASSUME NEW g \in Gateways, ProcessEffect(g)
      PROVE  exec'[h][q] = exec[h][q] \/ exec'[h][q].pc \in {"none", "slot"}
  BY <1>5 DEF ProcessEffect, Forgets
<1>6. CASE UNCHANGED vars
  BY <1>1, <1>6 DEF vars
<1> QED BY <1>1, <1>2, <1>3, <1>4, <1>5, <1>6 DEF Written

\* What a cancel request has copied stays current until it has answered.
LEMMA RequestSnapshotStep ==
  ASSUME IInv, SnapshotsAreCurrent, Written, NEW d \in Calls,
         call'[d].pc \in {"persist", "signal"}
  PROVE  \/ call'[d].snap = "cancelling"
         \/ /\ call'[d].snap \in Terminal
            /\ call'[d].snap = runs'[call'[d].g][call'[d].r]
<1> DEFINE Goal == \/ call'[d].snap = "cancelling"
                   \/ /\ call'[d].snap \in Terminal
                      /\ call'[d].snap = runs'[call'[d].g][call'[d].r]
<1> SUFFICES Goal
  OBVIOUS
<1>0. TypeOK /\ gw'[call'[d].g] \in {"serving", "draining"}
  BY ServedStep, WrittenHasEffect DEF IInv, HandlersAreServed, Working
<1>1. ASSUME call[d].pc \in {"persist", "signal"}, call'[d].snap = call[d].snap,
             call'[d].g = call[d].g, call'[d].r = call[d].r
      PROVE  Goal
  <2>1. call[d].g \in Gateways /\ call[d].r \in Runs
    BY <1>0, <1>1, HandlerRecord DEF CallPC
  <2>2. \/ call[d].snap = "cancelling"
        \/ call[d].snap \in Terminal /\ call[d].snap = runs[call[d].g][call[d].r]
    BY <1>1 DEF SnapshotsAreCurrent
  <2> QED BY <1>0, <1>1, <2>1, <2>2, OutcomeStays, WrittenHasEffect
<1>2. CASE call'[d] = call[d]
  BY <1>1, <1>2
<1>3. ASSUME NEW c \in Calls, NEW g \in Gateways, NEW r \in Runs,
             RequestEffect(c, g, r), RequestWrites(c, g, r)
      PROVE  Goal
  BY <1>2, <1>3 DEF RequestEffect, RequestWrites, OtherCalls
<1>4. ASSUME NEW c \in Calls, NEW g \in Gateways, NEW r \in Runs,
             HandleEffect(c, g, r), HandleWrites(c, g, r)
      PROVE  Goal
  <2>1. CASE d # c
    BY <1>2, <1>4, <2>1 DEF HandleEffect, OtherCalls
  <2>2. CASE d = c
    BY <1>1, <1>4, <2>2 DEF HandleEffect, HandleWrites
  <2> QED BY <2>1, <2>2
<1>5. ASSUME NEW g \in Gateways, ProcessEffect(g)
      PROVE  call'[d] = call[d]
  BY <1>5 DEF ProcessEffect, LostCall
<1> QED BY <1>2, <1>3, <1>4, <1>5 DEF Written, vars

\* What is copied out of m.runs and written later is still current.
LEMMA SnapshotsStep ==
  ASSUME IInv, SnapshotsAreCurrent, Written
  PROVE  SnapshotsAreCurrent'
BY GoroutineSnapshotStep, RequestSnapshotStep DEF SnapshotsAreCurrent

\* A row that is claimed has no other writer before the run is launched: a
\* cancel of it finds no outcome to write, and nobody recovers.
LEMMA ClaimedRowStep ==
  ASSUME OneGateway, IInv, OutcomeInv, Written
  PROVE  ClaimedRowIsOpen'
<1> SUFFICES ASSUME NEW d \in Calls, call'[d].pc = "launch"
             PROVE  row'[call'[d].r] \notin {"completed", "failed"}
  BY DEF ClaimedRowIsOpen
<1> DEFINE Goal == row'[call'[d].r] \notin {"completed", "failed"}
<1>0. TypeOK /\ ExecutingRunIsTracked /\ StatusMatchesExec /\ HandlersAreServed
  BY DEF IInv
<1>1. CASE call[d].pc = "launch" /\ call'[d] = call[d]
  <2>1. /\ call[d].g \in Gateways /\ call[d].r \in Runs
        /\ exec[call[d].g][call[d].r].pc = "none"
        /\ runs[call[d].g][call[d].r] \notin Terminal
        /\ row[call[d].r] \notin {"completed", "failed"}
        /\ gw[call[d].g] \in {"serving", "draining"}
    BY <1>0, <1>1, OpeningRecord
       DEF Opening, ExecutingRunIsTracked, HandlersAreServed, OutcomeInv,
           ClaimedRowIsOpen, Active, Terminal
  <2>2. ASSUME NEW r \in Runs, NEW status \in {"queued", "running", "cancelling", "cancelled"},
               Wrote(r, status)
        PROVE  Goal
    BY <1>1, <2>1, <2>2 DEF Wrote
  <2>3. ASSUME UNCHANGED row PROVE Goal
    BY <1>1, <2>1, <2>3
  <2>4. ASSUME NEW c \in Calls, NEW g \in Gateways, NEW r \in Runs,
               HandleEffect(c, g, r), HandleWrites(c, g, r)
        PROVE  Goal
    <3>1. CASE call[c].pc = "persist" /\ Wrote(r, call[c].snap)
      <4>1. call[c].snap = "cancelling" \/ (call[c].snap \in Terminal /\ call[c].snap = runs[g][r])
        BY <2>4, <3>1 DEF HandleEffect, OutcomeInv, SnapshotsAreCurrent
      <4>2. r = call[d].r => call[c].snap = "cancelling"
        BY <2>1, <4>1 DEF OneGateway
      <4> QED BY <1>1, <2>1, <3>1, <4>2 DEF Wrote
    <3> QED BY <2>2, <2>3, <2>4, <3>1 DEF HandleWrites
  <2>5. ASSUME NEW g \in Gateways, NEW r \in Runs, ExecuteEffect(g, r), ExecuteWrites(g, r)
        PROVE  Goal
    <3>1. exec[g][r].pc # "none"
      BY <2>5 DEF ExecuteEffect, Moves
    <3>2. r # call[d].r
      BY <2>1, <3>1 DEF OneGateway
    <3> QED BY <1>1, <2>1, <2>5, <3>2 DEF ExecuteWrites, Wrote
  <2>6. ASSUME NEW g \in Gateways, ProcessWrites(g)
        PROVE  Goal
    <3>1. gw[g] # "recovering"
      BY <2>1 DEF OneGateway
    <3> QED BY <2>2, <2>3, <2>6, <3>1 DEF ProcessWrites
  <2> QED BY <2>3, <2>4, <2>5, <2>6 DEF Written, RequestWrites, vars
<1>2. ASSUME NEW c \in Calls, NEW g \in Gateways, NEW r \in Runs,
             HandleEffect(c, g, r), HandleWrites(c, g, r)
      PROVE  Goal \/ (call[d].pc = "launch" /\ call'[d] = call[d])
  BY <1>2 DEF HandleEffect, HandleWrites, OtherCalls, Wrote
<1>3. ASSUME NEW c \in Calls, NEW g \in Gateways, NEW r \in Runs, RequestEffect(c, g, r)
      PROVE  call[d].pc = "launch" /\ call'[d] = call[d]
  BY <1>3 DEF RequestEffect, OtherCalls
<1>4. ASSUME NEW g \in Gateways, ProcessEffect(g)
      PROVE  call[d].pc = "launch" /\ call'[d] = call[d]
  BY <1>4 DEF ProcessEffect, LostCall
<1> QED BY <1>1, <1>2, <1>3, <1>4 DEF Written, vars

\* A goroutine appears only where a handler launches it.
LEMMA LaunchedHere ==
  ASSUME IInv, Written, NEW h \in Gateways, NEW q \in Runs,
         exec[h][q].pc = "none", exec'[h][q].pc # "none"
  PROVE  \E c \in Calls : call[c].pc = "launch" /\ call[c].r = q
                          /\ UNCHANGED row /\ Told(h, q, "queued")
<1> DEFINE Goal == \E c \in Calls : call[c].pc = "launch" /\ call[c].r = q
                                    /\ UNCHANGED row /\ Told(h, q, "queued")
<1>1. ASSUME NEW c \in Calls, NEW g \in Gateways, NEW r \in Runs,
             HandleEffect(c, g, r), HandleWrites(c, g, r)
      PROVE  Goal
  <2>1. call[c].pc = "launch" /\ call'[c].pc = "done" /\ h = g /\ q = r
    BY <1>1 DEF HandleEffect
  <2>2. UNCHANGED row /\ Told(g, r, "queued")
    BY <1>1, <2>1 DEF HandleWrites
  <2> QED BY <1>1, <2>1, <2>2 DEF HandleEffect
<1>2. ASSUME NEW g \in Gateways, NEW r \in Runs, ExecuteEffect(g, r)
      PROVE  FALSE
  BY <1>2 DEF ExecuteEffect, Moves
<1>3. ASSUME NEW g \in Gateways, ProcessEffect(g)
      PROVE  FALSE
  BY <1>3 DEF ProcessEffect, Forgets
<1>4. ASSUME NEW c \in Calls, NEW g \in Gateways, NEW r \in Runs, RequestEffect(c, g, r)
      PROVE  FALSE
  BY <1>4 DEF RequestEffect
<1> QED BY <1>1, <1>2, <1>3, <1>4 DEF Written, vars

\* While a goroutine exists, a result gets into its row only from m.runs.
LEMMA DurableStep ==
  ASSUME OneGateway, IInv, OutcomeInv, Written
  PROVE  DurableOutcomeIsReal'
<1> SUFFICES ASSUME NEW h \in Gateways, NEW q \in Runs,
                    exec'[h][q].pc # "none", row'[q] \in {"completed", "failed"}
             PROVE  row'[q] = runs'[h][q]
  BY DEF DurableOutcomeIsReal
<1>0. FreshProcess /\ SnapshotsAreCurrent
  BY DEF IInv, OutcomeInv
<1>1. CASE row'[q] = row[q]
  <2>1. CASE exec[h][q].pc = "none"
    <3>1. PICK c \in Calls : call[c].pc = "launch" /\ call[c].r = q
      BY <2>1, LaunchedHere
    <3> QED BY <1>1, <3>1 DEF OutcomeInv, ClaimedRowIsOpen
  <2>2. CASE exec[h][q].pc # "none"
    <3>1. row[q] = runs[h][q] /\ runs[h][q] \in Terminal
      BY <1>1, <2>2 DEF OutcomeInv, DurableOutcomeIsReal, Terminal
    <3> QED BY <1>1, <3>1, OutcomeStays, WrittenHasEffect
  <2> QED BY <2>1, <2>2
<1>2. CASE row'[q] # row[q]
  <2>1. ASSUME NEW c \in Calls, NEW g \in Gateways, NEW r \in Runs,
               HandleEffect(c, g, r), HandleWrites(c, g, r)
        PROVE  row'[q] = runs'[h][q]
    <3>1. call[c].pc = "persist" /\ row'[q] = call[c].snap /\ q = r
      BY <1>2, <2>1 DEF HandleWrites, Wrote
    <3>2. runs' = runs
      BY <2>1, <3>1 DEF HandleEffect
    <3>3. call[c].snap = runs[g][r]
      BY <1>0, <2>1, <3>1 DEF SnapshotsAreCurrent, HandleEffect
    <3> QED BY <3>1, <3>2, <3>3 DEF OneGateway
  <2>2. ASSUME NEW g \in Gateways, NEW r \in Runs, ExecuteEffect(g, r), ExecuteWrites(g, r)
        PROVE  row'[q] = runs'[h][q]
    <3>1. /\ exec[g][r].pc \in {"persistRunning", "persistEnd"}
          /\ row'[q] = exec[g][r].snap /\ q = r
      BY <1>2, <2>2 DEF ExecuteWrites, Wrote
    <3>2. exec[g][r].pc = "persistEnd" /\ exec[g][r].snap = runs[g][r]
      BY <1>0, <3>1 DEF SnapshotsAreCurrent, EndPC
    <3>3. runs'[g][r] = runs[g][r]
      BY <2>2, <3>2 DEF ExecuteEffect, Moves, SameStatus
    <3> QED BY <3>1, <3>2, <3>3 DEF OneGateway
  <2>3. ASSUME NEW g \in Gateways, ProcessWrites(g)
        PROVE  FALSE
    <3>1. gw[g] = "recovering" /\ exec' = exec
      BY <1>2, <2>3 DEF ProcessWrites, Wrote
    <3> QED BY <1>0, <3>1 DEF FreshProcess, OneGateway
  <2> QED BY <1>2, <2>1, <2>2, <2>3 DEF Written, RequestWrites, vars
<1> QED BY <1>1, <1>2

\* Nothing is written and nothing copied at first.
LEMMA OutcomeInit == Init => OutcomeInv
BY DEF Init, OutcomeInv, SnapshotsAreCurrent, ClaimedRowIsOpen, DurableOutcomeIsReal,
       EndPC, NoExec, IdleCall

\* The strengthening of DurableOutcomeIsReal that is inductive over IInv.
LEMMA OutcomeInvariance ==
  ASSUME OneGateway
  PROVE  Spec => []OutcomeInv
<1>1. IInv /\ OutcomeInv /\ [Next]_vars => OutcomeInv'
  BY StepIsWritten, SnapshotsStep, ClaimedRowStep, DurableStep DEF OutcomeInv
<1> QED BY <1>1, OutcomeInit, Invariance, PTL DEF Spec

\* One gateway, any number of runs and requests, a store that may refuse: a
\* run its process executes has completed or failed in the database only if
\* it did so in memory, whatever cancel, shutdown and recovery write.
THEOREM OutcomesAreReal ==
  ASSUME OneGateway
  PROVE  Spec => []DurableOutcomeIsReal
<1>1. OutcomeInv => DurableOutcomeIsReal
  BY DEF OutcomeInv
<1> QED BY <1>1, OutcomeInvariance, PTL

-----------------------------------------------------------------------------
(* Every step preserves AnnouncedInv, when no write is refused              *)

\* The row of a run that has ended in memory is not opened again: a claim
\* needs an absent row, and the goroutine that writes running has not ended.
LEMMA ClosedRowStays ==
  ASSUME OneGateway, IInv, OutcomeInv, Written, NEW h \in Gateways, NEW q \in Runs,
         runs[h][q] \in Terminal, row[q] \notin {"queued", "running"}
  PROVE  row'[q] \notin {"queued", "running"}
<1>0. exec[h][q].pc \in EndPC /\ SnapshotsAreCurrent
  BY DEF IInv, StatusMatchesExec, OutcomeInv, EndPC
<1>1. row[q] # Absent
  BY <1>0 DEF IInv, ClaimIsExclusive, EndPC
<1>2. ASSUME NEW status, status \notin {"queued", "running"}, NEW r \in Runs, Wrote(r, status)
      PROVE  row'[q] \notin {"queued", "running"}
  BY <1>2 DEF Wrote
<1>3. ASSUME NEW c \in Calls, NEW g \in Gateways, NEW r \in Runs,
             HandleEffect(c, g, r), HandleWrites(c, g, r)
      PROVE  row'[q] \notin {"queued", "running"}
  <2>1. CASE call[c].pc = "claim" /\ Wrote(r, "queued")
    <3>1. row[r] = Absent \/ call'[c].pc = "withdraw"
      BY <1>3, <2>1 DEF HandleEffect, Opening
    <3>2. CASE row[r] = Absent
      BY <1>1, <2>1, <3>2 DEF Wrote
    <3>3. CASE call'[c].pc = "withdraw"
      BY <1>3, <3>3 DEF HandleWrites
    <3> QED BY <3>1, <3>2, <3>3
  <2>2. CASE call[c].pc = "persist" /\ Wrote(r, call[c].snap)
    <3>1. call[c].snap \in {"cancelling"} \cup Terminal
      BY <1>0, <2>2 DEF SnapshotsAreCurrent
    <3> QED BY <1>2, <2>2, <3>1 DEF Terminal
  <2> QED BY <1>2, <1>3, <2>1, <2>2 DEF HandleWrites
<1>4. ASSUME NEW g \in Gateways, NEW r \in Runs, ExecuteEffect(g, r), ExecuteWrites(g, r)
      PROVE  row'[q] \notin {"queued", "running"}
  <2>1. CASE exec[g][r].pc = "persistRunning"
    <3>1. r # q
      BY <1>0, <2>1 DEF OneGateway, EndPC
    <3> QED BY <1>4, <3>1 DEF ExecuteWrites, Wrote
  <2>2. CASE exec[g][r].pc = "persistEnd" /\ Wrote(r, exec[g][r].snap)
    <3>1. exec[g][r].snap \in Terminal
      BY <1>0, <2>2 DEF SnapshotsAreCurrent, EndPC
    <3> QED BY <1>2, <2>2, <3>1 DEF Terminal
  <2> QED BY <1>4, <2>1, <2>2 DEF ExecuteWrites
<1>5. ASSUME NEW g \in Gateways, ProcessWrites(g)
      PROVE  row'[q] \notin {"queued", "running"}
  BY <1>2, <1>5 DEF ProcessWrites
<1> QED BY <1>3, <1>4, <1>5 DEF Written, RequestWrites, vars

\* An outcome reaches the feed from a handler or a goroutine that has written
\* it; recovery publishes before any goroutine exists.
LEMMA FeedStep ==
  ASSUME OneGateway, StoreMayRefuse = FALSE, IInv, OutcomeInv, AnnouncedInv, Written,
         NEW h \in Gateways, NEW q \in Runs,
         exec'[h][q].pc # "none", feed'[h][q] \in Terminal
  PROVE  runs'[h][q] \in Terminal /\ row'[q] \notin {"queued", "running"}
<1> DEFINE Goal == runs'[h][q] \in Terminal /\ row'[q] \notin {"queued", "running"}
<1>0. FreshProcess /\ SnapshotsAreCurrent
  BY DEF IInv, OutcomeInv
<1>1. exec[h][q].pc # "none"
  <2> SUFFICES ASSUME exec[h][q].pc = "none" PROVE FALSE
    OBVIOUS
  <2>1. feed'[h][q] = "queued"
    BY LaunchedHere DEF Told
  <2> QED BY <2>1 DEF Terminal
<1>2. ASSUME runs[h][q] \in Terminal, row[q] \notin {"queued", "running"}
      PROVE  Goal
  BY <1>2, ClosedRowStays, OutcomeStays, WrittenHasEffect
<1>3. CASE feed'[h][q] = feed[h][q]
  BY <1>1, <1>2, <1>3 DEF AnnouncedInv
<1>4. CASE feed'[h][q] # feed[h][q]
  <2>1. ASSUME NEW c \in Calls, NEW g \in Gateways, NEW r \in Runs,
               HandleEffect(c, g, r), HandleWrites(c, g, r)
        PROVE  Goal
    <3>1. /\ call[c].pc = "signal" /\ feed'[h][q] = call[c].snap
          /\ h = g /\ q = r
      BY <1>4, <2>1 DEF HandleWrites, Told, Terminal
    <3>2. call[c].snap = runs[g][r]
      BY <1>0, <2>1, <3>1 DEF SnapshotsAreCurrent, HandleEffect, Terminal
    <3>3. row[r] \notin {"queued", "running"}
      BY <2>1, <3>1 DEF AnnouncedInv, HandleEffect
    <3> QED BY <1>2, <3>1, <3>2, <3>3
  <2>2. ASSUME NEW g \in Gateways, NEW r \in Runs, ExecuteEffect(g, r), ExecuteWrites(g, r)
        PROVE  Goal
    <3>1. /\ exec[g][r].pc = "release" /\ feed'[h][q] = exec[g][r].snap
          /\ h = g /\ q = r
      BY <1>4, <2>2 DEF ExecuteWrites, Told, Terminal
    <3> QED BY <1>0, <1>2, <3>1 DEF SnapshotsAreCurrent, EndPC, AnnouncedInv
  <2>3. ASSUME NEW g \in Gateways, ProcessWrites(g)
        PROVE  FALSE
    <3>1. g = h
      BY DEF OneGateway
    <3>2. gw[g] = "recovering" /\ exec' = exec
      BY <1>4, <2>3, <3>1 DEF ProcessWrites, Told, Terminal
    <3> QED BY <1>0, <1>1, <3>1, <3>2 DEF FreshProcess
  <2> QED BY <1>4, <2>1, <2>2, <2>3 DEF Written, RequestWrites, vars
<1> QED BY <1>3, <1>4

\* Who is about to publish an outcome has written it.
LEMMA WriterStep ==
  ASSUME OneGateway, StoreMayRefuse = FALSE, IInv, OutcomeInv, AnnouncedInv, Written
  PROVE  /\ \A h \in Gateways, q \in Runs :
              exec'[h][q].pc = "release" => row'[q] \notin {"queued", "running"}
         /\ \A d \in Calls :
              call'[d].pc = "signal" /\ call'[d].snap \in Terminal =>
                row'[call'[d].r] \notin {"queued", "running"}
<1>0. TypeOK /\ SnapshotsAreCurrent
  BY DEF IInv, OutcomeInv
<1>1. ASSUME NEW h \in Gateways, NEW q \in Runs, exec'[h][q].pc = "release"
      PROVE  row'[q] \notin {"queued", "running"}
  <2>1. CASE exec[h][q].pc = "release"
    <3>1. runs[h][q] \in Terminal /\ row[q] \notin {"queued", "running"}
      BY <1>0, <2>1 DEF SnapshotsAreCurrent, EndPC, AnnouncedInv
    <3> QED BY <3>1, ClosedRowStays
  <2>2. CASE exec[h][q].pc # "release"
    <3>1. ASSUME NEW g \in Gateways, NEW r \in Runs, ExecuteEffect(g, r), ExecuteWrites(g, r)
          PROVE  row'[q] \notin {"queued", "running"}
      <4>1. exec[g][r].pc = "persistEnd" /\ q = r
        BY <1>1, <2>2, <3>1 DEF ExecuteEffect, Moves
      <4>2. row'[q] = exec[g][r].snap
        BY <1>1, <2>2, <3>1, <4>1 DEF ExecuteWrites, ExecuteEffect, Moves, Wrote
      <4>3. exec[g][r].snap \in Terminal
        BY <1>0, <4>1 DEF SnapshotsAreCurrent, EndPC
      <4> QED BY <4>2, <4>3 DEF Terminal
    <3>2. ASSUME NEW c \in Calls, NEW g \in Gateways, NEW r \in Runs,
                 RequestEffect(c, g, r) \/ HandleEffect(c, g, r)
          PROVE  FALSE
      BY <1>1, <2>2, <3>2 DEF RequestEffect, HandleEffect
    <3>3. ASSUME NEW g \in Gateways, ProcessEffect(g)
          PROVE  FALSE
      BY <1>1, <2>2, <3>3 DEF ProcessEffect, Forgets
    <3> QED BY <1>1, <2>2, <3>1, <3>2, <3>3 DEF Written, vars
  <2> QED BY <2>1, <2>2
<1>2. ASSUME NEW d \in Calls, call'[d].pc = "signal", call'[d].snap \in Terminal
      PROVE  row'[call'[d].r] \notin {"queued", "running"}
  <2> DEFINE Goal == row'[call'[d].r] \notin {"queued", "running"}
  <2>1. ASSUME call'[d] = call[d]
        PROVE  Goal
    <3>1. call[d].g \in Gateways /\ call[d].r \in Runs
      BY <1>0, <1>2, <2>1, HandlerRecord DEF CallPC
    <3>2. runs[call[d].g][call[d].r] \in Terminal
      BY <1>0, <1>2, <2>1 DEF SnapshotsAreCurrent, Terminal
    <3>3. row[call[d].r] \notin {"queued", "running"}
      BY <1>2, <2>1 DEF AnnouncedInv
    <3> QED BY <2>1, <3>1, <3>2, <3>3, ClosedRowStays
  <2>2. ASSUME NEW c \in Calls, NEW g \in Gateways, NEW r \in Runs,
               HandleEffect(c, g, r), HandleWrites(c, g, r)
        PROVE  Goal
    <3>1. CASE d # c
      BY <2>1, <2>2, <3>1 DEF HandleEffect, OtherCalls
    <3>2. CASE d = c
      <4>1. Wrote(r, call'[c].snap) /\ call'[c].r = r
        BY <1>2, <2>2, <3>2 DEF HandleWrites, HandleEffect
      <4> QED BY <1>2, <2>2, <3>2, <4>1 DEF Wrote, Terminal
    <3> QED BY <3>1, <3>2
  <2>3. ASSUME NEW c \in Calls, NEW g \in Gateways, NEW r \in Runs, RequestEffect(c, g, r)
        PROVE  call'[d] = call[d]
    BY <1>2, <2>3 DEF RequestEffect, OtherCalls
  <2>4. ASSUME NEW g \in Gateways, ProcessEffect(g)
        PROVE  call'[d] = call[d]
    BY <1>2, <2>4 DEF ProcessEffect, LostCall
  <2> QED BY <2>1, <2>2, <2>3, <2>4 DEF Written, vars
<1> QED BY <1>1, <1>2

\* No event of an outcome is ever removed.
LEMMA LogGrows ==
  ASSUME Written, NEW q \in Runs
  PROVE  logged[q] \subseteq logged'[q]
<1>1. ASSUME NEW r \in Runs, NEW status, Wrote(r, status)
      PROVE  logged[q] \subseteq logged'[q]
  BY <1>1 DEF Wrote
<1> QED BY <1>1 DEF Written, RequestWrites, HandleWrites, ExecuteWrites, ProcessWrites, vars

\* A goroutine is about to publish only what it has written.
LEMMA LoggedBeforeRelease ==
  ASSUME IInv, SnapshotsAreCurrent, LoggedInv, Written,
         NEW h \in Gateways, NEW q \in Runs, exec'[h][q].pc = "release"
  PROVE  exec'[h][q].snap \in logged'[q]
<1> DEFINE Goal == exec'[h][q].snap \in logged'[q]
<1>1. CASE exec'[h][q] = exec[h][q]
  BY <1>1, LogGrows DEF LoggedInv
<1>2. ASSUME NEW g \in Gateways, NEW r \in Runs, ExecuteEffect(g, r), ExecuteWrites(g, r)
      PROVE  Goal
  <2>1. CASE h # g \/ q # r
    BY <1>1, <1>2, <2>1 DEF ExecuteEffect, Moves
  <2>2. CASE h = g /\ q = r
    <3>1. exec[g][r].pc = "persistEnd"
      BY <1>2, <2>2 DEF ExecuteEffect, Moves
    <3>2. Wrote(r, exec[g][r].snap) /\ exec'[g][r].snap = exec[g][r].snap
      BY <1>2, <2>2, <3>1 DEF ExecuteWrites
    <3>3. exec[g][r].snap \in Terminal
      BY <3>1 DEF SnapshotsAreCurrent, EndPC
    <3> QED BY <2>2, <3>2, <3>3 DEF Wrote
  <2> QED BY <2>1, <2>2
<1>3. ASSUME NEW c \in Calls, NEW g \in Gateways, NEW r \in Runs,
             RequestEffect(c, g, r) \/ HandleEffect(c, g, r)
      PROVE  exec'[h][q] = exec[h][q]
  BY <1>3 DEF RequestEffect, HandleEffect
<1>4. ASSUME NEW g \in Gateways, ProcessEffect(g)
      PROVE  exec'[h][q] = exec[h][q]
  BY <1>4 DEF ProcessEffect, Forgets
<1> QED BY <1>1, <1>2, <1>3, <1>4 DEF Written, vars

\* A cancel request too.
LEMMA LoggedBeforeSignal ==
  ASSUME StoreMayRefuse = FALSE, IInv, LoggedInv, Written, NEW d \in Calls,
         call'[d].pc = "signal", call'[d].snap \in Terminal
  PROVE  call'[d].snap \in logged'[call'[d].r]
<1> DEFINE Goal == call'[d].snap \in logged'[call'[d].r]
<1>0. TypeOK
  BY DEF IInv
<1>1. CASE call'[d] = call[d]
  <2>1. call[d].r \in Runs
    BY <1>0, <1>1, HandlerRecord DEF CallPC
  <2> QED BY <1>1, <2>1, LogGrows DEF LoggedInv
<1>2. ASSUME NEW c \in Calls, NEW g \in Gateways, NEW r \in Runs,
             HandleEffect(c, g, r), HandleWrites(c, g, r)
      PROVE  Goal
  <2>1. CASE d # c
    BY <1>1, <1>2, <2>1 DEF HandleEffect, OtherCalls
  <2>2. CASE d = c
    <3>1. Wrote(r, call'[c].snap) /\ call'[c].r = r
      BY <1>2, <2>2 DEF HandleWrites, HandleEffect
    <3> QED BY <2>2, <3>1 DEF Wrote
  <2> QED BY <2>1, <2>2
<1>3. ASSUME NEW c \in Calls, NEW g \in Gateways, NEW r \in Runs, RequestEffect(c, g, r)
      PROVE  call'[d] = call[d]
  BY <1>3 DEF RequestEffect, OtherCalls
<1>4. ASSUME NEW g \in Gateways, ProcessEffect(g)
      PROVE  call'[d] = call[d]
  BY <1>4 DEF ProcessEffect, LostCall
<1> QED BY <1>1, <1>2, <1>3, <1>4 DEF Written, vars

\* An outcome on the feed has its event among those of the run.
LEMMA LoggedBeforeFeed ==
  ASSUME IInv, LoggedInv, Written, NEW h \in Gateways, NEW q \in Runs,
         feed'[h][q] \in Terminal
  PROVE  feed'[h][q] \in logged'[q]
<1> DEFINE Goal == feed'[h][q] \in logged'[q]
<1>1. CASE feed'[h][q] = feed[h][q]
  BY <1>1, LogGrows DEF LoggedInv
<1>2. CASE feed'[h][q] # feed[h][q]
  <2>1. ASSUME NEW c \in Calls, NEW g \in Gateways, NEW r \in Runs,
               HandleEffect(c, g, r), HandleWrites(c, g, r)
        PROVE  Goal
    <3>1. /\ call[c].pc = "signal" /\ feed'[h][q] = call[c].snap
          /\ call[c].r = r /\ q = r
      BY <1>2, <2>1 DEF HandleEffect, HandleWrites, Told, Terminal
    <3> QED BY <3>1, LogGrows DEF LoggedInv
  <2>2. ASSUME NEW g \in Gateways, NEW r \in Runs, ExecuteWrites(g, r)
        PROVE  Goal
    <3>1. /\ exec[g][r].pc = "release" /\ feed'[h][q] = exec[g][r].snap
          /\ q = r
      BY <1>2, <2>2 DEF ExecuteWrites, Told, Terminal
    <3> QED BY <3>1, LogGrows DEF LoggedInv
  <2>3. ASSUME NEW g \in Gateways, ProcessWrites(g)
        PROVE  Goal
    <3>1. \E r \in Runs : Wrote(r, "failed") /\ Told(g, r, "failed")
      BY <1>2, <2>3 DEF ProcessWrites, Told, Terminal, Absent
    <3> QED BY <1>2, <3>1 DEF Wrote, Told, Terminal
  <2> QED BY <1>2, <2>1, <2>2, <2>3 DEF Written, RequestWrites, vars
<1> QED BY <1>1, <1>2

\* Whoever publishes an outcome wrote it first, in every gateway.
LEMMA LoggedStep ==
  ASSUME StoreMayRefuse = FALSE, IInv, SnapshotsAreCurrent, LoggedInv, Written
  PROVE  LoggedInv'
BY LoggedBeforeRelease, LoggedBeforeSignal, LoggedBeforeFeed DEF LoggedInv

\* Nothing is announced at first.
LEMMA AnnouncedInit == Init => AnnouncedInv
BY DEF Init, AnnouncedInv, LoggedInv, NoExec, IdleCall, Terminal, Absent

\* One gateway whose store accepts every write: a subscriber hears of the
\* outcome of a run only after its event was written, and the row of a run
\* that is still executed is not back in queued or running.
THEOREM AnnouncedAreDurable ==
  ASSUME OneGateway, StoreMayRefuse = FALSE
  PROVE  Spec => []AnnouncedOutcomeIsDurable
<1>1. ASSUME IInv, OutcomeInv, AnnouncedInv, [Next]_vars
      PROVE  AnnouncedInv'
  <2>1. Written
    BY <1>1, StepIsWritten
  <2>2. LoggedInv'
    BY <1>1, <2>1, LoggedStep DEF AnnouncedInv, OutcomeInv
  <2> QED BY <1>1, <2>1, <2>2, FeedStep, WriterStep DEF AnnouncedInv
<1>2. AnnouncedInv => AnnouncedOutcomeIsDurable
  BY DEF AnnouncedInv, LoggedInv, AnnouncedOutcomeIsDurable
<1>3. Spec => []OutcomeInv
  BY OutcomeInvariance
<1> QED BY <1>1, <1>2, <1>3, AnnouncedInit, Invariance, PTL DEF Spec

-----------------------------------------------------------------------------
(* Recovery leaves no active row                                            *)

\* No row has a status the scan is through with.
RecoverInv ==
  \A g \in Gateways, r \in Runs, k \in 1..3 :
    gw[g] = "recovering" /\ k < recov[g].scan => row[r] # ScanOrder[k]

\* While a process recovers, nobody else writes rows, and it closes them.
LEMMA RecoverStep ==
  ASSUME OneGateway, IInv, RecoverInv, [Next]_vars
  PROVE  RecoverInv'
<1> SUFFICES ASSUME NEW h \in Gateways, NEW q \in Runs, NEW k \in 1..3,
                    gw'[h] = "recovering", k < recov'[h].scan
             PROVE  row'[q] # ScanOrder[k]
  BY DEF RecoverInv
<1>0. TypeOK /\ HandlersAreServed /\ \A g \in Gateways : g = h
  BY DEF IInv, OneGateway
<1>1. ASSUME gw[h] = "recovering", recov'[h].scan = recov[h].scan,
             row'[q] \in {row[q], "failed"}
      PROVE  row'[q] # ScanOrder[k]
  BY <1>1 DEF RecoverInv, ScanOrder
<1>2. ASSUME NEW g \in Gateways, NEW r \in Runs, Request(g, r) \/ Execute(g, r) \/ Finish(g, r)
      PROVE  FALSE
  <2>1. CASE Request(g, r)
    BY <1>0, <2>1 DEF Request, StartReplay, StartInsert, CancelMark, procVars
  <2>2. CASE Execute(g, r) \/ Finish(g, r)
    <3>1. Alive(g) /\ gw' = gw
      BY <2>2 DEF Execute, AcquireSlot, AbandonSlot, UpdateDropped, UpdateRunning,
        PersistRunning, PersistEnd, PersistSnapshot, InvokeStarter, Release, Finish,
        Update, procVars
    <3> QED BY <1>0, <3>1 DEF Alive
  <2> QED BY <1>2, <2>1, <2>2
<1>3. ASSUME NEW c \in Calls, Handle(c)
      PROVE  FALSE
  <2>1. PICK g \in Gateways, r \in Runs : HandleEffect(c, g, r)
    BY <1>0, <1>3, HandleHasEffect
  <2> QED BY <1>0, <2>1 DEF HandleEffect, HandlersAreServed
<1>4. ASSUME NEW g \in Gateways, Interrupt(g) \/ Shutdown(g) \/ Crash(g)
      PROVE  FALSE
  BY <1>0, <1>4 DEF TypeOK, Interrupt, Shutdown, ShutdownMark, ShutdownReturn,
     ShutdownPersist, ShutdownSignal, Crash
<1>5. ASSUME NEW g \in Gateways, Restart(g)
      PROVE  FALSE
  <2>1. recov'[h] = NoRecov
    BY <1>0, <1>5 DEF Restart, ForgetProcess, TypeOK
  <2> QED BY <2>1 DEF NoRecov
<1>6. ASSUME NEW g \in Gateways, NEW r \in Runs, RecoverSave(g, r)
      PROVE  row'[q] # ScanOrder[k]
  <2>1. gw[h] = "recovering" /\ row'[q] \in {row[q], "failed"}
    BY <1>0, <1>6 DEF RecoverSave, SaveRunWithEvent, TypeOK
  <2>2. recov'[h].scan = recov[h].scan
    BY <1>0, <1>6 DEF RecoverSave, TypeOK
  <2> QED BY <1>1, <2>1, <2>2
<1>7. ASSUME NEW g \in Gateways, RecoverList(g)
      PROVE  row'[q] # ScanOrder[k]
  <2> DEFINE stale == {r \in Runs : row[r] = ScanOrder[recov[g].scan]}
  <2>1. g = h /\ gw[h] = "recovering" /\ row' = row
    BY <1>0, <1>7 DEF RecoverList
  <2>2. CASE \E page \in Pages(stale) : recov' = [recov EXCEPT ![g].todo = page]
    <3>1. recov'[h].scan = recov[h].scan
      BY <1>0, <2>2 DEF TypeOK
    <3> QED BY <1>1, <2>1, <3>1
  <2>3. CASE stale = {} /\ recov' = [recov EXCEPT ![g].scan = recov[g].scan + 1]
    <3>1. recov[h].scan \in 1..3 /\ recov'[h].scan = recov[h].scan + 1
      BY <1>0, <2>1, <2>3 DEF TypeOK, ScanOrder
    <3>2. k < recov[h].scan \/ k = recov[h].scan
      BY <3>1
    <3> QED BY <2>1, <2>3, <3>2 DEF RecoverInv
  <2>4. CASE recov' = [recov EXCEPT ![g] = NoRecov]
    <3>1. recov'[h] = NoRecov
      BY <1>0, <2>4 DEF TypeOK
    <3> QED BY <3>1 DEF NoRecov
  <2> QED BY <1>7, <2>2, <2>3, <2>4 DEF RecoverList
<1>8. CASE UNCHANGED vars
  BY <1>1, <1>8 DEF vars
<1> QED BY <1>2, <1>3, <1>4, <1>5, <1>6, <1>7, <1>8 DEF Next, Recover

\* One gateway: a process begins to serve only when every row it inherited
\* has left the active statuses, however the pages of the scan fall.
THEOREM RecoveryIsComplete ==
  ASSUME OneGateway
  PROVE  Spec => RecoveryLeavesNoOrphan
<1>1. Init => RecoverInv
  BY DEF Init, RecoverInv
<1>2. IInv /\ RecoverInv /\ [Next]_vars => RecoverInv'
  BY RecoverStep
<1>3. ASSUME IInv, RecoverInv, [Next]_vars
      PROVE  [\A g \in Gateways : gw[g] = "recovering" /\ gw'[g] = "serving"
                => \A r \in Runs : row'[r] \notin Active]_<<gw, row>>
  <2> SUFFICES ASSUME NEW h \in Gateways, NEW q \in Runs,
                      gw[h] = "recovering", gw'[h] = "serving"
               PROVE  row'[q] \notin Active
    OBVIOUS
  <2>0. TypeOK
    BY <1>3 DEF IInv
  <2>1. RecoverList(h)
    <3>1. ASSUME NEW g \in Gateways, NEW r \in Runs, Request(g, r) \/ Execute(g, r) \/ Finish(g, r)
          PROVE  gw' = gw
      BY <3>1 DEF Request, StartReplay, StartInsert, CancelMark, Execute, AcquireSlot,
        AbandonSlot, UpdateDropped, UpdateRunning, PersistRunning, PersistEnd,
        PersistSnapshot, InvokeStarter, Release, Finish, Update, procVars
    <3>2. ASSUME NEW c \in Calls, Handle(c) PROVE gw' = gw
      BY <3>2 DEF Handle, StartClaim, StartWithdraw, StartLaunch, CancelLoad,
        CancelDisown, CancelPersist, CancelSignal, procVars
    <3>3. ASSUME NEW g \in Gateways, Interrupt(g) \/ Shutdown(g) \/ Crash(g) \/ Restart(g)
          PROVE  gw'[h] # "serving" \/ gw'[h] = gw[h]
      BY <2>0, <3>3 DEF TypeOK, Interrupt, Shutdown, ShutdownMark, ShutdownReturn,
         ShutdownPersist, ShutdownSignal, Crash, Restart
    <3>4. ASSUME NEW g \in Gateways, NEW r \in Runs, RecoverSave(g, r)
          PROVE  gw' = gw
      BY <3>4 DEF RecoverSave
    <3> QED BY <1>3, <3>1, <3>2, <3>3, <3>4 DEF Next, Recover, OneGateway, vars
  <2> DEFINE stale == {r \in Runs : row[r] = ScanOrder[recov[h].scan]}
  <2>2. stale = {} /\ recov[h].scan = 3 /\ row' = row
    BY <2>0, <2>1 DEF RecoverList, ScanOrder, TypeOK
  <2>3. \A k \in 1..3 : row[q] # ScanOrder[k]
    BY <1>3, <2>2 DEF RecoverInv
  <2> QED BY <2>2, <2>3 DEF ScanOrder, Active
<1> QED BY <1>1, <1>2, <1>3, Invariance, PTL DEF Spec, RecoveryLeavesNoOrphan

-----------------------------------------------------------------------------
(* A cancel that was signalled decides the outcome                          *)

\* A goroutine executes the run, or the handler that will spawn it is on its
\* way: from then on nothing takes the context of the run back.
Going(g, r) ==
  \/ exec[g][r].pc # "none"
  \/ \E d \in Calls : Claimant(d, r) /\ call[d].g = g

\* A request that cancels a context has written the row before, so no Start
\* opens the run anew, and its signal lasts as long as the run goes on.
CancelInv ==
  \A c \in Calls :
    /\ call[c].pc \in {"claim", "withdraw", "launch", "load", "disown"} => ~call[c].fire
    /\ call[c].pc \in {"signal", "done"} /\ call[c].fire => row[call[c].r] # Absent
    /\ \A g \in Gateways, r \in Runs :
         call[c].pc = "done" /\ call[c].fire /\ call[c].g = g /\ call[c].r = r /\ Going(g, r)
           => ctxDone[g][r]

\* A row is never removed.
LEMMA RowKept ==
  ASSUME Effect, NEW q \in Runs, row[q] # Absent
  PROVE  row'[q] # Absent
BY DEF Effect, RequestEffect, HandleEffect, ExecuteEffect, ProcessEffect, RowsStay, vars

\* A run that has a row is not begun anew.
LEMMA GoingBefore ==
  ASSUME Effect, NEW h \in Gateways, NEW q \in Runs, row[q] # Absent, Going(h, q)'
  PROVE  Going(h, q)
<1>1. ASSUME NEW c \in Calls, NEW g \in Gateways, NEW r \in Runs, RequestEffect(c, g, r)
      PROVE  Going(h, q)
  BY <1>1 DEF RequestEffect, OtherCalls, Going, Claimant
<1>2. ASSUME NEW c \in Calls, NEW g \in Gateways, NEW r \in Runs, HandleEffect(c, g, r)
      PROVE  Going(h, q)
  <2>1. CASE call[c].pc = "launch" /\ h = g /\ q = r
    BY <1>2, <2>1 DEF HandleEffect, Going, Claimant
  <2>2. CASE ~(call[c].pc = "launch" /\ h = g /\ q = r)
    <3>1. exec'[h][q] = exec[h][q]
      BY <1>2, <2>2 DEF HandleEffect, Opening
    <3>2. ASSUME NEW d \in Calls, Claimant(d, q)', call'[d].g = h
          PROVE  Claimant(d, q) /\ call[d].g = h
      BY <1>2, <3>2 DEF HandleEffect, OtherCalls, Opening, Claimant
    <3> QED BY <3>1, <3>2 DEF Going
  <2> QED BY <2>1, <2>2
<1>3. ASSUME NEW g \in Gateways, NEW r \in Runs, ExecuteEffect(g, r), UNCHANGED call
      PROVE  Going(h, q)
  <2>1. exec[h][q].pc # "none" \/ exec'[h][q] = exec[h][q]
    BY <1>3 DEF ExecuteEffect, Moves
  <2> QED BY <1>3, <2>1 DEF Going, Claimant
<1>4. ASSUME NEW g \in Gateways, ProcessEffect(g)
      PROVE  Going(h, q)
  <2>1. exec'[h][q].pc = "none" \/ exec'[h][q] = exec[h][q]
    BY <1>4 DEF ProcessEffect, Forgets
  <2>2. ASSUME NEW d \in Calls, Claimant(d, q)', call'[d].g = h
        PROVE  Claimant(d, q) /\ call[d].g = h
    BY <1>4, <2>2 DEF ProcessEffect, Claimant, LostCall
  <2> QED BY <2>1, <2>2 DEF Going
<1> QED BY <1>1, <1>2, <1>3, <1>4 DEF Effect, vars, Going, Claimant

\* The context of a run that goes on is never made anew: a Start that puts
\* the entry into the map finds neither goroutine nor claim, and an exit
\* takes both with it.
LEMMA ContextStays ==
  ASSUME IInv, [Next]_vars, NEW h \in Gateways, NEW q \in Runs,
         ctxDone[h][q], Going(h, q)'
  PROVE  ctxDone'[h][q]
<1>0. /\ TypeOK /\ HandlersAreServed /\ ExecutingRunIsTracked
      /\ ctxDone \in [Gateways -> [Runs -> BOOLEAN]]
  BY DEF IInv, TypeOK
<1>1. ASSUME NEW c \in Starts, NEW g \in Gateways, NEW r \in Runs, StartInsert(c, g, r)
      PROVE  ctxDone'[h][q]
  <2>1. CASE ctxDone' = ctxDone
    BY <2>1
  <2>2. CASE h # g \/ q # r
    <3>1. CASE ctxDone' = [ctxDone EXCEPT ![g][r] = FALSE]
      <4>1. ctxDone'[h][q] = ctxDone[h][q]
        BY <1>0, <2>2, <3>1, Zenon
      <4> QED BY <4>1
    <3> QED BY <1>1, <2>1, <3>1 DEF StartInsert
  <2>3. CASE h = g /\ q = r /\ runs[g][r] = Absent
    <3>1. RequestEffect(c, g, r)
      BY <1>0, <1>1, RequestHasEffect DEF Calls
    <3>2. exec[g][r].pc = "none" /\ exec' = exec
      BY <1>0, <2>3, <3>1 DEF RequestEffect, ExecutingRunIsTracked, Alive
    <3>3. PICK d \in Calls : Claimant(d, r)' /\ call'[d].g = g
      BY <2>3, <3>2 DEF Going
    <3>4. call'[c].pc # "launch"
      BY <3>1 DEF RequestEffect
    <3>5. Opening(d) /\ call[d].g = g /\ call[d].r = r
      BY <3>1, <3>3, <3>4 DEF RequestEffect, OtherCalls, Claimant, Opening
    <3> QED BY <1>0, <2>3, <3>5 DEF ExecutingRunIsTracked, Active, Absent
  <2> QED BY <1>1, <2>1, <2>2, <2>3 DEF StartInsert
<1>2. ASSUME NEW g \in Gateways, NEW r \in Runs, Request(g, r)
      PROVE  ctxDone'[h][q]
  BY <1>1, <1>2 DEF Request, StartReplay, CancelMark, memVars
<1>3. ASSUME NEW g \in Gateways, NEW r \in Runs, Execute(g, r) \/ Finish(g, r)
      PROVE  ctxDone'[h][q]
  BY <1>3 DEF Execute, AcquireSlot, AbandonSlot, UpdateDropped, UpdateRunning,
     PersistRunning, PersistEnd, PersistSnapshot, InvokeStarter, Release, Finish, Update
<1>4. ASSUME NEW c \in Calls, Handle(c)
      PROVE  ctxDone'[h][q]
  <2>1. CASE CancelSignal(c)
    <3>1. call[c].g \in Gateways /\ call[c].r \in Runs
      BY <1>0, <2>1, HandlerRecord DEF CancelSignal, CallPC
    <3> QED BY <1>0, <2>1, <3>1 DEF CancelSignal
  <2>2. CASE ~CancelSignal(c)
    BY <1>4, <2>2 DEF Handle, StartClaim, StartWithdraw, StartLaunch, CancelLoad,
       CancelDisown, CancelPersist, memVars
  <2> QED BY <2>1, <2>2
<1>5. ASSUME NEW g \in Gateways, Interrupt(g) \/ Shutdown(g) \/ Recover(g)
      PROVE  ctxDone'[h][q]
  <2>1. ASSUME NEW r \in Runs, ShutdownSignal(g, r)
        PROVE  ctxDone'[h][q]
    BY <1>0, <2>1 DEF ShutdownSignal
  <2> QED BY <1>5, <2>1 DEF Interrupt, Shutdown, ShutdownMark, ShutdownReturn,
          ShutdownPersist, Recover, RecoverList, RecoverSave, memVars
<1>6. ASSUME NEW g \in Gateways, Crash(g) \/ Restart(g)
      PROVE  ctxDone'[h][q]
  <2>1. CASE h # g
    BY <1>0, <1>6, <2>1 DEF Crash, Restart, ForgetProcess
  <2>2. CASE h = g
    <3>1. exec'[h][q].pc = "none"
      BY <1>0, <1>6, <2>2 DEF Crash, Restart, ForgetProcess, TypeOK, NoExec
    <3>2. PICK d \in Calls : Claimant(d, q)' /\ call'[d].g = h
      BY <3>1 DEF Going
    <3>3. call'[d] = call[d] /\ (d \notin Handlers(g) \/ Restart(g))
      BY <1>6, <3>2 DEF Crash, Restart, Claimant, LostCall
    <3>4. Working(d) /\ call[d].g = g
      BY <2>2, <3>2, <3>3 DEF Working, Claimant
    <3>5. Restart(g) /\ gw[g] \in {"serving", "draining"}
      BY <1>0, <3>3, <3>4 DEF Handlers, HandlersAreServed
    <3> QED BY <3>5 DEF Restart
  <2> QED BY <2>1, <2>2
<1> QED BY <1>2, <1>3, <1>4, <1>5, <1>6 DEF Next, vars

\* Only a cancel that found the run active calls cancel() later.
LEMMA RequestFires ==
  ASSUME TypeOK, NEW c \in Calls, NEW g \in Gateways, NEW r \in Runs,
         StartReplay(c, g, r) \/ StartInsert(c, g, r) \/ CancelMark(c, g, r)
  PROVE  call'[c].pc = "persist" \/ (call'[c].pc \in CallPC /\ ~call'[c].fire)
<1>1. call \in [Calls -> CallType]
  BY DEF TypeOK, CallType
<1>2. ASSUME NEW pc, NEW snap, NEW fire, NEW reply,
             call' = [call EXCEPT ![c] = NewCall(pc, g, r, snap, fire, reply)]
      PROVE  call'[c].pc = pc /\ call'[c].fire = fire
  BY <1>1, <1>2 DEF NewCall
<1>3. CASE StartReplay(c, g, r)
  BY <1>2, <1>3 DEF StartReplay, CallPC
<1>4. CASE StartInsert(c, g, r)
  <2>1. \/ call' = [call EXCEPT ![c] = NewCall("done", g, r, "queued", FALSE, Duplicate(r))]
        \/ call' = [call EXCEPT ![c] = NewCall("claim", g, r, "queued", FALSE, "none")]
    BY <1>4 DEF StartInsert
  <2>2. CASE call' = [call EXCEPT ![c] = NewCall("done", g, r, "queued", FALSE, Duplicate(r))]
    BY <1>2, <2>2 DEF CallPC
  <2>3. CASE call' = [call EXCEPT ![c] = NewCall("claim", g, r, "queued", FALSE, "none")]
    BY <1>2, <2>3 DEF CallPC
  <2> QED BY <2>1, <2>2, <2>3
<1>5. CASE CancelMark(c, g, r)
  <2>1. \/ call' = [call EXCEPT ![c] = NewCall("load", g, r, "cancelled", FALSE, "none")]
        \/ call' = [call EXCEPT ![c] = NewCall("persist", g, r, "cancelling", TRUE, "none")]
        \/ call' = [call EXCEPT ![c] = NewCall("persist", g, r, runs[g][r], FALSE, "none")]
    BY <1>5 DEF CancelMark
  <2>2. CASE call' = [call EXCEPT ![c] = NewCall("load", g, r, "cancelled", FALSE, "none")]
    BY <1>2, <2>2 DEF CallPC
  <2>3. CASE call' = [call EXCEPT ![c] = NewCall("persist", g, r, "cancelling", TRUE, "none")]
    BY <1>2, <2>3
  <2>4. CASE call' = [call EXCEPT ![c] = NewCall("persist", g, r, runs[g][r], FALSE, "none")]
    BY <1>2, <2>4
  <2> QED BY <2>1, <2>2, <2>3, <2>4
<1> QED BY <1>3, <1>4, <1>5

\* A handler keeps its decision until it has cancelled the context.
LEMMA HandleFires ==
  ASSUME TypeOK, NEW c \in Calls, Handle(c)
  PROVE  /\ call'[c].fire = call[c].fire
         /\ call[c].pc = "signal" /\ call[c].fire => ctxDone'[call[c].g][call[c].r]
<1> DEFINE g == call[c].g
           r == call[c].r
<1>0. call[c].pc \in CallPC
  BY DEF Handle, CallPC, StartClaim, StartWithdraw, StartLaunch,
         CancelLoad, CancelDisown, CancelPersist, CancelSignal
<1>1. call[c] \in CallRecord /\ g \in Gateways /\ r \in Runs
  BY <1>0, HandlerRecord
<1>2. /\ call \in [Calls -> CallType]
      /\ ctxDone \in [Gateways -> [Runs -> BOOLEAN]]
  BY DEF TypeOK, CallType
<1>3. ASSUME NEW pc, Step(c, pc)
      PROVE  call'[c].fire = call[c].fire
  <2>1. call'[c] = [call[c] EXCEPT !.pc = pc]
    BY <1>2, <1>3 DEF Step
  <2> QED BY <1>1, <2>1 DEF CallRecord
<1>4. ASSUME NEW pc, NEW reply, call' = [call EXCEPT ![c].pc = pc, ![c].reply = reply]
      PROVE  call'[c].fire = call[c].fire
  <2>1. call'[c] = [call[c] EXCEPT !.pc = pc, !.reply = reply]
    BY <1>2, <1>4
  <2> QED BY <1>1, <2>1 DEF CallRecord
<1>5. call'[c].fire = call[c].fire
  BY <1>3, <1>4 DEF Handle, StartClaim, StartWithdraw, StartLaunch,
     CancelLoad, CancelDisown, CancelPersist, CancelSignal, Answer
<1>6. ASSUME call[c].pc = "signal", call[c].fire
      PROVE  ctxDone'[g][r]
  <2>1. CancelSignal(c)
    BY <1>6 DEF Handle, StartClaim, StartWithdraw, StartLaunch,
       CancelLoad, CancelDisown, CancelPersist
  <2>2. ctxDone' = [ctxDone EXCEPT ![g][r] = ctxDone[g][r] \/ call[c].fire]
    BY <2>1 DEF CancelSignal
  <2>3. ctxDone'[g][r] = (ctxDone[g][r] \/ call[c].fire)
    <3> HIDE DEF g, r
    <3> QED BY <1>1, <1>2, <2>2, Zenon
  <2> QED BY <1>6, <2>3
<1> QED BY <1>5, <1>6

\* What CancelInv asks of the request whose step it is.
LEMMA CancelOwnStep ==
  ASSUME StoreMayRefuse = FALSE, IInv, CancelInv, NEW c \in Calls, Handle(c)
  PROVE  /\ call'[c].pc \in {"claim", "withdraw", "launch", "load", "disown"} => ~call'[c].fire
         /\ call'[c].pc \in {"signal", "done"} /\ call'[c].fire => row'[call'[c].r] # Absent
         /\ call'[c].pc = "done" /\ call'[c].fire => ctxDone'[call'[c].g][call'[c].r]
<1>0. TypeOK
  BY DEF IInv
<1>1. PICK g \in Gateways, r \in Runs : HandleEffect(c, g, r)
  BY <1>0, HandleHasEffect
<1>2. /\ call[c].g = g /\ call[c].r = r /\ call'[c].g = g /\ call'[c].r = r
      /\ HandleWrites(c, g, r)
  BY <1>0, <1>1, HandleHasWrites DEF HandleEffect
<1>3. call'[c].fire = call[c].fire
  BY <1>0, HandleFires
<1>4. CASE call[c].pc \in {"claim", "withdraw", "launch", "load", "disown"}
  BY <1>3, <1>4 DEF CancelInv
<1>5. CASE call[c].pc = "persist"
  <2>1. call[c].snap \in Status
    BY <1>0, <1>5, HandlerRecord DEF CallPC
  <2>2. CancelPersist(c)
    BY <1>5 DEF Handle, StartClaim, StartWithdraw, StartLaunch, CancelLoad,
       CancelDisown, CancelSignal
  <2>3. call'[c].pc = "signal"
    <3>1. call'[c] = [call[c] EXCEPT !.pc = "signal"]
      BY <1>0, <2>2 DEF CancelPersist, Step, TypeOK
    <3>2. call[c] \in CallRecord
      BY <1>0, <1>5, HandlerRecord DEF CallPC
    <3> QED BY <3>1, <3>2 DEF CallRecord
  <2>4. row'[r] = call[c].snap
    BY <1>2, <1>5, <2>3 DEF HandleWrites, Wrote
  <2> QED BY <1>2, <2>1, <2>3, <2>4, StatusFacts
<1>6. CASE call[c].pc = "signal"
  <2>1. CancelSignal(c)
    BY <1>6 DEF Handle, StartClaim, StartWithdraw, StartLaunch, CancelLoad,
       CancelDisown, CancelPersist
  <2>2. call'[c].pc = "done" /\ row' = row
    <3>1. call'[c] = [call[c] EXCEPT !.pc = "done", !.reply = call[c].snap]
      BY <1>0, <2>1 DEF CancelSignal, Answer, TypeOK
    <3>2. call[c] \in CallRecord
      BY <1>0, <1>6, HandlerRecord DEF CallPC
    <3> QED BY <2>1, <3>1, <3>2 DEF CallRecord, CancelSignal
  <2> QED BY <1>0, <1>2, <1>3, <1>6, <2>2, HandleFires DEF CancelInv
<1> QED BY <1>4, <1>5, <1>6 DEF Handle, StartClaim, StartWithdraw, StartLaunch,
        CancelLoad, CancelDisown, CancelPersist, CancelSignal

\* CancelInv is inductive over IInv.
LEMMA CancelStep ==
  ASSUME StoreMayRefuse = FALSE, IInv, CancelInv, [Next]_vars
  PROVE  CancelInv'
<1>0. TypeOK /\ Effect
  BY StepHasEffect DEF IInv
<1> SUFFICES ASSUME NEW c \in Calls
             PROVE  /\ call'[c].pc \in {"claim", "withdraw", "launch", "load", "disown"}
                         => ~call'[c].fire
                    /\ call'[c].pc \in {"signal", "done"} /\ call'[c].fire
                         => row'[call'[c].r] # Absent
                    /\ \A g \in Gateways, r \in Runs :
                         /\ call'[c].pc = "done" /\ call'[c].fire
                         /\ call'[c].g = g /\ call'[c].r = r /\ Going(g, r)'
                         => ctxDone'[g][r]
  BY DEF CancelInv
<1> DEFINE Goal ==
      /\ call'[c].pc \in {"claim", "withdraw", "launch", "load", "disown"}
           => ~call'[c].fire
      /\ call'[c].pc \in {"signal", "done"} /\ call'[c].fire
           => row'[call'[c].r] # Absent
      /\ \A g \in Gateways, r \in Runs :
           /\ call'[c].pc = "done" /\ call'[c].fire
           /\ call'[c].g = g /\ call'[c].r = r /\ Going(g, r)'
           => ctxDone'[g][r]
<1>1. ASSUME call'[c] = call[c]
      PROVE  Goal
  <2>1. ASSUME call[c].pc \in {"signal", "done"}, call[c].fire
        PROVE  call[c].r \in Runs /\ row[call[c].r] # Absent
    BY <1>0, <2>1, HandlerRecord DEF CallPC, CancelInv
  <2>2. call[c].pc \in {"signal", "done"} /\ call[c].fire => row'[call[c].r] # Absent
    BY <1>0, <2>1, RowKept
  <2>3. ASSUME NEW g \in Gateways, NEW r \in Runs, call[c].pc = "done", call[c].fire,
               call[c].g = g, call[c].r = r, Going(g, r)'
        PROVE  ctxDone'[g][r]
    <3>1. Going(g, r)
      BY <1>0, <2>1, <2>3, GoingBefore
    <3>2. ctxDone[g][r]
      BY <2>3, <3>1 DEF CancelInv
    <3> QED BY <2>3, <3>2, ContextStays
  <2> QED BY <1>1, <2>2, <2>3 DEF CancelInv
<1>2. ASSUME NEW g \in Gateways, NEW r \in Runs, Request(g, r)
      PROVE  Goal
  <2>1. PICK d \in Calls : StartReplay(d, g, r) \/ StartInsert(d, g, r) \/ CancelMark(d, g, r)
    BY <1>2 DEF Request, Calls
  <2>2. CASE d # c
    <3>1. RequestEffect(d, g, r)
      BY <1>0, <2>1, RequestHasEffect
    <3> QED BY <1>1, <2>2, <3>1 DEF RequestEffect, OtherCalls
  <2>3. CASE d = c
    <3>1. call'[c].pc = "persist" \/ ~call'[c].fire
      BY <1>0, <2>1, <2>3, RequestFires
    <3> QED BY <3>1
  <2> QED BY <2>2, <2>3
<1>3. ASSUME NEW d \in Calls, Handle(d)
      PROVE  Goal
  <2>1. CASE d # c
    <3>1. PICK g \in Gateways, r \in Runs : HandleEffect(d, g, r)
      BY <1>0, <1>3, HandleHasEffect
    <3> QED BY <1>1, <2>1, <3>1 DEF HandleEffect, OtherCalls
  <2>2. CASE d = c
    BY <1>3, <2>2, CancelOwnStep
  <2> QED BY <2>1, <2>2
<1>4. ASSUME NEW g \in Gateways, NEW r \in Runs, Execute(g, r) \/ Finish(g, r)
      PROVE  Goal
  <2>1. call' = call
    BY <1>0, <1>4, ExecuteHasEffect DEF IInv
  <2> QED BY <1>1, <2>1
<1>5. ASSUME NEW g \in Gateways,
             Interrupt(g) \/ Shutdown(g) \/ Crash(g) \/ Restart(g) \/ Recover(g)
      PROVE  Goal
  <2>1. ProcessEffect(g)
    BY <1>0, <1>5, ProcessHasEffect DEF IInv
  <2>2. call'[c] = call[c] \/ call'[c].pc = "lost"
    BY <2>1 DEF ProcessEffect, LostCall
  <2> QED BY <1>1, <2>2
<1>6. CASE UNCHANGED vars
  BY <1>1, <1>6 DEF vars
<1> QED BY <1>2, <1>3, <1>4, <1>5, <1>6 DEF Next

\* A run whose context is done gets no outcome in memory but cancelled.
LEMMA DoneContextWins ==
  ASSUME IInv, [Next]_vars, NEW g \in Gateways, NEW r \in Runs, ctxDone[g][r],
         runs[g][r] \notin Terminal, runs'[g][r] \in Terminal
  PROVE  runs'[g][r] = "cancelled"
<1>0. TypeOK /\ runs \in [Gateways -> [Runs -> Status \cup {Absent}]]
  BY DEF IInv, TypeOK, StatusMap
<1>1. /\ "queued" \notin Terminal /\ "running" \notin Terminal
      /\ "cancelling" \notin Terminal /\ Absent \notin Terminal
  BY DEF Terminal, Absent
<1>2. ASSUME NEW h \in Gateways, NEW q \in Runs, Request(h, q)
      PROVE  FALSE
  <2>1. PICK d \in Calls : RequestEffect(d, h, q)
    BY <1>0, <1>2, RequestHasEffect DEF Request, Calls
  <2> QED BY <1>1, <2>1 DEF RequestEffect, OtherRuns
<1>3. ASSUME NEW d \in Calls, Handle(d)
      PROVE  FALSE
  <2>1. PICK h \in Gateways, q \in Runs : HandleEffect(d, h, q)
    BY <1>0, <1>3, HandleHasEffect
  <2> QED BY <1>1, <2>1 DEF HandleEffect, OtherRuns
<1>4. ASSUME NEW h \in Gateways, NEW q \in Runs, Execute(h, q) \/ Finish(h, q)
      PROVE  runs'[g][r] = "cancelled"
  <2>1. ASSUME NEW status, NEW to, Update(h, q, status, to)
        PROVE  h = g /\ q = r /\ runs'[g][r] = status
    BY <1>0, <2>1 DEF Update
  <2>2. CASE UpdateDropped(h, q)
    BY <2>1, <2>2 DEF UpdateDropped
  <2>3. CASE UpdateRunning(h, q)
    BY <1>1, <2>1, <2>3 DEF UpdateRunning
  <2>4. CASE Finish(h, q)
    BY <2>1, <2>4 DEF Finish, Outcomes
  <2>5. CASE ~(UpdateDropped(h, q) \/ UpdateRunning(h, q) \/ Finish(h, q))
    BY <1>4, <2>5 DEF Execute, AcquireSlot, AbandonSlot, PersistRunning, InvokeStarter,
       PersistEnd, PersistSnapshot, Release
  <2> QED BY <2>2, <2>3, <2>4, <2>5
<1>5. ASSUME NEW h \in Gateways,
             Interrupt(h) \/ Shutdown(h) \/ Crash(h) \/ Restart(h) \/ Recover(h)
      PROVE  FALSE
  <2>1. ProcessEffect(h)
    BY <1>0, <1>5, ProcessHasEffect DEF IInv
  <2> QED BY <1>1, <2>1 DEF ProcessEffect, Forgets
<1> QED BY <1>2, <1>3, <1>4, <1>5 DEF Next, vars

\* Any number of gateways whose store accepts every write: a client whose
\* cancel was carried out before the run ended sees it end as cancelled.
THEOREM CancelDecides ==
  ASSUME StoreMayRefuse = FALSE
  PROVE  Spec => CancelWins
<1>1. Init => CancelInv
  BY DEF Init, CancelInv, IdleCall
<1>2. IInv /\ CancelInv /\ [Next]_vars => CancelInv'
  BY CancelStep
<1>3. ASSUME IInv, CancelInv, [Next]_vars
      PROVE  [\A c \in Calls, g \in Gateways, r \in Runs :
                (/\ call[c].pc = "done" /\ call[c].g = g /\ call[c].r = r
                 /\ call[c].fire /\ exec[g][r].pc # "none"
                 /\ runs[g][r] \notin Terminal /\ runs'[g][r] \in Terminal)
                  => runs'[g][r] = "cancelled"]_<<runs, call>>
  BY <1>3, DoneContextWins DEF CancelInv, Going
<1> QED BY <1>1, <1>2, <1>3, Invariance, PTL DEF Spec, CancelWins
=============================================================================

-------------------------- MODULE RunManagerProofs --------------------------
(***************************************************************************)
(* Theorems about RunManager, for every set of gateways, runs and requests *)
(* and every limit.  The argument:                                         *)
(*   - the type lemmas show that each action keeps TypeOK;                 *)
(*   - the effect predicates (RequestEffect, HandleEffect, ExecuteEffect,  *)
(*     ProcessEffect) say of each group of actions the little that the     *)
(*     other invariants depend on, and StepHasEffect that they cover Next; *)
(*   - one lemma per part of IInv shows that an Effect preserves it;       *)
(*   - the theorems at the end follow from IInv by temporal logic.         *)
(***************************************************************************)
EXTENDS RunManager, TLAPS, FiniteSetTheorems

CallType == CallRecord \cup {IdleCall, LostCall}

-----------------------------------------------------------------------------
(* Lemmas on the types of records and of updated functions                  *)

\* Where the literal statuses of the code belong.
LEMMA StatusFacts ==
  /\ Absent \notin Status
  /\ {"queued", "running", "cancelling", "completed", "failed", "cancelled"}
       \subseteq Status
  /\ Status \subseteq Reply
  /\ {"none", "accepted", "reused", "conflict", "error"} \subseteq Reply
  /\ Active \subseteq Status /\ Terminal \subseteq Status
  /\ Active \cap Terminal = {}
BY DEF Status, Active, Terminal, Absent, Reply

\* A handler's record is well typed when its fields are.
LEMMA NewCallType ==
  ASSUME NEW pc \in CallPC, NEW g \in Gateways, NEW r \in Runs,
         NEW snap \in Status, NEW fire \in BOOLEAN,
         NEW reply \in Reply
  PROVE  NewCall(pc, g, r, snap, fire, reply) \in CallRecord
BY DEF NewCall, CallRecord

\* A request with a program counter of the code has a handler's record.
LEMMA HandlerRecord ==
  ASSUME TypeOK, NEW c \in Calls, call[c].pc \in CallPC
  PROVE  /\ call[c] \in CallRecord
         /\ call[c].g \in Gateways /\ call[c].r \in Runs
         /\ call[c].snap \in Status
         /\ call[c].fire \in BOOLEAN
         /\ call[c].reply \in Reply
<1>1. call[c] \in CallType
  BY DEF TypeOK, CallType
<1>2. call[c] # IdleCall /\ call[c] # LostCall
  BY DEF IdleCall, LostCall, CallPC
<1>3. call[c] \in CallRecord
  BY <1>1, <1>2 DEF CallType
<1> QED BY <1>3 DEF CallRecord

\* Step and Answer keep the requests well typed.
LEMMA StepType ==
  ASSUME TypeOK, NEW c \in Calls, call[c].pc \in CallPC,
         NEW pc \in CallPC, Step(c, pc)
  PROVE  call' \in [Calls -> CallType]
<1>1. [call[c] EXCEPT !.pc = pc] \in CallRecord
  BY HandlerRecord DEF CallRecord
<1> QED BY <1>1 DEF Step, TypeOK, CallType

\* ... also when a handler changes its reply in the same step.
LEMMA AnswerType ==
  ASSUME TypeOK, NEW c \in Calls, call[c].pc \in CallPC,
         NEW reply \in Reply, NEW pc \in CallPC,
         call' = [call EXCEPT ![c].pc = pc, ![c].reply = reply]
  PROVE  call' \in [Calls -> CallType]
<1>1. [call[c] EXCEPT !.pc = pc, !.reply = reply] \in CallRecord
  BY HandlerRecord DEF CallRecord
<1> QED BY <1>1 DEF TypeOK, CallType

\* A record of an execute goroutine with one or more fields replaced.
LEMMA ExecUpdateType ==
  ASSUME NEW rec \in ExecRecord, NEW pc \in ExecPC, NEW slot \in BOOLEAN,
         NEW snap \in Status
  PROVE  /\ [rec EXCEPT !.pc = pc] \in ExecRecord
         /\ [rec EXCEPT !.pc = pc, !.slot = slot] \in ExecRecord
         /\ [rec EXCEPT !.pc = pc, !.snap = snap] \in ExecRecord
BY DEF ExecRecord

\* A function of two arguments, updated at one point.
LEMMA UpdateType ==
  ASSUME NEW A, NEW B, NEW S, NEW f \in [A -> [B -> S]],
         NEW a \in A, NEW b \in B, NEW v \in S
  PROVE  [f EXCEPT ![a][b] = v] \in [A -> [B -> S]]
OBVIOUS

\* Setting the status of one run of one gateway, in m.runs or on the feed.
LEMMA StatusMapUpdate ==
  ASSUME NEW f \in StatusMap, NEW g \in Gateways, NEW r \in Runs,
         NEW status \in Status \cup {Absent}
  PROVE  [f EXCEPT ![g][r] = status] \in StatusMap
BY UpdateType DEF StatusMap

\* Setting a flag of one run of one gateway, as cancel() does.
LEMMA FlagUpdate ==
  ASSUME NEW f \in [Gateways -> [Runs -> BOOLEAN]], NEW g \in Gateways,
         NEW r \in Runs, NEW v \in BOOLEAN
  PROVE  [f EXCEPT ![g][r] = v] \in [Gateways -> [Runs -> BOOLEAN]]
BY UpdateType, Zenon

-----------------------------------------------------------------------------
(* Every action preserves TypeOK                                            *)

\* The first step of a start or cancel request keeps every type.
LEMMA TypeRequest ==
  ASSUME TypeOK, NEW g \in Gateways, NEW r \in Runs, NEW c \in Calls,
         StartReplay(c, g, r) \/ StartInsert(c, g, r) \/ CancelMark(c, g, r)
  PROVE  TypeOK'
<1> USE StatusFacts
<1>1. CASE StartReplay(c, g, r)
  <2>1. NewCall("done", g, r, "queued", FALSE, "reused") \in CallRecord
    BY NewCallType DEF CallPC
  <2> QED BY <1>1, <2>1 DEF TypeOK, StartReplay, procVars, memVars
<1>2. CASE StartInsert(c, g, r)
  <2>1. NewCall("done", g, r, "queued", FALSE, Duplicate(r)) \in CallRecord
    BY NewCallType DEF CallPC, Duplicate
  <2>2. NewCall("claim", g, r, "queued", FALSE, "none") \in CallRecord
    BY NewCallType DEF CallPC
  <2>3. call' \in [Calls -> CallType]
    BY <1>2, <2>1, <2>2 DEF TypeOK, StartInsert, CallType
  <2>4. ctxDone' \in [Gateways -> [Runs -> BOOLEAN]]
    <3>1. ctxDone \in [Gateways -> [Runs -> BOOLEAN]] /\ FALSE \in BOOLEAN
      BY DEF TypeOK
    <3>2. [ctxDone EXCEPT ![g][r] = FALSE] \in [Gateways -> [Runs -> BOOLEAN]]
      BY <3>1, FlagUpdate, Zenon
    <3> QED BY <1>2, <3>1, <3>2, Zenon DEF StartInsert
  <2>5. runs' \in StatusMap
    <3>1. [runs EXCEPT ![g][r] = "queued"] \in StatusMap
      BY StatusMapUpdate DEF TypeOK
    <3> QED BY <1>2, <3>1 DEF TypeOK, StartInsert
  <2>6. UNCHANGED <<procVars, slots, exec, row, logged, feed, started>>
    BY <1>2 DEF StartInsert
  <2> QED BY <2>3, <2>4, <2>5, <2>6 DEF TypeOK, procVars, CallType
<1>3. CASE CancelMark(c, g, r)
  <2>1. NewCall("load", g, r, "cancelled", FALSE, "none") \in CallRecord
    BY NewCallType DEF CallPC
  <2>2. NewCall("persist", g, r, "cancelling", TRUE, "none") \in CallRecord
    BY NewCallType DEF CallPC
  <2>4. ASSUME runs[g][r] \in Terminal \cup {"cancelling"}
        PROVE  NewCall("persist", g, r, runs[g][r], FALSE, "none") \in CallRecord
    BY <2>4, NewCallType DEF CallPC
  <2>5. call' \in [Calls -> CallType]
    BY <1>3, <2>1, <2>2, <2>4 DEF TypeOK, CancelMark, CallType
  <2>6. runs' \in StatusMap
    <3>1. [runs EXCEPT ![g][r] = "cancelling"] \in StatusMap
      BY StatusMapUpdate DEF TypeOK
    <3> QED BY <1>3, <3>1 DEF TypeOK, CancelMark
  <2>7. UNCHANGED <<procVars, ctxDone, slots, exec, row, logged, feed, started>>
    BY <1>3 DEF CancelMark
  <2> QED BY <2>5, <2>6, <2>7 DEF TypeOK, procVars, CallType
<1> QED BY <1>1, <1>2, <1>3

\* A write of a row leaves the table well typed.
LEMMA RowUpdate ==
  ASSUME TypeOK, NEW r \in Runs, NEW status \in Status \cup {Absent},
         SaveRunWithEvent(r, status)
  PROVE  /\ row' \in [Runs -> Status \cup {Absent}]
         /\ logged' \in [Runs -> SUBSET Terminal]
BY DEF TypeOK, SaveRunWithEvent

\* Every later step of a handler of Start or Cancel keeps every type.
LEMMA TypeHandle ==
  ASSUME TypeOK, NEW c \in Calls, Handle(c)
  PROVE  TypeOK'
<1> USE StatusFacts
<1> DEFINE g == call[c].g
           r == call[c].r
<1>1. CASE StartClaim(c)
  <2>1. call[c].pc \in CallPC /\ g \in Gateways /\ r \in Runs
    BY <1>1, HandlerRecord DEF StartClaim, CallPC
  <2>2. call' \in [Calls -> CallType]
    <3>1. CASE Step(c, "launch")
      BY <2>1, <3>1, StepType DEF CallPC
    <3>2. CASE call' = [call EXCEPT ![c].pc = "withdraw", ![c].reply = Duplicate(r)]
      BY <2>1, <3>2, AnswerType DEF CallPC, Duplicate
    <3>3. CASE call' = [call EXCEPT ![c].pc = "withdraw", ![c].reply = "error"]
      BY <2>1, <3>3, AnswerType DEF CallPC
    <3> QED BY <1>1, <3>1, <3>2, <3>3 DEF StartClaim
  <2>3. /\ row' \in [Runs -> Status \cup {Absent}]
        /\ logged' \in [Runs -> SUBSET Terminal]
    <3>1. CASE SaveRunWithEvent(r, "queued")
      BY <2>1, <3>1, RowUpdate
    <3>2. CASE UNCHANGED <<row, logged>>
      BY <3>2 DEF TypeOK
    <3> QED BY <1>1, <3>1, <3>2 DEF StartClaim, ClaimRunWithEvent
  <2>4. UNCHANGED <<procVars, memVars, feed, started>>
    BY <1>1 DEF StartClaim
  <2> QED BY <2>2, <2>3, <2>4 DEF TypeOK, procVars, memVars, CallType
<1>2. CASE StartWithdraw(c)
  <2>1. call[c].pc \in CallPC /\ g \in Gateways /\ r \in Runs /\ call[c].reply \in Reply
    BY <1>2, HandlerRecord DEF StartWithdraw, CallPC
  <2>2. call' \in [Calls -> CallType]
    BY <1>2, <2>1, AnswerType DEF StartWithdraw, Answer, CallPC
  <2>3. runs' \in StatusMap
    <3>1. [runs EXCEPT ![g][r] = Absent] \in StatusMap
      BY <2>1, StatusMapUpdate DEF TypeOK
    <3> QED BY <1>2, <3>1 DEF StartWithdraw
  <2>4. UNCHANGED <<procVars, ctxDone, slots, exec, row, logged, feed, started>>
    BY <1>2 DEF StartWithdraw
  <2> QED BY <2>2, <2>3, <2>4 DEF TypeOK, procVars, CallType
<1>3. CASE StartLaunch(c)
  <2>1. call[c].pc \in CallPC /\ g \in Gateways /\ r \in Runs
    BY <1>3, HandlerRecord DEF StartLaunch, CallPC
  <2>2. call' \in [Calls -> CallType]
    BY <1>3, <2>1, AnswerType DEF StartLaunch, Answer, CallPC
  <2>3. feed' \in StatusMap
    <3>1. [feed EXCEPT ![g][r] = "queued"] \in StatusMap
      BY <2>1, StatusMapUpdate DEF TypeOK
    <3> QED BY <1>3, <3>1 DEF StartLaunch
  <2>4. exec' \in [Gateways -> [Runs -> ExecRecord]]
    <3> DEFINE rec == [NoExec EXCEPT !.pc = "slot"]
    <3>1. rec \in ExecRecord
      BY DEF NoExec, ExecRecord, ExecPC
    <3>2. exec' = [exec EXCEPT ![g][r] = rec] /\ exec \in [Gateways -> [Runs -> ExecRecord]]
      BY <1>3 DEF StartLaunch, TypeOK
    <3> HIDE DEF rec, g, r
    <3> QED BY <2>1, <3>1, <3>2, UpdateType
  <2>5. UNCHANGED <<procVars, runs, ctxDone, slots, row, logged, started>>
    BY <1>3 DEF StartLaunch
  <2> QED BY <2>2, <2>3, <2>4, <2>5 DEF TypeOK, procVars, CallType
<1>4. CASE CancelLoad(c)
  <2>1. call[c].pc \in CallPC /\ g \in Gateways /\ r \in Runs
    BY <1>4, HandlerRecord DEF CancelLoad, CallPC
  <2>2. call' \in [Calls -> CallType]
    <3>1. CASE Answer(c, "error")
      BY <2>1, <3>1, AnswerType DEF Answer, CallPC
    <3>2. CASE row[r] \in Terminal /\ Answer(c, row[r])
      BY <2>1, <3>2, AnswerType DEF Answer, CallPC
    <3>3. CASE Step(c, "disown")
      BY <2>1, <3>3, StepType DEF CallPC
    <3> QED BY <1>4, <3>1, <3>2, <3>3 DEF CancelLoad
  <2>3. UNCHANGED <<procVars, memVars, row, logged, feed, started>>
    BY <1>4 DEF CancelLoad
  <2> QED BY <2>2, <2>3 DEF TypeOK, procVars, memVars, CallType
<1>5. CASE CancelDisown(c)
  <2>1. call[c].pc \in CallPC /\ g \in Gateways /\ r \in Runs
    BY <1>5, HandlerRecord DEF CancelDisown, CallPC
  <2>2. call' \in [Calls -> CallType]
    <3>1. CASE Answer(c, "error")
      BY <2>1, <3>1, AnswerType DEF Answer, CallPC
    <3>2. CASE Answer(c, "cancelled")
      BY <2>1, <3>2, AnswerType DEF Answer, CallPC
    <3> QED BY <1>5, <3>1, <3>2 DEF CancelDisown
  <2>3. /\ row' \in [Runs -> Status \cup {Absent}]
        /\ logged' \in [Runs -> SUBSET Terminal]
    <3>1. CASE SaveRunWithEvent(r, "cancelled")
      BY <2>1, <3>1, RowUpdate
    <3>2. CASE UNCHANGED <<row, logged>>
      BY <3>2 DEF TypeOK
    <3> QED BY <1>5, <3>1, <3>2 DEF CancelDisown
  <2>4. UNCHANGED <<procVars, memVars, feed, started>>
    BY <1>5 DEF CancelDisown
  <2> QED BY <2>2, <2>3, <2>4 DEF TypeOK, procVars, memVars, CallType
<1>6. CASE CancelPersist(c)
  <2>1. call[c].pc \in CallPC /\ r \in Runs /\ call[c].snap \in Status
    BY <1>6, HandlerRecord DEF CancelPersist, CallPC
  <2>2. call' \in [Calls -> CallType]
    BY <1>6, <2>1, StepType DEF CancelPersist, CallPC
  <2>3. /\ row' \in [Runs -> Status \cup {Absent}]
        /\ logged' \in [Runs -> SUBSET Terminal]
    <3>1. CASE SaveRunWithEvent(r, call[c].snap)
      BY <2>1, <3>1, RowUpdate
    <3>2. CASE UNCHANGED <<row, logged>>
      BY <3>2 DEF TypeOK
    <3> QED BY <1>6, <3>1, <3>2 DEF CancelPersist
  <2>4. UNCHANGED <<procVars, memVars, feed, started>>
    BY <1>6 DEF CancelPersist
  <2> QED BY <2>2, <2>3, <2>4 DEF TypeOK, procVars, memVars, CallType
<1>7. CASE CancelSignal(c)
  <2>1. /\ call[c].pc \in CallPC /\ g \in Gateways /\ r \in Runs
        /\ call[c].snap \in Status /\ call[c].fire \in BOOLEAN
    BY <1>7, HandlerRecord DEF CancelSignal, CallPC
  <2>2. call[c].snap \in Reply
    BY <2>1 DEF Reply
  <2>3. call' \in [Calls -> CallType]
    BY <1>7, <2>1, <2>2, AnswerType DEF CancelSignal, Answer, CallPC
  <2>4. feed' \in StatusMap
    <3>1. [feed EXCEPT ![g][r] = call[c].snap] \in StatusMap
      BY <2>1, StatusMapUpdate DEF TypeOK
    <3> QED BY <1>7, <3>1 DEF CancelSignal
  <2>5. ctxDone' \in [Gateways -> [Runs -> BOOLEAN]]
    <3>1. ctxDone \in [Gateways -> [Runs -> BOOLEAN]]
      BY DEF TypeOK
    <3>2. (ctxDone[g][r] \/ call[c].fire) \in BOOLEAN
      OBVIOUS
    <3>3. ctxDone' = [ctxDone EXCEPT ![g][r] = ctxDone[g][r] \/ call[c].fire]
      BY <1>7 DEF CancelSignal
    <3> HIDE DEF g, r
    <3> QED BY <2>1, <3>1, <3>2, <3>3, FlagUpdate, Zenon
  <2>6. UNCHANGED <<procVars, runs, slots, exec, row, logged, started>>
    BY <1>7 DEF CancelSignal
  <2> QED BY <2>3, <2>4, <2>5, <2>6 DEF TypeOK, procVars, CallType
<1> QED BY <1>1, <1>2, <1>3, <1>4, <1>5, <1>6, <1>7 DEF Handle

\* Every step of an execute goroutine keeps every type; for Release this
\* needs SlotAccounting: a count that is given back was not zero.
LEMMA TypeExecute ==
  ASSUME TypeOK, SlotAccounting, NEW g \in Gateways, NEW r \in Runs,
         Execute(g, r) \/ Finish(g, r)
  PROVE  TypeOK'
<1> USE StatusFacts
<1>0. /\ exec[g][r] \in ExecRecord
      /\ exec[g][r].snap \in Status
      /\ exec \in [Gateways -> [Runs -> ExecRecord]]
  BY DEF TypeOK, ExecRecord
<1>1. ASSUME NEW pc \in ExecPC, ExecStep(g, r, pc)
      PROVE  exec' \in [Gateways -> [Runs -> ExecRecord]]
  <2>1. [exec[g][r] EXCEPT !.pc = pc] \in ExecRecord
    BY <1>0 DEF ExecRecord
  <2> QED BY <1>0, <1>1, <2>1 DEF ExecStep
<1>2. ASSUME NEW pc \in ExecPC, NEW slot \in BOOLEAN,
             exec' = [exec EXCEPT ![g][r].pc = pc, ![g][r].slot = slot]
      PROVE  exec' \in [Gateways -> [Runs -> ExecRecord]]
  <2>1. [exec[g][r] EXCEPT !.pc = pc, !.slot = slot] \in ExecRecord
    BY <1>0, ExecUpdateType
  <2>2. exec' = [exec EXCEPT ![g][r] = [exec[g][r] EXCEPT !.pc = pc, !.slot = slot]]
    BY <1>0, <1>2
  <2> QED BY <1>0, <2>1, <2>2, UpdateType
<1>3. ASSUME NEW status \in Status, NEW pc \in ExecPC, Update(g, r, status, pc)
      PROVE  TypeOK'
  <2>1. exec' \in [Gateways -> [Runs -> ExecRecord]]
    <3>1. [exec[g][r] EXCEPT !.pc = pc, !.snap = status] \in ExecRecord
      BY <1>0 DEF ExecRecord
    <3>2. exec' = [exec EXCEPT ![g][r] = [exec[g][r] EXCEPT !.pc = pc, !.snap = status]]
      BY <1>0, <1>3 DEF Update
    <3> QED BY <1>0, <3>1, <3>2, UpdateType
  <2>2. runs' \in StatusMap
    <3>1. [runs EXCEPT ![g][r] = status] \in StatusMap
      BY StatusMapUpdate DEF TypeOK
    <3> QED BY <1>3, <3>1 DEF Update
  <2>3. UNCHANGED <<procVars, ctxDone, slots, call, row, logged, feed, started>>
    BY <1>3 DEF Update
  <2> QED BY <2>1, <2>2, <2>3 DEF TypeOK, procVars
<1>4. ASSUME NEW from, NEW to \in ExecPC,
             PersistSnapshot(g, r, from, to)
      PROVE  TypeOK'
  <2>1. exec' \in [Gateways -> [Runs -> ExecRecord]]
    BY <1>1, <1>4 DEF PersistSnapshot
  <2>2. /\ row' \in [Runs -> Status \cup {Absent}]
        /\ logged' \in [Runs -> SUBSET Terminal]
    BY <1>0, <1>4, RowUpdate DEF PersistSnapshot
  <2>3. UNCHANGED <<procVars, runs, ctxDone, slots, call, feed, started>>
    BY <1>4 DEF PersistSnapshot
  <2> QED BY <2>1, <2>2, <2>3 DEF TypeOK, procVars
<1>5. CASE AcquireSlot(g, r)
  <2>1. slots' \in [Gateways -> Nat]
    <3>1. slots \in [Gateways -> Nat]
      BY DEF TypeOK
    <3>2. slots' = slots \/ slots' = [slots EXCEPT ![g] = slots[g] + 1]
      BY <1>5 DEF AcquireSlot
    <3> QED BY <3>1, <3>2
  <2>2. exec' \in [Gateways -> [Runs -> ExecRecord]]
    BY <1>1, <1>2, <1>5 DEF AcquireSlot, ExecPC
  <2>3. UNCHANGED <<procVars, runs, ctxDone, call, row, logged, feed, started>>
    BY <1>5 DEF AcquireSlot
  <2> QED BY <2>1, <2>2, <2>3 DEF TypeOK, procVars
<1>6. CASE AbandonSlot(g, r)
  <2>1. exec' \in [Gateways -> [Runs -> ExecRecord]]
    BY <1>1, <1>6 DEF AbandonSlot, ExecPC
  <2>2. UNCHANGED <<procVars, runs, ctxDone, slots, call, row, logged, feed, started>>
    BY <1>6 DEF AbandonSlot
  <2> QED BY <2>1, <2>2 DEF TypeOK, procVars
<1>7. CASE UpdateDropped(g, r)
  BY <1>3, <1>7 DEF UpdateDropped, ExecPC
<1>8. CASE UpdateRunning(g, r)
  BY <1>3, <1>8 DEF UpdateRunning, ExecPC
<1>9. CASE PersistRunning(g, r)
  BY <1>4, <1>9 DEF PersistRunning, ExecPC
<1>10. CASE InvokeStarter(g, r)
  <2>1. exec' \in [Gateways -> [Runs -> ExecRecord]]
    BY <1>1, <1>10 DEF InvokeStarter, ExecPC
  <2>2. feed' \in StatusMap
    <3>1. [feed EXCEPT ![g][r] = "running"] \in StatusMap
      BY StatusMapUpdate DEF TypeOK
    <3> QED BY <1>10, <3>1 DEF InvokeStarter
  <2>3. started' \in [Runs -> Nat]
    BY <1>10 DEF TypeOK, InvokeStarter
  <2>4. UNCHANGED <<procVars, runs, ctxDone, slots, call, row, logged>>
    BY <1>10 DEF InvokeStarter
  <2> QED BY <2>1, <2>2, <2>3, <2>4 DEF TypeOK, procVars
<1>11. CASE PersistEnd(g, r)
  BY <1>4, <1>11 DEF PersistEnd, ExecPC
<1>12. CASE Release(g, r)
  <2>1. slots' \in [Gateways -> Nat]
    <3>1. exec[g][r].slot => slots[g] # 0
      <4> SUFFICES ASSUME exec[g][r].slot PROVE slots[g] # 0
        OBVIOUS
      <4>1. IsFiniteSet(Holders(g)) /\ r \in Holders(g)
        BY FS_Subset, RunManagerAssumption DEF Holders
      <4>2. Cardinality(Holders(g)) # 0
        BY <4>1, FS_EmptySet
      <4> QED BY <4>2 DEF SlotAccounting
    <3>2. slots' = [slots EXCEPT ![g] = IF exec[g][r].slot THEN slots[g] - 1 ELSE slots[g]]
      BY <1>12 DEF Release
    <3>3. slots \in [Gateways -> Nat]
      BY DEF TypeOK
    <3> QED BY <3>1, <3>2, <3>3
  <2>2. exec' \in [Gateways -> [Runs -> ExecRecord]]
    BY <1>2, <1>12 DEF Release, ExecPC
  <2>3. feed' \in StatusMap
    <3>1. [feed EXCEPT ![g][r] = exec[g][r].snap] \in StatusMap
      BY <1>0, StatusMapUpdate DEF TypeOK
    <3> QED BY <1>12, <3>1 DEF Release
  <2>4. UNCHANGED <<procVars, runs, ctxDone, call, row, logged, started>>
    BY <1>12 DEF Release
  <2> QED BY <2>1, <2>2, <2>3, <2>4 DEF TypeOK, procVars
<1>13. CASE Finish(g, r)
  <2>1. PICK status \in Outcomes(g, r) : Update(g, r, status, "persistEnd")
    BY <1>13 DEF Finish
  <2>2. status \in Status
    BY <2>1 DEF Outcomes, Terminal
  <2> QED BY <1>3, <2>1, <2>2 DEF ExecPC
<1> QED BY <1>5, <1>6, <1>7, <1>8, <1>9, <1>10, <1>11, <1>12, <1>13 DEF Execute

\* What a process exit leaves in the variables of process memory.
LEMMA ForgetType ==
  ASSUME TypeOK, NEW g \in Gateways, ForgetProcess(g)
  PROVE  /\ runs' \in StatusMap /\ feed' \in StatusMap
         /\ ctxDone' \in [Gateways -> [Runs -> BOOLEAN]]
         /\ slots' \in [Gateways -> Nat]
         /\ exec' \in [Gateways -> [Runs -> ExecRecord]]
         /\ shut' \in [Gateways -> [todo: SUBSET Runs, cur: SUBSET Runs]]
         /\ recov' \in [Gateways -> [scan: 1..Len(ScanOrder), todo: SUBSET Runs]]
<1>1. runs' \in StatusMap /\ feed' \in StatusMap
  BY DEF TypeOK, ForgetProcess, StatusMap
<1>2. ctxDone' \in [Gateways -> [Runs -> BOOLEAN]]
  <2>1. ctxDone \in [Gateways -> [Runs -> BOOLEAN]]
    BY DEF TypeOK
  <2>2. [r \in Runs |-> FALSE] \in [Runs -> BOOLEAN]
    OBVIOUS
  <2>3. ctxDone' = [ctxDone EXCEPT ![g] = [r \in Runs |-> FALSE]]
    BY DEF ForgetProcess
  <2> QED BY <2>1, <2>2, <2>3, Zenon
<1>3. slots' \in [Gateways -> Nat]
  BY DEF TypeOK, ForgetProcess
<1>4. exec' \in [Gateways -> [Runs -> ExecRecord]]
  <2>1. NoExec \in ExecRecord
    BY StatusFacts DEF NoExec, ExecRecord, ExecPC
  <2> QED BY <2>1 DEF TypeOK, ForgetProcess
<1>5. shut' \in [Gateways -> [todo: SUBSET Runs, cur: SUBSET Runs]]
  BY DEF TypeOK, ForgetProcess, NoShut
<1>6. recov' \in [Gateways -> [scan: 1..Len(ScanOrder), todo: SUBSET Runs]]
  BY DEF TypeOK, ForgetProcess, NoRecov, ScanOrder
<1> QED BY <1>1, <1>2, <1>3, <1>4, <1>5, <1>6

\* Shutdown, exit, restart and recovery keep every type.
LEMMA TypeProcess ==
  ASSUME TypeOK, NEW g \in Gateways,
         Interrupt(g) \/ Shutdown(g) \/ Crash(g) \/ Restart(g) \/ Recover(g)
  PROVE  TypeOK'
<1> USE StatusFacts
<1>1. CASE Interrupt(g)
  <2>1. gw' \in [Gateways -> {"serving", "draining", "stopping", "stopped",
                              "down", "recovering"}]
    BY <1>1 DEF TypeOK, Interrupt
  <2>2. exits' \in Nat
    BY <1>1 DEF TypeOK, Interrupt
  <2>3. UNCHANGED <<memVars, call, shut, recov, row, logged, feed, started>>
    BY <1>1 DEF Interrupt
  <2> QED BY <2>1, <2>2, <2>3 DEF TypeOK, memVars
<1>2. CASE ShutdownMark(g)
  <2> DEFINE owned == {r \in Runs : runs[g][r] \in Active}
  <2>1. gw' \in [Gateways -> {"serving", "draining", "stopping", "stopped",
                              "down", "recovering"}]
    BY <1>2 DEF TypeOK, ShutdownMark
  <2>2. runs' \in StatusMap
    <3> DEFINE marked == [r \in Runs |-> IF r \in owned THEN "cancelling" ELSE runs[g][r]]
    <3>1. marked \in [Runs -> Status \cup {Absent}]
      BY DEF TypeOK, StatusMap
    <3>2. runs' = [runs EXCEPT ![g] = marked]
      BY <1>2 DEF ShutdownMark
    <3> HIDE DEF marked, owned
    <3> QED BY <3>1, <3>2 DEF TypeOK, StatusMap
  <2>3. shut' \in [Gateways -> [todo: SUBSET Runs, cur: SUBSET Runs]]
    <3>1. shut \in [Gateways -> [todo: SUBSET Runs, cur: SUBSET Runs]]
      BY DEF TypeOK
    <3>2. owned \in SUBSET Runs /\ shut' = [shut EXCEPT ![g].todo = owned]
      BY <1>2 DEF ShutdownMark
    <3> HIDE DEF owned
    <3> QED BY <3>1, <3>2
  <2>4. UNCHANGED <<ctxDone, slots, exec, call, recov, row, logged, feed, started, exits>>
    BY <1>2 DEF ShutdownMark
  <2> QED BY <2>1, <2>2, <2>3, <2>4 DEF TypeOK
<1>3. CASE ShutdownReturn(g)
  <2>1. gw' \in [Gateways -> {"serving", "draining", "stopping", "stopped",
                              "down", "recovering"}]
    BY <1>3 DEF TypeOK, ShutdownReturn
  <2>2. UNCHANGED <<memVars, call, shut, recov, row, logged, feed, started, exits>>
    BY <1>3 DEF ShutdownReturn
  <2> QED BY <2>1, <2>2 DEF TypeOK, memVars
<1>4. ASSUME NEW r \in Runs, ShutdownPersist(g, r)
      PROVE  TypeOK'
  <2>1. /\ row' \in [Runs -> Status \cup {Absent}]
        /\ logged' \in [Runs -> SUBSET Terminal]
    BY <1>4, RowUpdate DEF ShutdownPersist
  <2>2. shut' \in [Gateways -> [todo: SUBSET Runs, cur: SUBSET Runs]]
    BY <1>4 DEF TypeOK, ShutdownPersist
  <2>3. UNCHANGED <<gw, memVars, call, recov, feed, started, exits>>
    BY <1>4 DEF ShutdownPersist
  <2> QED BY <2>1, <2>2, <2>3 DEF TypeOK, memVars
<1>5. ASSUME NEW r \in Runs, ShutdownSignal(g, r)
      PROVE  TypeOK'
  <2>1. feed' \in StatusMap
    <3>1. [feed EXCEPT ![g][r] = "cancelling"] \in StatusMap
      BY StatusMapUpdate DEF TypeOK
    <3> QED BY <1>5, <3>1 DEF ShutdownSignal
  <2>2. ctxDone' \in [Gateways -> [Runs -> BOOLEAN]]
    <3>1. ctxDone \in [Gateways -> [Runs -> BOOLEAN]] /\ TRUE \in BOOLEAN
      BY DEF TypeOK
    <3>2. [ctxDone EXCEPT ![g][r] = TRUE] \in [Gateways -> [Runs -> BOOLEAN]]
      BY <3>1, FlagUpdate, Zenon
    <3> QED BY <1>5, <3>2, Zenon DEF ShutdownSignal
  <2>3. shut' \in [Gateways -> [todo: SUBSET Runs, cur: SUBSET Runs]]
    <3>1. shut \in [Gateways -> [todo: SUBSET Runs, cur: SUBSET Runs]]
      BY DEF TypeOK
    <3>2. shut' = [shut EXCEPT ![g].cur = {}]
      BY <1>5 DEF ShutdownSignal
    <3> QED BY <3>1, <3>2
  <2>4. UNCHANGED <<gw, runs, slots, exec, call, recov, row, logged, started, exits>>
    BY <1>5 DEF ShutdownSignal
  <2> QED BY <2>1, <2>2, <2>3, <2>4 DEF TypeOK
<1>6. CASE Crash(g)
  <2>1. gw' \in [Gateways -> {"serving", "draining", "stopping", "stopped",
                              "down", "recovering"}]
    BY <1>6 DEF TypeOK, Crash
  <2>2. call' \in [Calls -> CallType]
    <3>1. call \in [Calls -> CallType]
      BY DEF TypeOK, CallType
    <3> QED BY <1>6, <3>1 DEF Crash, CallType
  <2>3. exits' \in Nat
    BY <1>6 DEF TypeOK, Crash
  <2>4. ForgetProcess(g) /\ UNCHANGED <<row, logged, started>>
    BY <1>6 DEF Crash
  <2> QED BY <2>1, <2>2, <2>3, <2>4, ForgetType DEF TypeOK, CallType
<1>7. CASE Restart(g)
  <2>1. gw' \in [Gateways -> {"serving", "draining", "stopping", "stopped",
                              "down", "recovering"}]
    BY <1>7 DEF TypeOK, Restart
  <2>2. ForgetProcess(g) /\ UNCHANGED <<call, row, logged, started, exits>>
    BY <1>7 DEF Restart
  <2> QED BY <2>1, <2>2, ForgetType DEF TypeOK
<1>8. CASE RecoverList(g)
  <2>1. gw' \in [Gateways -> {"serving", "draining", "stopping", "stopped",
                              "down", "recovering"}]
    BY <1>8 DEF TypeOK, RecoverList
  <2>2. recov' \in [Gateways -> [scan: 1..Len(ScanOrder), todo: SUBSET Runs]]
    <3> DEFINE stale == {r \in Runs : row[r] = ScanOrder[recov[g].scan]}
    <3>1. Len(ScanOrder) = 3
      BY DEF ScanOrder
    <3>2. recov \in [Gateways -> [scan: 1..3, todo: SUBSET Runs]]
      BY <3>1 DEF TypeOK
    <3>3. CASE \E page \in Pages(stale) : recov' = [recov EXCEPT ![g].todo = page]
      BY <3>1, <3>2, <3>3 DEF Pages
    <3>4. CASE recov[g].scan < 3 /\ recov' = [recov EXCEPT ![g].scan = recov[g].scan + 1]
      BY <3>1, <3>2, <3>4
    <3>5. CASE recov' = [recov EXCEPT ![g] = NoRecov]
      BY <3>1, <3>2, <3>5 DEF NoRecov
    <3> QED BY <1>8, <3>1, <3>3, <3>4, <3>5 DEF RecoverList
  <2>3. UNCHANGED <<memVars, call, shut, row, logged, feed, started, exits>>
    BY <1>8 DEF RecoverList
  <2> QED BY <2>1, <2>2, <2>3 DEF TypeOK, memVars
<1>9. ASSUME NEW r \in Runs, RecoverSave(g, r)
      PROVE  TypeOK'
  <2>1. /\ row' \in [Runs -> Status \cup {Absent}]
        /\ logged' \in [Runs -> SUBSET Terminal]
    BY <1>9, RowUpdate DEF RecoverSave
  <2>2. feed' \in StatusMap
    <3>1. [feed EXCEPT ![g][r] = "failed"] \in StatusMap
      BY StatusMapUpdate DEF TypeOK
    <3> QED BY <1>9, <3>1 DEF RecoverSave
  <2>3. recov' \in [Gateways -> [scan: 1..Len(ScanOrder), todo: SUBSET Runs]]
    <3> DEFINE Page == [scan: 1..Len(ScanOrder), todo: SUBSET Runs]
    <3> SUFFICES recov' \in [Gateways -> Page]
      OBVIOUS
    <3>1. recov \in [Gateways -> Page] /\ recov' = [recov EXCEPT ![g].todo = @ \ {r}]
      BY <1>9 DEF TypeOK, RecoverSave
    <3>2. recov[g] \in Page
      BY <3>1
    <3>3. [recov[g] EXCEPT !.todo = @ \ {r}] \in Page
      BY <3>2
    <3>4. recov' = [recov EXCEPT ![g] = [recov[g] EXCEPT !.todo = @ \ {r}]]
      BY <3>1
    <3> HIDE DEF Page
    <3> QED BY <3>1, <3>3, <3>4
  <2>4. UNCHANGED <<gw, runs, ctxDone, slots, exec, call, shut, started, exits>>
    BY <1>9 DEF RecoverSave, memVars
  <2> QED BY <2>1, <2>2, <2>3, <2>4 DEF TypeOK
<1> QED BY <1>1, <1>2, <1>3, <1>4, <1>5, <1>6, <1>7, <1>8, <1>9 DEF Shutdown, Recover

\* The induction step of TypeOK, given that slots are accounted for.
LEMMA TypeStep ==
  ASSUME TypeOK, SlotAccounting, [Next]_vars
  PROVE  TypeOK'
<1>1. ASSUME NEW g \in Gateways, NEW r \in Runs, Request(g, r)
      PROVE  TypeOK'
  BY <1>1, TypeRequest DEF Request, Calls
<1>2. ASSUME NEW g \in Gateways, NEW r \in Runs, Execute(g, r) \/ Finish(g, r)
      PROVE  TypeOK'
  BY <1>2, TypeExecute
<1>3. ASSUME NEW c \in Calls, Handle(c)
      PROVE  TypeOK'
  BY <1>3, TypeHandle
<1>4. ASSUME NEW g \in Gateways,
             Interrupt(g) \/ Shutdown(g) \/ Crash(g) \/ Restart(g) \/ Recover(g)
      PROVE  TypeOK'
  BY <1>4, TypeProcess
<1>5. CASE UNCHANGED vars
  BY <1>5 DEF TypeOK, vars
<1> QED BY <1>1, <1>2, <1>3, <1>4, <1>5 DEF Next

\* The freshly built managers are well typed.
LEMMA TypeInit == Init => TypeOK
<1> SUFFICES ASSUME Init PROVE TypeOK
  OBVIOUS
<1>1. /\ gw \in [Gateways -> {"serving", "draining", "stopping", "stopped",
                              "down", "recovering"}]
      /\ runs \in StatusMap /\ feed \in StatusMap
      /\ row \in [Runs -> Status \cup {Absent}]
      /\ logged \in [Runs -> SUBSET Terminal]
  BY DEF Init, StatusMap
<1>2. ctxDone \in [Gateways -> [Runs -> BOOLEAN]]
  <2>1. [r \in Runs |-> FALSE] \in [Runs -> BOOLEAN]
    OBVIOUS
  <2> QED BY <2>1, Zenon DEF Init
<1>3. exec \in [Gateways -> [Runs -> ExecRecord]]
  <2>1. NoExec \in ExecRecord
    BY StatusFacts DEF NoExec, ExecRecord, ExecPC
  <2> QED BY <2>1 DEF Init
<1>4. /\ shut \in [Gateways -> [todo: SUBSET Runs, cur: SUBSET Runs]]
      /\ recov \in [Gateways -> [scan: 1..Len(ScanOrder), todo: SUBSET Runs]]
  BY DEF Init, NoShut, NoRecov, ScanOrder
<1>5. /\ slots \in [Gateways -> Nat]
      /\ call \in [Calls -> CallRecord \cup {IdleCall, LostCall}]
      /\ started \in [Runs -> Nat]
      /\ exits \in Nat
  BY DEF Init
<1> QED BY <1>1, <1>2, <1>3, <1>4, <1>5 DEF TypeOK

-----------------------------------------------------------------------------
(* Slots                                                                    *)

\* No goroutine holds a slot at first.
LEMMA SlotInit == Init => SlotAccounting
<1> SUFFICES ASSUME Init, NEW g \in Gateways PROVE slots[g] = Cardinality(Holders(g))
  BY DEF SlotAccounting
<1>1. Holders(g) = {} /\ slots[g] = 0
  BY DEF Init, Holders, NoExec
<1> QED BY <1>1, FS_EmptySet

\* A step that changes no slot flag and no slot count.
LEMMA SlotFrame ==
  ASSUME TypeOK, SlotAccounting, slots' = slots,
         \A g \in Gateways, r \in Runs : exec'[g][r].slot <=> exec[g][r].slot
  PROVE  SlotAccounting'
<1> SUFFICES ASSUME NEW g \in Gateways
             PROVE  slots'[g] = Cardinality(Holders(g)')
  BY DEF SlotAccounting
<1>1. Holders(g)' = Holders(g)
  BY DEF Holders
<1> QED BY <1>1 DEF SlotAccounting

\* A successful send on runSlots adds one holder and one token.
LEMMA SlotAcquire ==
  ASSUME TypeOK, SlotAccounting, SlotsHeld, NEW g \in Gateways, NEW r \in Runs,
         AcquireSlot(g, r), MaxConcurrent # 0
  PROVE  SlotAccounting'
<1> SUFFICES ASSUME NEW h \in Gateways
             PROVE  slots'[h] = Cardinality(Holders(h)')
  BY DEF SlotAccounting
<1> DEFINE rec == [exec[g][r] EXCEPT !.pc = "entered", !.slot = TRUE]
<1>1. exec' = [exec EXCEPT ![g][r] = rec]
  BY DEF AcquireSlot, TypeOK
<1>2. rec.slot
  BY DEF TypeOK, ExecRecord
<1>3. ~exec[g][r].slot
  BY DEF SlotsHeld, AcquireSlot, InSlot
<1>4. /\ slots[h] = Cardinality(Holders(h)) /\ IsFiniteSet(Holders(h))
      /\ slots \in [Gateways -> Nat]
  BY FS_Subset, RunManagerAssumption DEF TypeOK, SlotAccounting, Holders
<1>5. slots' = [slots EXCEPT ![g] = slots[g] + 1]
  BY DEF AcquireSlot
<1> HIDE DEF rec
<1>6. \A i \in Gateways, q \in Runs :
        exec'[i][q] = IF i = g /\ q = r THEN rec ELSE exec[i][q]
  BY <1>1 DEF TypeOK
<1>7. CASE h = g
  <2>1. Holders(h)' = Holders(h) \cup {r} /\ r \notin Holders(h)
    BY <1>2, <1>3, <1>6, <1>7 DEF Holders
  <2> QED BY <1>4, <1>5, <1>7, <2>1, FS_AddElement
<1>8. CASE h # g
  <2>1. Holders(h)' = Holders(h)
    BY <1>6, <1>8 DEF Holders
  <2> QED BY <1>4, <1>5, <1>8, <2>1
<1> QED BY <1>7, <1>8

\* The deferred release takes one holder and one token, or neither.
LEMMA SlotRelease ==
  ASSUME TypeOK, SlotAccounting, NEW g \in Gateways, NEW r \in Runs,
         Release(g, r)
  PROVE  SlotAccounting'
<1> SUFFICES ASSUME NEW h \in Gateways
             PROVE  slots'[h] = Cardinality(Holders(h)')
  BY DEF SlotAccounting
<1> DEFINE rec == [exec[g][r] EXCEPT !.pc = "done", !.slot = FALSE]
<1>1. exec' = [exec EXCEPT ![g][r] = rec]
  BY DEF Release, TypeOK
<1>2. ~rec.slot
  BY DEF TypeOK, ExecRecord
<1>3. /\ slots[h] = Cardinality(Holders(h)) /\ IsFiniteSet(Holders(h))
      /\ slots \in [Gateways -> Nat]
  BY FS_Subset, RunManagerAssumption DEF TypeOK, SlotAccounting, Holders
<1>4. slots' = [slots EXCEPT ![g] = IF exec[g][r].slot THEN slots[g] - 1 ELSE slots[g]]
  BY DEF Release
<1> HIDE DEF rec
<1>5. \A i \in Gateways, q \in Runs :
        exec'[i][q] = IF i = g /\ q = r THEN rec ELSE exec[i][q]
  BY <1>1 DEF TypeOK
<1>6. CASE h = g /\ exec[g][r].slot
  <2>1. Holders(h)' = Holders(h) \ {r} /\ r \in Holders(h)
    BY <1>2, <1>5, <1>6 DEF Holders
  <2> QED BY <1>3, <1>4, <1>6, <2>1, FS_RemoveElement
<1>7. CASE h # g \/ ~exec[g][r].slot
  <2>1. Holders(h)' = Holders(h)
    BY <1>2, <1>5, <1>7 DEF Holders
  <2> QED BY <1>3, <1>4, <1>7, <2>1
<1> QED BY <1>6, <1>7

-----------------------------------------------------------------------------
(* The steps seen through the fields the inductive invariant looks at       *)

\* Goroutine (g, r) goes from one program counter to another; the others,
\* and their entries in m.runs, stay.
Moves(g, r, from, to) ==
  /\ exec[g][r].pc = from /\ exec'[g][r].pc = to
  /\ \A h \in Gateways, q \in Runs :
       (h # g \/ q # r) => /\ exec'[h][q] = exec[h][q]
                          /\ runs'[h][q] = runs[h][q]

SameSlot(g, r)   == exec'[g][r].slot = exec[g][r].slot
SameStatus(g, r) == runs'[g][r] = runs[g][r]

ExecuteEffect(g, r) ==
  \/ /\ Moves(g, r, "slot", "entered") /\ SameStatus(g, r)
     /\ exec'[g][r].slot <=> MaxConcurrent # 0
     /\ AcquireSlot(g, r)
     /\ UNCHANGED <<row, started>>
  \/ /\ Moves(g, r, "slot", "dropped") /\ SameStatus(g, r) /\ SameSlot(g, r)
     /\ UNCHANGED <<row, started, slots>>
  \/ /\ Moves(g, r, "entered", "persistRunning") /\ SameSlot(g, r)
     /\ runs'[g][r] = "running"
     /\ UNCHANGED <<row, started, slots>>
  \/ /\ Moves(g, r, "dropped", "persistEnd") \/ Moves(g, r, "starter", "persistEnd")
     /\ runs'[g][r] \in Terminal
     /\ SameSlot(g, r)
     /\ UNCHANGED <<row, started, slots>>
  \/ /\ \/ Moves(g, r, "persistRunning", "invoke")
        \/ Moves(g, r, "persistEnd", "release")
     /\ SameStatus(g, r) /\ SameSlot(g, r)
     /\ row'[r] # Absent /\ \A q \in Runs : q # r => row'[q] = row[q]
     /\ UNCHANGED <<started, slots>>
  \/ /\ Moves(g, r, "invoke", "starter") /\ SameStatus(g, r) /\ SameSlot(g, r)
     /\ started'[r] = started[r] + 1
     /\ \A q \in Runs : q # r => started'[q] = started[q]
     /\ UNCHANGED <<row, slots>>
  \/ /\ Moves(g, r, "release", "done") /\ SameStatus(g, r)
     /\ ~exec'[g][r].slot
     /\ Release(g, r)
     /\ UNCHANGED <<row, started>>

\* What a step of an execute goroutine does to status, slot and execution.
LEMMA ExecuteHasEffect ==
  ASSUME TypeOK, SlotsHeld, NEW g \in Gateways, NEW r \in Runs,
         Execute(g, r) \/ Finish(g, r)
  PROVE  Alive(g) /\ ExecuteEffect(g, r) /\ UNCHANGED <<gw, call>>
<1> USE StatusFacts
<1>1. /\ exec \in [Gateways -> [Runs -> ExecRecord]]
      /\ exec[g][r] \in ExecRecord /\ exec[g][r].snap \in Status
  BY DEF TypeOK, ExecRecord
<1>2. runs \in [Gateways -> [Runs -> Status \cup {Absent}]]
  BY DEF TypeOK, StatusMap
<1>3. row \in [Runs -> Status \cup {Absent}] /\ started \in [Runs -> Nat]
  BY DEF TypeOK
<1>4. ASSUME NEW to, exec' = [exec EXCEPT ![g][r].pc = to], UNCHANGED runs
      PROVE  /\ Moves(g, r, exec[g][r].pc, to)
             /\ SameSlot(g, r) /\ SameStatus(g, r)
  <2>1. exec'[g][r] = [exec[g][r] EXCEPT !.pc = to]
    BY <1>1, <1>4
  <2>2. exec'[g][r].pc = to /\ exec'[g][r].slot = exec[g][r].slot
    BY <1>1, <2>1 DEF ExecRecord
  <2>3. \A h \in Gateways, q \in Runs :
          (h # g \/ q # r) => exec'[h][q] = exec[h][q]
    BY <1>1, <1>4
  <2> QED BY <1>4, <2>2, <2>3 DEF Moves, SameSlot, SameStatus
<1>5. ASSUME NEW status \in Status, NEW to, Update(g, r, status, to)
      PROVE  /\ Moves(g, r, exec[g][r].pc, to)
             /\ SameSlot(g, r) /\ runs'[g][r] = status
             /\ UNCHANGED <<gw, call, row, started, slots>>
  <2>1. exec' = [exec EXCEPT ![g][r] = [exec[g][r] EXCEPT !.pc = to, !.snap = status]]
    BY <1>1, <1>5 DEF Update
  <2>2. exec'[g][r] = [exec[g][r] EXCEPT !.pc = to, !.snap = status]
    BY <1>1, <2>1
  <2>3. exec'[g][r].pc = to /\ exec'[g][r].slot = exec[g][r].slot
    BY <1>1, <2>2 DEF ExecRecord
  <2>4. \A h \in Gateways, q \in Runs :
          (h # g \/ q # r) => exec'[h][q] = exec[h][q]
    BY <1>1, <2>1
  <2>5. runs' = [runs EXCEPT ![g][r] = status]
    BY <1>5 DEF Update
  <2>6. /\ runs'[g][r] = status
        /\ \A h \in Gateways, q \in Runs :
             (h # g \/ q # r) => runs'[h][q] = runs[h][q]
    BY <1>2, <2>5
  <2> QED BY <1>5, <2>3, <2>4, <2>6 DEF Update, Moves, SameSlot, procVars
<1>6. ASSUME NEW from, NEW to, PersistSnapshot(g, r, from, to)
      PROVE  /\ Moves(g, r, from, to) /\ SameSlot(g, r) /\ SameStatus(g, r)
             /\ row'[r] # Absent /\ \A q \in Runs : q # r => row'[q] = row[q]
             /\ UNCHANGED <<gw, call, started, slots>>
  <2>1. row' = [row EXCEPT ![r] = exec[g][r].snap]
    BY <1>6 DEF PersistSnapshot, SaveRunWithEvent
  <2>2. row'[r] # Absent /\ \A q \in Runs : q # r => row'[q] = row[q]
    BY <1>1, <1>3, <2>1
  <2>3. Moves(g, r, from, to) /\ SameSlot(g, r) /\ SameStatus(g, r)
    BY <1>4, <1>6 DEF PersistSnapshot, ExecStep
  <2> QED BY <1>6, <2>2, <2>3 DEF PersistSnapshot, procVars
<1>7. CASE AcquireSlot(g, r)
  <2>1. CASE MaxConcurrent = 0
    <3>1. ~exec[g][r].slot
      BY <1>7 DEF AcquireSlot, SlotsHeld, InSlot
    <3>2. Moves(g, r, "slot", "entered") /\ SameSlot(g, r) /\ SameStatus(g, r)
      BY <1>4, <1>7, <2>1 DEF AcquireSlot, ExecStep
    <3> QED BY <1>7, <2>1, <3>1, <3>2 DEF AcquireSlot, ExecuteEffect, SameSlot, procVars
  <2>2. CASE MaxConcurrent # 0
    <3>1. exec' = [exec EXCEPT ![g][r] = [exec[g][r] EXCEPT !.pc = "entered", !.slot = TRUE]]
      BY <1>1, <1>7, <2>2 DEF AcquireSlot
    <3>2. exec'[g][r] = [exec[g][r] EXCEPT !.pc = "entered", !.slot = TRUE]
      BY <1>1, <3>1
    <3>3. exec'[g][r].pc = "entered" /\ exec'[g][r].slot
      BY <1>1, <3>2 DEF ExecRecord
    <3>4. \A h \in Gateways, q \in Runs :
            (h # g \/ q # r) => exec'[h][q] = exec[h][q]
      BY <1>1, <3>1
    <3> QED BY <1>7, <2>2, <3>3, <3>4
            DEF AcquireSlot, ExecuteEffect, Moves, SameStatus, procVars
  <2> QED BY <2>1, <2>2
<1>8. CASE AbandonSlot(g, r)
  BY <1>4, <1>8 DEF AbandonSlot, ExecStep, ExecuteEffect, procVars
<1>9. CASE UpdateDropped(g, r)
  BY <1>5, <1>9 DEF UpdateDropped, ExecuteEffect, Terminal
<1>10. CASE UpdateRunning(g, r)
  BY <1>5, <1>10 DEF UpdateRunning, ExecuteEffect
<1>11. CASE PersistRunning(g, r)
  BY <1>6, <1>11 DEF PersistRunning, PersistSnapshot, ExecuteEffect
<1>12. CASE InvokeStarter(g, r)
  <2>1. started'[r] = started[r] + 1 /\ \A q \in Runs : q # r => started'[q] = started[q]
    BY <1>3, <1>12 DEF InvokeStarter
  <2> QED BY <1>4, <1>12, <2>1 DEF InvokeStarter, ExecStep, ExecuteEffect, procVars
<1>13. CASE PersistEnd(g, r)
  BY <1>6, <1>13 DEF PersistEnd, PersistSnapshot, ExecuteEffect
<1>14. CASE Release(g, r)
  <2>1. exec' = [exec EXCEPT ![g][r] = [exec[g][r] EXCEPT !.pc = "done", !.slot = FALSE]]
    BY <1>1, <1>14 DEF Release
  <2>2. exec'[g][r] = [exec[g][r] EXCEPT !.pc = "done", !.slot = FALSE]
    BY <1>1, <2>1
  <2>3. exec'[g][r].pc = "done" /\ ~exec'[g][r].slot
    BY <1>1, <2>2 DEF ExecRecord
  <2>4. \A h \in Gateways, q \in Runs :
          (h # g \/ q # r) => exec'[h][q] = exec[h][q]
    BY <1>1, <2>1
  <2> QED BY <1>14, <2>3, <2>4 DEF Release, ExecuteEffect, Moves, SameStatus, procVars
<1>15. CASE Finish(g, r)
  <2>1. PICK status \in Outcomes(g, r) : Update(g, r, status, "persistEnd")
    BY <1>15 DEF Finish
  <2>2. status \in Terminal
    BY <2>1 DEF Outcomes, Terminal
  <2> QED BY <1>5, <1>15, <2>1, <2>2 DEF Finish, ExecuteEffect
<1>16. Alive(g)
  BY DEF Execute, AcquireSlot, AbandonSlot, UpdateDropped, UpdateRunning,
         PersistRunning, InvokeStarter, PersistEnd, PersistSnapshot, Release, Finish
<1> QED BY <1>7, <1>8, <1>9, <1>10, <1>11, <1>12, <1>13, <1>14, <1>15, <1>16 DEF Execute

\* A new request of client c for run r at gateway g; the others stay.
OtherCalls(c) == \A d \in Calls : d # c => call'[d] = call[d]
OtherRuns(g, r) == \A h \in Gateways, q \in Runs :
                     (h # g \/ q # r) => runs'[h][q] = runs[h][q]
RequestEffect(c, g, r) ==
  /\ gw[g] = "serving" /\ call[c].pc = "idle"
  /\ OtherCalls(c) /\ call'[c].g = g /\ call'[c].r = r
  /\ \/ call'[c].pc \in {"done", "load", "persist"} /\ UNCHANGED runs
     \/ /\ call'[c].pc = "claim"
        /\ runs[g][r] = Absent /\ runs'[g][r] = "queued" /\ OtherRuns(g, r)
     \/ /\ call'[c].pc = "persist"
        /\ runs[g][r] \in Active /\ runs'[g][r] = "cancelling" /\ OtherRuns(g, r)
  /\ UNCHANGED <<gw, slots, exec, row, started>>

\* What the first step of a request does to the map and to its own record.
LEMMA RequestHasEffect ==
  ASSUME TypeOK, NEW c \in Calls, NEW g \in Gateways, NEW r \in Runs,
         StartReplay(c, g, r) \/ StartInsert(c, g, r) \/ CancelMark(c, g, r)
  PROVE  RequestEffect(c, g, r)
<1>1. call \in [Calls -> CallType]
  BY DEF TypeOK, CallType
<1>2. runs \in [Gateways -> [Runs -> Status \cup {Absent}]]
  BY DEF TypeOK, StatusMap
<1>3. ASSUME NEW pc, NEW snap, NEW fire, NEW reply,
             call' = [call EXCEPT ![c] = NewCall(pc, g, r, snap, fire, reply)]
      PROVE  /\ OtherCalls(c) /\ call'[c].g = g /\ call'[c].r = r
             /\ call'[c].pc = pc
  BY <1>1, <1>3 DEF NewCall, OtherCalls
<1>4. ASSUME NEW status, runs' = [runs EXCEPT ![g][r] = status]
      PROVE  runs'[g][r] = status /\ OtherRuns(g, r)
  BY <1>2, <1>4 DEF OtherRuns
<1>5. CASE StartReplay(c, g, r)
  BY <1>3, <1>5 DEF StartReplay, RequestEffect, procVars, memVars
<1>6. CASE StartInsert(c, g, r)
  <2>1. CASE runs[g][r] # Absent
    <3>1. UNCHANGED runs /\ call' = [call EXCEPT ![c] = NewCall("done", g, r, "queued", FALSE, Duplicate(r))]
      BY <1>6, <2>1 DEF StartInsert
    <3>2. OtherCalls(c) /\ call'[c].g = g /\ call'[c].r = r /\ call'[c].pc = "done"
      BY <1>3, <3>1
    <3> QED BY <1>6, <3>1, <3>2 DEF StartInsert, RequestEffect, procVars
  <2>2. CASE runs[g][r] = Absent
    <3>1. /\ runs' = [runs EXCEPT ![g][r] = "queued"]
          /\ call' = [call EXCEPT ![c] = NewCall("claim", g, r, "queued", FALSE, "none")]
      BY <1>6, <2>2 DEF StartInsert
    <3>2. OtherCalls(c) /\ call'[c].g = g /\ call'[c].r = r /\ call'[c].pc = "claim"
      BY <1>3, <3>1
    <3>3. runs'[g][r] = "queued" /\ OtherRuns(g, r)
      BY <1>4, <3>1
    <3> QED BY <1>6, <2>2, <3>2, <3>3 DEF StartInsert, RequestEffect, procVars
  <2> QED BY <2>1, <2>2
<1>7. CASE CancelMark(c, g, r)
  <2>1. CASE runs[g][r] = Absent
    <3>1. UNCHANGED runs /\ call' = [call EXCEPT ![c] = NewCall("load", g, r, "cancelled", FALSE, "none")]
      BY <1>7, <2>1, StatusFacts DEF CancelMark, Terminal, Absent
    <3>2. OtherCalls(c) /\ call'[c].g = g /\ call'[c].r = r /\ call'[c].pc = "load"
      BY <1>3, <3>1
    <3> QED BY <1>7, <3>1, <3>2 DEF CancelMark, RequestEffect, procVars
  <2>2. CASE runs[g][r] \in {"queued", "running"}
    <3>1. /\ runs' = [runs EXCEPT ![g][r] = "cancelling"]
          /\ call' = [call EXCEPT ![c] = NewCall("persist", g, r, "cancelling", TRUE, "none")]
      BY <1>7, <2>2 DEF CancelMark, Terminal, Absent
    <3>2. OtherCalls(c) /\ call'[c].g = g /\ call'[c].r = r /\ call'[c].pc = "persist"
      BY <1>3, <3>1
    <3>3. runs'[g][r] = "cancelling" /\ OtherRuns(g, r)
      BY <1>4, <3>1
    <3>4. runs[g][r] \in Active
      BY <2>2 DEF Active
    <3> QED BY <1>7, <3>2, <3>3, <3>4 DEF CancelMark, RequestEffect, procVars
  <2>3. CASE runs[g][r] \in Terminal \cup {"cancelling"}
    <3>1. UNCHANGED runs /\ call' = [call EXCEPT ![c] = NewCall("persist", g, r, runs[g][r], FALSE, "none")]
      BY <1>7, <2>3 DEF CancelMark, Terminal, Absent
    <3>2. OtherCalls(c) /\ call'[c].g = g /\ call'[c].r = r /\ call'[c].pc = "persist"
      BY <1>3, <3>1
    <3> QED BY <1>7, <3>1, <3>2 DEF CancelMark, RequestEffect, procVars
  <2> QED BY <1>7, <2>1, <2>2, <2>3 DEF CancelMark
<1> QED BY <1>5, <1>6, <1>7

\* One step of a handler that is at work.
RowsStay ==
  /\ \A q \in Runs : row'[q] = Absent => row[q] = Absent
  /\ \A p, q \in Runs : row'[p] # row[p] /\ row'[q] # row[q] => p = q
HandleEffect(c, g, r) ==
  /\ Working(c) /\ call[c].g = g /\ call[c].r = r
  /\ OtherCalls(c) /\ call'[c].g = g /\ call'[c].r = r
  /\ \/ /\ call[c].pc = "claim" /\ call'[c].pc = "launch"
        /\ row[r] = Absent /\ row'[r] # Absent
        /\ UNCHANGED <<runs, exec>>
     \/ /\ call[c].pc = "claim" /\ call'[c].pc = "withdraw"
        /\ UNCHANGED <<runs, exec>>
     \/ /\ call[c].pc = "withdraw" /\ call'[c].pc = "done"
        /\ runs'[g][r] = Absent /\ OtherRuns(g, r)
        /\ UNCHANGED exec
     \/ /\ call[c].pc = "launch" /\ call'[c].pc = "done"
        /\ exec'[g][r].pc = "slot" /\ ~exec'[g][r].slot
        /\ \A h \in Gateways, q \in Runs :
             (h # g \/ q # r) => exec'[h][q] = exec[h][q]
        /\ UNCHANGED runs
     \/ /\ ~Opening(c) /\ call'[c].pc \in {"done", "disown", "signal"}
        /\ UNCHANGED <<runs, exec>>
  /\ RowsStay
  /\ UNCHANGED <<gw, slots, started>>

\* A write of a row never makes a row absent.
LEMMA RowStays ==
  ASSUME TypeOK, NEW r \in Runs, NEW status \in Status, SaveRunWithEvent(r, status)
  PROVE  RowsStay /\ row'[r] # Absent
<1>1. row \in [Runs -> Status \cup {Absent}]
  BY DEF TypeOK
<1> QED BY <1>1, StatusFacts DEF SaveRunWithEvent, RowsStay

\* What the later steps of a request do: claim, withdraw, launch or answer.
LEMMA HandleHasEffect ==
  ASSUME TypeOK, NEW c \in Calls, Handle(c)
  PROVE  \E g \in Gateways, r \in Runs : HandleEffect(c, g, r)
<1> USE StatusFacts
<1> DEFINE g == call[c].g
           r == call[c].r
<1>0. call[c].pc \in CallPC /\ Working(c)
  BY DEF Handle, CallPC, Working, StartClaim, StartWithdraw, StartLaunch,
         CancelLoad, CancelDisown, CancelPersist, CancelSignal
<1>1. call[c] \in CallRecord /\ g \in Gateways /\ r \in Runs /\ call[c].snap \in Status
  BY <1>0, HandlerRecord
<1>2. call \in [Calls -> CallType] /\ runs \in [Gateways -> [Runs -> Status \cup {Absent}]]
  BY DEF TypeOK, CallType, StatusMap
<1>3. ASSUME NEW pc, Step(c, pc)
      PROVE  OtherCalls(c) /\ call'[c].g = g /\ call'[c].r = r /\ call'[c].pc = pc
  <2>1. call'[c] = [call[c] EXCEPT !.pc = pc]
    BY <1>2, <1>3 DEF Step
  <2>2. OtherCalls(c)
    BY <1>2, <1>3 DEF Step, OtherCalls
  <2> QED BY <1>1, <2>1, <2>2 DEF CallRecord
<1>4. ASSUME NEW pc, NEW reply, call' = [call EXCEPT ![c].pc = pc, ![c].reply = reply]
      PROVE  OtherCalls(c) /\ call'[c].g = g /\ call'[c].r = r /\ call'[c].pc = pc
  <2>1. call'[c] = [call[c] EXCEPT !.pc = pc, !.reply = reply]
    BY <1>2, <1>4
  <2>2. OtherCalls(c)
    BY <1>2, <1>4 DEF OtherCalls
  <2> QED BY <1>1, <2>1, <2>2 DEF CallRecord
<1> SUFFICES HandleEffect(c, g, r)
  BY <1>1
<1>5. CASE StartClaim(c)
  <2>1. CASE ClaimRunWithEvent(r) /\ Step(c, "launch")
    <3>1. RowsStay /\ row'[r] # Absent /\ row[r] = Absent
      BY <1>1, <2>1, RowStays DEF ClaimRunWithEvent
    <3> QED BY <1>0, <1>3, <1>5, <2>1, <3>1 DEF HandleEffect, StartClaim, procVars, memVars
  <2>2. CASE /\ UNCHANGED row
             /\ \/ call' = [call EXCEPT ![c].pc = "withdraw", ![c].reply = Duplicate(r)]
                \/ call' = [call EXCEPT ![c].pc = "withdraw", ![c].reply = "error"]
    <3>1. OtherCalls(c) /\ call'[c].g = g /\ call'[c].r = r /\ call'[c].pc = "withdraw"
      BY <1>4, <2>2
    <3> QED BY <1>0, <1>5, <2>2, <3>1
            DEF HandleEffect, StartClaim, RowsStay, procVars, memVars
  <2> QED BY <1>5, <2>1, <2>2 DEF StartClaim
<1>6. CASE StartWithdraw(c)
  <2>1. runs' = [runs EXCEPT ![g][r] = Absent]
    BY <1>6 DEF StartWithdraw
  <2>2. runs'[g][r] = Absent /\ OtherRuns(g, r)
    BY <1>1, <1>2, <2>1 DEF OtherRuns
  <2>3. OtherCalls(c) /\ call'[c].g = g /\ call'[c].r = r /\ call'[c].pc = "done"
    BY <1>4, <1>6 DEF StartWithdraw, Answer
  <2> QED BY <1>0, <1>6, <2>2, <2>3 DEF HandleEffect, StartWithdraw, RowsStay, procVars
<1>7. CASE StartLaunch(c)
  <2>1. exec \in [Gateways -> [Runs -> ExecRecord]]
    BY DEF TypeOK
  <2>2. exec' = [exec EXCEPT ![g][r] = [NoExec EXCEPT !.pc = "slot"]]
    BY <1>7 DEF StartLaunch
  <2>3. exec'[g][r] = [NoExec EXCEPT !.pc = "slot"]
    BY <1>1, <2>1, <2>2
  <2>4. exec'[g][r].pc = "slot" /\ ~exec'[g][r].slot
    BY <2>3 DEF NoExec
  <2>5. \A h \in Gateways, q \in Runs :
          (h # g \/ q # r) => exec'[h][q] = exec[h][q]
    BY <1>1, <2>1, <2>2
  <2>6. OtherCalls(c) /\ call'[c].g = g /\ call'[c].r = r /\ call'[c].pc = "done"
    BY <1>4, <1>7 DEF StartLaunch, Answer
  <2> QED BY <1>0, <1>7, <2>4, <2>5, <2>6 DEF HandleEffect, StartLaunch, RowsStay, procVars
<1>8. CASE CancelLoad(c)
  <2>1. /\ OtherCalls(c) /\ call'[c].g = g /\ call'[c].r = r
        /\ call'[c].pc \in {"done", "disown"}
    <3>1. Answer(c, "error") \/ Answer(c, row[r]) \/ Step(c, "disown")
      BY <1>8 DEF CancelLoad
    <3> QED BY <1>3, <1>4, <3>1 DEF Answer
  <2>2. UNCHANGED <<procVars, memVars, row, started>> /\ ~Opening(c)
    BY <1>8 DEF CancelLoad, Opening
  <2> QED BY <1>0, <2>1, <2>2 DEF HandleEffect, RowsStay, procVars, memVars
<1>9. CASE CancelDisown(c)
  <2>1. OtherCalls(c) /\ call'[c].g = g /\ call'[c].r = r /\ call'[c].pc = "done"
    BY <1>4, <1>9 DEF CancelDisown, Answer
  <2>2. RowsStay
    BY <1>1, <1>9, RowStays DEF CancelDisown, RowsStay
  <2>3. UNCHANGED <<procVars, memVars, started>> /\ ~Opening(c)
    BY <1>9 DEF CancelDisown, Opening
  <2> QED BY <1>0, <2>1, <2>2, <2>3 DEF HandleEffect, procVars, memVars
<1>10. CASE CancelPersist(c)
  <2>1. OtherCalls(c) /\ call'[c].g = g /\ call'[c].r = r /\ call'[c].pc = "signal"
    BY <1>3, <1>10 DEF CancelPersist
  <2>2. RowsStay
    BY <1>1, <1>10, RowStays DEF CancelPersist, RowsStay
  <2>3. UNCHANGED <<procVars, memVars, started>> /\ ~Opening(c)
    BY <1>10 DEF CancelPersist, Opening
  <2> QED BY <1>0, <2>1, <2>2, <2>3 DEF HandleEffect, procVars, memVars
<1>11. CASE CancelSignal(c)
  <2>1. OtherCalls(c) /\ call'[c].g = g /\ call'[c].r = r /\ call'[c].pc = "done"
    BY <1>4, <1>11 DEF CancelSignal, Answer
  <2>2. UNCHANGED <<procVars, runs, slots, exec, row, started>> /\ ~Opening(c)
    BY <1>11 DEF CancelSignal, Opening
  <2> QED BY <1>0, <2>1, <2>2 DEF HandleEffect, RowsStay, procVars
<1> QED BY <1>5, <1>6, <1>7, <1>8, <1>9, <1>10, <1>11 DEF Handle

\* One step of a process as a whole.
Forgets(g) ==
  /\ \A q \in Runs : /\ runs'[g][q] = Absent
                     /\ exec'[g][q].pc = "none" /\ ~exec'[g][q].slot
  /\ slots'[g] = 0 /\ row' = row
  /\ \A h \in Gateways : h # g =>
       slots'[h] = slots[h] /\ runs'[h] = runs[h] /\ exec'[h] = exec[h]
OtherGateways(g) == \A h \in Gateways : h # g => gw'[h] = gw[h]

ProcessEffect(g) ==
  /\ OtherGateways(g) /\ UNCHANGED started /\ RowsStay
  /\ \/ /\ \/ gw[g] = "serving" /\ gw'[g] = "draining"
           \/ gw[g] = "stopping" /\ gw'[g] = "stopped"
           \/ gw[g] = "recovering" /\ gw'[g] = "serving"
           \/ gw'[g] = gw[g]
        /\ UNCHANGED <<runs, exec, slots, call>>
     \/ /\ gw[g] = "draining" /\ gw'[g] = "stopping" /\ Handlers(g) = {}
        /\ \A q \in Runs :
             runs'[g][q] = IF runs[g][q] \in Active THEN "cancelling" ELSE runs[g][q]
        /\ \A h \in Gateways : h # g => runs'[h] = runs[h]
        /\ UNCHANGED <<exec, slots, call>>
     \/ /\ gw'[g] = "down" /\ Forgets(g)
        /\ \A c \in Calls : call'[c] = IF c \in Handlers(g) THEN LostCall ELSE call[c]
     \/ /\ gw[g] \in {"down", "stopped"} /\ gw'[g] = "recovering" /\ Forgets(g)
        /\ UNCHANGED call

\* What shutdown, exit, restart and recovery do to memory and rows.
LEMMA ProcessHasEffect ==
  ASSUME TypeOK, NEW g \in Gateways,
         Interrupt(g) \/ Shutdown(g) \/ Crash(g) \/ Restart(g) \/ Recover(g)
  PROVE  ProcessEffect(g)
<1> USE StatusFacts
<1>0. /\ DOMAIN gw = Gateways
      /\ runs \in [Gateways -> [Runs -> Status \cup {Absent}]]
      /\ exec \in [Gateways -> [Runs -> ExecRecord]]
      /\ slots \in [Gateways -> Nat]
  BY DEF TypeOK, StatusMap
<1>1. ASSUME NEW phase, gw' = [gw EXCEPT ![g] = phase]
      PROVE  gw'[g] = phase /\ OtherGateways(g)
  BY <1>0, <1>1 DEF OtherGateways
<1>2. ASSUME ForgetProcess(g), UNCHANGED row
      PROVE  Forgets(g)
  <2>1. /\ runs' = [runs EXCEPT ![g] = [q \in Runs |-> Absent]]
        /\ exec' = [exec EXCEPT ![g] = [q \in Runs |-> NoExec]]
        /\ slots' = [slots EXCEPT ![g] = 0]
    BY <1>2 DEF ForgetProcess
  <2>2. /\ \A q \in Runs : runs'[g][q] = Absent /\ exec'[g][q] = NoExec
        /\ slots'[g] = 0
        /\ \A h \in Gateways : h # g =>
             slots'[h] = slots[h] /\ runs'[h] = runs[h] /\ exec'[h] = exec[h]
    BY <1>0, <2>1
  <2>3. NoExec.pc = "none" /\ ~NoExec.slot
    BY DEF NoExec
  <2> QED BY <1>2, <2>2, <2>3 DEF Forgets
<1>3. CASE Interrupt(g)
  BY <1>1, <1>3 DEF Interrupt, ProcessEffect, RowsStay, memVars
<1>4. CASE ShutdownMark(g)
  <2>1. gw'[g] = "stopping" /\ OtherGateways(g)
    BY <1>1, <1>4 DEF ShutdownMark
  <2>2. runs' = [runs EXCEPT ![g] = [q \in Runs |->
                   IF q \in {p \in Runs : runs[g][p] \in Active}
                   THEN "cancelling" ELSE runs[g][q]]]
    BY <1>4 DEF ShutdownMark
  <2>3. /\ \A q \in Runs :
             runs'[g][q] = IF runs[g][q] \in Active THEN "cancelling" ELSE runs[g][q]
        /\ \A h \in Gateways : h # g => runs'[h] = runs[h]
    BY <1>0, <2>2
  <2> QED BY <1>4, <2>1, <2>3 DEF ShutdownMark, ProcessEffect, RowsStay
<1>5. CASE ShutdownReturn(g)
  BY <1>1, <1>5 DEF ShutdownReturn, ProcessEffect, RowsStay, memVars
<1>6. ASSUME NEW r \in Runs,
             ShutdownPersist(g, r) \/ ShutdownSignal(g, r) \/ RecoverSave(g, r)
      PROVE  ProcessEffect(g)
  <2>1. RowsStay
    <3>1. ASSUME NEW status \in Status, SaveRunWithEvent(r, status) PROVE RowsStay
      BY <3>1, RowStays
    <3> QED BY <1>6, <3>1 DEF ShutdownPersist, ShutdownSignal, RecoverSave, RowsStay
  <2>2. UNCHANGED <<gw, runs, exec, slots, call, started>>
    BY <1>6 DEF ShutdownPersist, ShutdownSignal, RecoverSave, memVars
  <2> QED BY <2>1, <2>2 DEF ProcessEffect, OtherGateways
<1>7. CASE Crash(g)
  <2>1. gw'[g] = "down" /\ OtherGateways(g) /\ Forgets(g)
    BY <1>1, <1>2, <1>7 DEF Crash
  <2>2. \A c \in Calls : call'[c] = IF c \in Handlers(g) THEN LostCall ELSE call[c]
    BY <1>7 DEF Crash
  <2> QED BY <1>7, <2>1, <2>2 DEF Crash, ProcessEffect, RowsStay
<1>8. CASE Restart(g)
  BY <1>1, <1>2, <1>8 DEF Restart, ProcessEffect, RowsStay
<1>9. CASE RecoverList(g)
  <2>1. gw' = gw \/ gw' = [gw EXCEPT ![g] = "serving"]
    BY <1>9 DEF RecoverList
  <2>2. OtherGateways(g) /\ (gw'[g] = gw[g] \/ gw'[g] = "serving")
    BY <1>0, <2>1 DEF OtherGateways
  <2> QED BY <1>9, <2>2 DEF RecoverList, ProcessEffect, RowsStay, memVars
<1> QED BY <1>3, <1>4, <1>5, <1>6, <1>7, <1>8, <1>9 DEF Shutdown, Recover

\* Every step of the specification is one of these four, or a stutter.
Effect ==
  \/ \E c \in Calls, g \in Gateways, r \in Runs :
       RequestEffect(c, g, r) \/ HandleEffect(c, g, r)
  \/ \E g \in Gateways, r \in Runs :
       Alive(g) /\ ExecuteEffect(g, r) /\ UNCHANGED <<gw, call>>
  \/ \E g \in Gateways : ProcessEffect(g)
  \/ UNCHANGED vars

\* Every step has one of the effects; the lemmas below split on these.
LEMMA StepHasEffect ==
  ASSUME TypeOK, SlotsHeld, [Next]_vars
  PROVE  Effect
<1>1. ASSUME NEW g \in Gateways, NEW r \in Runs, Request(g, r)
      PROVE  Effect
  BY <1>1, RequestHasEffect DEF Effect, Request, Calls
<1>2. ASSUME NEW g \in Gateways, NEW r \in Runs, Execute(g, r) \/ Finish(g, r)
      PROVE  Effect
  BY <1>2, ExecuteHasEffect DEF Effect
<1>3. ASSUME NEW c \in Calls, Handle(c)
      PROVE  Effect
  BY <1>3, HandleHasEffect DEF Effect
<1>4. ASSUME NEW g \in Gateways,
             Interrupt(g) \/ Shutdown(g) \/ Crash(g) \/ Restart(g) \/ Recover(g)
      PROVE  Effect
  BY <1>4, ProcessHasEffect DEF Effect
<1> QED BY <1>1, <1>2, <1>3, <1>4 DEF Next, Effect

-----------------------------------------------------------------------------
(* Every step preserves each part of the inductive invariant                *)

\* A process stops only when its handlers are done, or takes them with it.
LEMMA ServedStep ==
  ASSUME IInv, Effect
  PROVE  HandlersAreServed'
<1> SUFFICES ASSUME NEW d \in Calls, Working(d)'
             PROVE  gw'[call'[d].g] \in {"serving", "draining"}
  BY DEF HandlersAreServed
<1>0. HandlersAreServed
  BY DEF IInv
<1>1. ASSUME NEW c \in Calls, NEW g \in Gateways, NEW r \in Runs,
             RequestEffect(c, g, r) \/ HandleEffect(c, g, r)
      PROVE  gw'[call'[d].g] \in {"serving", "draining"}
  BY <1>0, <1>1 DEF RequestEffect, HandleEffect, OtherCalls, HandlersAreServed, Working
<1>2. CASE UNCHANGED <<gw, call>>
  BY <1>0, <1>2 DEF HandlersAreServed, Working
<1>3. ASSUME NEW g \in Gateways, ProcessEffect(g)
      PROVE  gw'[call'[d].g] \in {"serving", "draining"}
  <2>1. Working(d) /\ call'[d] = call[d] /\ call[d].g \in Gateways
    <3>1. call'[d] # LostCall
      BY DEF Working, LostCall
    <3>2. call'[d] = call[d]
      BY <1>3, <3>1 DEF ProcessEffect
    <3>3. Working(d) /\ call[d].pc \in CallPC
      BY <3>2 DEF Working, CallPC, IInv, TypeOK, CallRecord, IdleCall, LostCall
    <3> QED BY <3>2, <3>3, HandlerRecord DEF IInv
  <2>2. gw[call[d].g] \in {"serving", "draining"}
    BY <1>0, <2>1 DEF HandlersAreServed
  <2>3. CASE call[d].g # g
    BY <1>3, <2>1, <2>2, <2>3 DEF ProcessEffect, OtherGateways
  <2>4. CASE call[d].g = g
    <3>1. d \in Handlers(g)
      BY <2>1, <2>4 DEF Handlers
    <3>2. call'[d] # LostCall
      BY DEF Working, LostCall
    <3> QED BY <1>3, <2>1, <2>2, <2>4, <3>1, <3>2 DEF ProcessEffect
  <2> QED BY <2>3, <2>4
<1> QED BY <1>1, <1>2, <1>3 DEF Effect, vars

\* Nothing is inserted or executed before a process serves.
LEMMA FreshStep ==
  ASSUME IInv, Effect
  PROVE  FreshProcess'
<1> SUFFICES ASSUME NEW h \in Gateways, NEW q \in Runs, gw'[h] = "recovering"
             PROVE  runs'[h][q] = Absent /\ exec'[h][q].pc = "none"
  BY DEF FreshProcess
<1>0. FreshProcess /\ HandlersAreServed
  BY DEF IInv
<1>1. ASSUME NEW c \in Calls, NEW g \in Gateways, NEW r \in Runs,
             RequestEffect(c, g, r) \/ HandleEffect(c, g, r)
      PROVE  runs'[h][q] = Absent /\ exec'[h][q].pc = "none"
  <2>1. gw[h] = "recovering" /\ h # g
    BY <1>0, <1>1 DEF RequestEffect, HandleEffect, HandlersAreServed
  <2> QED BY <1>0, <1>1, <2>1 DEF RequestEffect, HandleEffect, OtherRuns, FreshProcess
<1>2. ASSUME NEW g \in Gateways, NEW r \in Runs,
             Alive(g), ExecuteEffect(g, r), UNCHANGED <<gw, call>>
      PROVE  runs'[h][q] = Absent /\ exec'[h][q].pc = "none"
  <2>1. gw[h] = "recovering" /\ h # g
    BY <1>2 DEF Alive
  <2>2. runs'[h][q] = runs[h][q] /\ exec'[h][q] = exec[h][q]
    BY <1>2, <2>1 DEF ExecuteEffect, Moves
  <2> QED BY <1>0, <2>1, <2>2 DEF FreshProcess
<1>3. ASSUME NEW g \in Gateways, ProcessEffect(g)
      PROVE  runs'[h][q] = Absent /\ exec'[h][q].pc = "none"
  <2>1. CASE h # g
    BY <1>0, <1>3, <2>1 DEF ProcessEffect, OtherGateways, Forgets, FreshProcess
  <2>2. CASE h = g
    BY <1>0, <1>3, <2>2 DEF ProcessEffect, Forgets, FreshProcess
  <2> QED BY <2>1, <2>2
<1>4. CASE UNCHANGED vars
  BY <1>0, <1>4 DEF vars, FreshProcess
<1> QED BY <1>1, <1>2, <1>3, <1>4 DEF Effect

\* An entry is opened only by the handler that inserted it.
LEMMA OpenerStep ==
  ASSUME IInv, Effect
  PROVE  OneOpener'
<1> SUFFICES ASSUME NEW c1 \in Calls, NEW c2 \in Calls, Opening(c1)', Opening(c2)',
                    call'[c1].g = call'[c2].g, call'[c1].r = call'[c2].r
             PROVE  c1 = c2
  BY DEF OneOpener
<1>0. OneOpener /\ ExecutingRunIsTracked
  BY DEF IInv
<1>1. ASSUME NEW c \in Calls, NEW g \in Gateways, NEW r \in Runs, RequestEffect(c, g, r)
      PROVE  c1 = c2
  <2>1. Active \cap {Absent} = {}
    BY DEF Active, Absent
  <2>2. \A d \in Calls : Opening(d) /\ call[d].g = g => call[d].r # r \/ runs[g][r] \in Active
    BY <1>0 DEF ExecutingRunIsTracked
  <2> QED BY <1>0, <1>1, <2>1, <2>2 DEF RequestEffect, OtherCalls, Opening, OneOpener
<1>2. ASSUME NEW c \in Calls, NEW g \in Gateways, NEW r \in Runs, HandleEffect(c, g, r)
      PROVE  c1 = c2
  BY <1>0, <1>2 DEF HandleEffect, OtherCalls, Opening, OneOpener
<1>3. CASE UNCHANGED call
  BY <1>0, <1>3 DEF OneOpener, Opening
<1>4. ASSUME NEW g \in Gateways, ProcessEffect(g)
      PROVE  c1 = c2
  <2>1. LostCall.pc = "lost"
    BY DEF LostCall
  <2>2. call'[c1] = call[c1] /\ call'[c2] = call[c2]
    BY <1>4, <2>1 DEF ProcessEffect, Opening
  <2> QED BY <1>0, <2>2 DEF OneOpener, Opening
<1> QED BY <1>1, <1>2, <1>3, <1>4 DEF Effect, vars

\* An open entry is at a gateway and a run of the specification.
LEMMA OpeningRecord ==
  ASSUME TypeOK, NEW d \in Calls, Opening(d)
  PROVE  call[d].g \in Gateways /\ call[d].r \in Runs /\ Working(d)
BY HandlerRecord DEF Opening, CallPC, Working

\* An entry with a goroutine is never withdrawn: withdrawing needs an open
\* entry, and an open entry has no goroutine.
LEMMA TrackedStep ==
  ASSUME IInv, Effect
  PROVE  ExecutingRunIsTracked'
<1>0. TypeOK /\ OneOpener /\ ExecutingRunIsTracked /\ FreshProcess /\ HandlersAreServed
  BY DEF IInv
<1>a. /\ Absent \notin Active /\ Absent \notin Terminal
      /\ "queued" \in Active /\ "running" \in Active /\ "cancelling" \in Active
      /\ Absent # "queued" /\ Absent # "running" /\ Absent # "cancelling"
      /\ LostCall.pc = "lost"
  BY DEF Active, Terminal, Absent, LostCall
<1>1. ASSUME NEW h \in Gateways, NEW q \in Runs, Alive(h)', exec'[h][q].pc # "none"
      PROVE  runs'[h][q] # Absent
  <2>1. ASSUME NEW c \in Calls, NEW g \in Gateways, NEW r \in Runs, RequestEffect(c, g, r)
        PROVE  runs'[h][q] # Absent
    BY <1>0, <1>1, <1>a, <2>1 DEF RequestEffect, OtherRuns, Alive, ExecutingRunIsTracked
  <2>2. ASSUME NEW c \in Calls, NEW g \in Gateways, NEW r \in Runs, HandleEffect(c, g, r)
        PROVE  runs'[h][q] # Absent
    <3>1. Opening(c) => exec[g][r].pc = "none" /\ runs[g][r] \in Active
      BY <1>0, <2>2 DEF HandleEffect, ExecutingRunIsTracked
    <3> QED BY <1>0, <1>1, <1>a, <2>2, <3>1
            DEF HandleEffect, OtherRuns, Alive, Opening, ExecutingRunIsTracked
  <2>3. ASSUME NEW g \in Gateways, NEW r \in Runs,
               Alive(g), ExecuteEffect(g, r), UNCHANGED <<gw, call>>
        PROVE  runs'[h][q] # Absent
    <3>1. runs'[g][r] # Absent
      <4>1. exec[g][r].pc # "none"
        BY <2>3 DEF ExecuteEffect, Moves
      <4>2. runs[g][r] # Absent
        BY <1>0, <2>3, <4>1 DEF ExecutingRunIsTracked
      <4> QED BY <1>a, <2>3, <4>2 DEF ExecuteEffect, SameStatus
    <3>2. CASE h # g \/ q # r
      <4>1. runs'[h][q] = runs[h][q] /\ exec'[h][q] = exec[h][q]
        BY <2>3, <3>2 DEF ExecuteEffect, Moves
      <4> QED BY <1>0, <1>1, <2>3, <4>1 DEF ExecutingRunIsTracked, Alive
    <3> QED BY <3>1, <3>2
  <2>4. ASSUME NEW g \in Gateways, ProcessEffect(g)
        PROVE  runs'[h][q] # Absent
    <3>1. CASE h # g
      BY <1>0, <1>1, <2>4, <3>1
         DEF ProcessEffect, OtherGateways, Forgets, Alive, ExecutingRunIsTracked
    <3>2. CASE h = g
      BY <1>0, <1>1, <1>a, <2>4, <3>2
         DEF ProcessEffect, Forgets, Alive, ExecutingRunIsTracked, FreshProcess
    <3> QED BY <3>1, <3>2
  <2>5. CASE UNCHANGED vars
    BY <1>0, <1>1, <2>5 DEF vars, ExecutingRunIsTracked, Alive
  <2> QED BY <2>1, <2>2, <2>3, <2>4, <2>5 DEF Effect
<1>2. ASSUME NEW d \in Calls, Opening(d)'
      PROVE  /\ exec'[call'[d].g][call'[d].r].pc = "none"
             /\ runs'[call'[d].g][call'[d].r] \in Active
  <2>1. ASSUME NEW c \in Calls, NEW g \in Gateways, NEW r \in Runs, RequestEffect(c, g, r)
        PROVE  /\ exec'[call'[d].g][call'[d].r].pc = "none"
               /\ runs'[call'[d].g][call'[d].r] \in Active
    <3>1. CASE d = c
      BY <1>0, <1>2, <1>a, <2>1, <3>1
         DEF RequestEffect, Opening, ExecutingRunIsTracked, Alive
    <3>2. CASE d # c
      <4>1. call'[d] = call[d] /\ Opening(d)
        BY <1>2, <2>1, <3>2 DEF RequestEffect, OtherCalls, Opening
      <4>2. call[d].g \in Gateways /\ call[d].r \in Runs
        BY <1>0, <4>1, OpeningRecord
      <4> QED BY <1>0, <1>a, <2>1, <4>1, <4>2
              DEF RequestEffect, OtherRuns, ExecutingRunIsTracked
    <3> QED BY <3>1, <3>2
  <2>2. ASSUME NEW c \in Calls, NEW g \in Gateways, NEW r \in Runs, HandleEffect(c, g, r)
        PROVE  /\ exec'[call'[d].g][call'[d].r].pc = "none"
               /\ runs'[call'[d].g][call'[d].r] \in Active
    <3>1. Opening(d) /\ call'[d].g = call[d].g /\ call'[d].r = call[d].r
      BY <1>2, <2>2 DEF HandleEffect, OtherCalls, Opening
    <3>2. call[d].g \in Gateways /\ call[d].r \in Runs
      BY <1>0, <3>1, OpeningRecord
    <3>3. exec[call[d].g][call[d].r].pc = "none" /\ runs[call[d].g][call[d].r] \in Active
      BY <1>0, <3>1 DEF ExecutingRunIsTracked
    <3>4. d = c \/ call[d].g # g \/ call[d].r # r \/ ~Opening(c)
      BY <1>0, <2>2, <3>1 DEF HandleEffect, OneOpener
    <3> QED BY <1>2, <2>2, <3>1, <3>2, <3>3, <3>4 DEF HandleEffect, OtherRuns, Opening
  <2>3. ASSUME NEW g \in Gateways, NEW r \in Runs,
               Alive(g), ExecuteEffect(g, r), UNCHANGED <<gw, call>>
        PROVE  /\ exec'[call'[d].g][call'[d].r].pc = "none"
               /\ runs'[call'[d].g][call'[d].r] \in Active
    <3>1. Opening(d) /\ call'[d] = call[d]
      BY <1>2, <2>3 DEF Opening
    <3>2. /\ call[d].g \in Gateways /\ call[d].r \in Runs
          /\ exec[call[d].g][call[d].r].pc = "none"
          /\ runs[call[d].g][call[d].r] \in Active
      BY <1>0, <3>1, OpeningRecord DEF ExecutingRunIsTracked
    <3>3. exec[g][r].pc # "none"
      BY <2>3 DEF ExecuteEffect, Moves
    <3> QED BY <2>3, <3>1, <3>2, <3>3 DEF ExecuteEffect, Moves
  <2>4. ASSUME NEW g \in Gateways, ProcessEffect(g)
        PROVE  /\ exec'[call'[d].g][call'[d].r].pc = "none"
               /\ runs'[call'[d].g][call'[d].r] \in Active
    <3>1. Opening(d) /\ call'[d] = call[d]
      BY <1>2, <1>a, <2>4 DEF ProcessEffect, Opening
    <3>2. /\ call[d].g \in Gateways /\ call[d].r \in Runs /\ Working(d)
          /\ exec[call[d].g][call[d].r].pc = "none"
          /\ runs[call[d].g][call[d].r] \in Active
          /\ gw[call[d].g] \in {"serving", "draining"}
      BY <1>0, <3>1, OpeningRecord DEF ExecutingRunIsTracked, HandlersAreServed
    <3>3. CASE call[d].g # g
      BY <2>4, <3>1, <3>2, <3>3 DEF ProcessEffect, Forgets
    <3>4. CASE call[d].g = g
      <4>1. d \in Handlers(g)
        BY <3>2, <3>4 DEF Handlers
      <4>2. call[d] # LostCall
        BY <1>a, <3>1 DEF Opening
      <4> QED BY <1>a, <2>4, <3>1, <3>2, <3>4, <4>1, <4>2 DEF ProcessEffect
    <3> QED BY <3>3, <3>4
  <2>5. CASE UNCHANGED vars
    BY <1>0, <1>2, <2>5 DEF vars, ExecutingRunIsTracked, Opening
  <2> QED BY <2>1, <2>2, <2>3, <2>4, <2>5 DEF Effect
<1> QED BY <1>1, <1>2 DEF ExecutingRunIsTracked

\* The status in the map stays the one that the goroutine's position allows.
LEMMA StatusStep ==
  ASSUME IInv, Effect
  PROVE  StatusMatchesExec'
<1> DEFINE Ended   == {"persistEnd", "release", "done"}
           Started == {"persistRunning", "invoke", "starter"}
<1> SUFFICES ASSUME NEW h \in Gateways, NEW q \in Runs
             PROVE  /\ runs'[h][q] \in Terminal => exec'[h][q].pc \in Ended
                    /\ runs'[h][q] = "running" => exec'[h][q].pc \in Started
  BY DEF StatusMatchesExec
<1>0. TypeOK /\ ExecutingRunIsTracked /\ StatusMatchesExec
  BY DEF IInv
<1>a. \A status \in {Absent, "queued", "cancelling"} :
        status \notin Terminal /\ status # "running"
  BY DEF Terminal, Absent
<1>b. "running" \notin Terminal
  BY DEF Terminal
<1>1. ASSUME runs'[h][q] = runs[h][q], exec'[h][q] = exec[h][q]
      PROVE  /\ runs'[h][q] \in Terminal => exec'[h][q].pc \in Ended
             /\ runs'[h][q] = "running" => exec'[h][q].pc \in Started
  BY <1>0, <1>1 DEF StatusMatchesExec
<1>2. ASSUME NEW c \in Calls, NEW g \in Gateways, NEW r \in Runs, RequestEffect(c, g, r)
      PROVE  /\ runs'[h][q] \in Terminal => exec'[h][q].pc \in Ended
             /\ runs'[h][q] = "running" => exec'[h][q].pc \in Started
  BY <1>1, <1>2, <1>a DEF RequestEffect, OtherRuns
<1>3. ASSUME NEW c \in Calls, NEW g \in Gateways, NEW r \in Runs, HandleEffect(c, g, r)
      PROVE  /\ runs'[h][q] \in Terminal => exec'[h][q].pc \in Ended
             /\ runs'[h][q] = "running" => exec'[h][q].pc \in Started
  <2>1. CASE h # g \/ q # r
    BY <1>1, <1>3, <2>1 DEF HandleEffect, OtherRuns
  <2>2. CASE h = g /\ q = r /\ Opening(c)
    <3>1. exec[g][r].pc = "none" /\ runs[g][r] \in Active
      BY <1>0, <1>3, <2>2 DEF HandleEffect, ExecutingRunIsTracked
    <3>2. runs[g][r] \notin Terminal /\ runs[g][r] # "running"
      BY <1>0, <3>1 DEF StatusMatchesExec
    <3> QED BY <1>3, <1>a, <2>2, <3>1, <3>2 DEF HandleEffect, Opening
  <2>3. CASE h = g /\ q = r /\ ~Opening(c)
    BY <1>1, <1>3, <2>3 DEF HandleEffect, Opening
  <2> QED BY <2>1, <2>2, <2>3
<1>4. ASSUME NEW g \in Gateways, NEW r \in Runs, ExecuteEffect(g, r)
      PROVE  /\ runs'[h][q] \in Terminal => exec'[h][q].pc \in Ended
             /\ runs'[h][q] = "running" => exec'[h][q].pc \in Started
  <2>1. CASE h # g \/ q # r
    BY <1>1, <1>4, <2>1 DEF ExecuteEffect, Moves
  <2>2. CASE h = g /\ q = r
    <3>1. /\ runs[g][r] \in Terminal => exec[g][r].pc \in Ended
          /\ runs[g][r] = "running" => exec[g][r].pc \in Started
      BY <1>0 DEF StatusMatchesExec
    <3> QED BY <1>4, <1>b, <2>2, <3>1 DEF ExecuteEffect, Moves, SameStatus
  <2> QED BY <2>1, <2>2
<1>5. ASSUME NEW g \in Gateways, ProcessEffect(g)
      PROVE  /\ runs'[h][q] \in Terminal => exec'[h][q].pc \in Ended
             /\ runs'[h][q] = "running" => exec'[h][q].pc \in Started
  <2>1. CASE h # g
    BY <1>1, <1>5, <2>1 DEF ProcessEffect, Forgets
  <2>2. CASE h = g /\ Forgets(g)
    BY <1>a, <2>2 DEF Forgets
  <2>3. CASE h = g /\ ~Forgets(g)
    <3>1. exec'[h][q] = exec[h][q] /\ (runs'[h][q] = runs[h][q] \/ runs'[h][q] = "cancelling")
      BY <1>5, <2>3 DEF ProcessEffect
    <3> QED BY <1>1, <1>a, <3>1
  <2> QED BY <2>1, <2>2, <2>3
<1>6. CASE UNCHANGED vars
  BY <1>1, <1>6 DEF vars
<1> QED BY <1>2, <1>3, <1>4, <1>5, <1>6 DEF Effect

\* A slot is held exactly where acquireRunSlot and its release say.
LEMMA HeldStep ==
  ASSUME IInv, Effect
  PROVE  SlotsHeld'
<1> DEFINE Late == InSlot \cup {"persistEnd", "release"}
<1> SUFFICES ASSUME NEW h \in Gateways, NEW q \in Runs
             PROVE  /\ exec'[h][q].slot => exec'[h][q].pc \in Late
                    /\ exec'[h][q].pc \in InSlot /\ MaxConcurrent # 0 => exec'[h][q].slot
  BY DEF SlotsHeld
<1>0. SlotsHeld
  BY DEF IInv
<1>1. ASSUME exec'[h][q] = exec[h][q]
      PROVE  /\ exec'[h][q].slot => exec'[h][q].pc \in Late
             /\ exec'[h][q].pc \in InSlot /\ MaxConcurrent # 0 => exec'[h][q].slot
  BY <1>0, <1>1 DEF SlotsHeld
<1>2. ASSUME ~exec'[h][q].slot, exec'[h][q].pc \in {"none", "slot", "dropped", "done"}
      PROVE  /\ exec'[h][q].slot => exec'[h][q].pc \in Late
             /\ exec'[h][q].pc \in InSlot /\ MaxConcurrent # 0 => exec'[h][q].slot
  BY <1>2 DEF InSlot
<1>3. ASSUME NEW c \in Calls, NEW g \in Gateways, NEW r \in Runs,
             RequestEffect(c, g, r) \/ HandleEffect(c, g, r)
      PROVE  /\ exec'[h][q].slot => exec'[h][q].pc \in Late
             /\ exec'[h][q].pc \in InSlot /\ MaxConcurrent # 0 => exec'[h][q].slot
  BY <1>1, <1>2, <1>3 DEF RequestEffect, HandleEffect
<1>4. ASSUME NEW g \in Gateways, NEW r \in Runs, ExecuteEffect(g, r)
      PROVE  /\ exec'[h][q].slot => exec'[h][q].pc \in Late
             /\ exec'[h][q].pc \in InSlot /\ MaxConcurrent # 0 => exec'[h][q].slot
  <2>1. CASE h # g \/ q # r
    BY <1>1, <1>4, <2>1 DEF ExecuteEffect, Moves
  <2>2. CASE h = g /\ q = r
    <3>1. /\ exec[g][r].slot => exec[g][r].pc \in Late
          /\ exec[g][r].pc \in InSlot /\ MaxConcurrent # 0 => exec[g][r].slot
      BY <1>0 DEF SlotsHeld
    <3> QED BY <1>4, <2>2, <3>1 DEF ExecuteEffect, Moves, SameSlot, InSlot
  <2> QED BY <2>1, <2>2
<1>5. ASSUME NEW g \in Gateways, ProcessEffect(g)
      PROVE  /\ exec'[h][q].slot => exec'[h][q].pc \in Late
             /\ exec'[h][q].pc \in InSlot /\ MaxConcurrent # 0 => exec'[h][q].slot
  BY <1>1, <1>2, <1>5 DEF ProcessEffect, Forgets
<1>6. CASE UNCHANGED vars
  BY <1>1, <1>6 DEF vars
<1> QED BY <1>3, <1>4, <1>5, <1>6 DEF Effect

\* Slots stay accounted for and bounded.
LEMMA SlotStep ==
  ASSUME IInv, Effect
  PROVE  SlotAccounting' /\ SlotsBounded'
<1>0. /\ TypeOK /\ SlotAccounting /\ SlotsHeld /\ SlotsBounded
      /\ slots \in [Gateways -> Nat] /\ MaxConcurrent \in Nat
  BY RunManagerAssumption DEF IInv, TypeOK
<1>1. ASSUME UNCHANGED slots,
             \A h \in Gateways, q \in Runs : exec'[h][q].slot <=> exec[h][q].slot
      PROVE  SlotAccounting' /\ SlotsBounded'
  BY <1>0, <1>1, SlotFrame DEF SlotsBounded
<1>2. ASSUME NEW c \in Calls, NEW g \in Gateways, NEW r \in Runs, RequestEffect(c, g, r)
      PROVE  SlotAccounting' /\ SlotsBounded'
  BY <1>1, <1>2 DEF RequestEffect
<1>3. ASSUME NEW c \in Calls, NEW g \in Gateways, NEW r \in Runs, HandleEffect(c, g, r)
      PROVE  SlotAccounting' /\ SlotsBounded'
  <2>1. CASE Opening(c)
    <3>1. exec[g][r].pc = "none"
      BY <1>3, <2>1 DEF HandleEffect, IInv, ExecutingRunIsTracked
    <3>2. ~exec[g][r].slot
      BY <1>0, <3>1 DEF SlotsHeld, InSlot
    <3>3. \A h \in Gateways, q \in Runs : exec'[h][q].slot <=> exec[h][q].slot
      BY <1>3, <3>2 DEF HandleEffect
    <3> QED BY <1>1, <1>3, <3>3 DEF HandleEffect
  <2>2. CASE ~Opening(c)
    BY <1>1, <1>3, <2>2 DEF HandleEffect, Opening
  <2> QED BY <2>1, <2>2
<1>4. ASSUME NEW g \in Gateways, NEW r \in Runs, ExecuteEffect(g, r)
      PROVE  SlotAccounting' /\ SlotsBounded'
  <2>1. CASE AcquireSlot(g, r) /\ MaxConcurrent # 0
    <3>1. SlotAccounting'
      BY <1>0, <2>1, SlotAcquire
    <3>2. slots[g] < MaxConcurrent /\ slots' = [slots EXCEPT ![g] = slots[g] + 1]
      BY <2>1 DEF AcquireSlot
    <3>3. SlotsBounded'
      BY <1>0, <3>2 DEF SlotsBounded
    <3> QED BY <3>1, <3>3
  <2>2. CASE Release(g, r)
    <3>1. SlotAccounting'
      BY <1>0, <2>2, SlotRelease
    <3>2. slots' = [slots EXCEPT ![g] = IF exec[g][r].slot THEN slots[g] - 1 ELSE slots[g]]
      BY <2>2 DEF Release
    <3>3. SlotsBounded'
      BY <1>0, <3>2 DEF SlotsBounded
    <3> QED BY <3>1, <3>3
  <2>3. CASE ~Release(g, r) /\ (AcquireSlot(g, r) => MaxConcurrent = 0)
    <3>1. UNCHANGED slots
      BY <1>4, <2>3 DEF ExecuteEffect, AcquireSlot
    <3>2. exec'[g][r].slot <=> exec[g][r].slot
      <4>1. exec[g][r].pc = "slot" => ~exec[g][r].slot
        BY <1>0 DEF SlotsHeld, InSlot
      <4> QED BY <1>4, <2>3, <4>1 DEF ExecuteEffect, SameSlot, Moves
    <3>3. \A h \in Gateways, q \in Runs :
            (h # g \/ q # r) => exec'[h][q] = exec[h][q]
      BY <1>4 DEF ExecuteEffect, Moves
    <3> QED BY <1>1, <3>1, <3>2, <3>3
  <2> QED BY <2>1, <2>2, <2>3
<1>5. ASSUME NEW g \in Gateways, ProcessEffect(g)
      PROVE  SlotAccounting' /\ SlotsBounded'
  <2>1. CASE Forgets(g)
    <3>1. ASSUME NEW h \in Gateways
          PROVE  /\ slots'[h] = Cardinality(Holders(h)')
                 /\ MaxConcurrent # 0 => slots'[h] <= MaxConcurrent
      <4>1. CASE h = g
        <5>1. Holders(h)' = {} /\ slots'[h] = 0
          BY <2>1, <4>1 DEF Forgets, Holders
        <5> QED BY <1>0, <5>1, FS_EmptySet
      <4>2. CASE h # g
        <5>1. Holders(h)' = Holders(h) /\ slots'[h] = slots[h]
          BY <2>1, <4>2 DEF Forgets, Holders
        <5> QED BY <1>0, <5>1 DEF SlotAccounting, SlotsBounded
      <4> QED BY <4>1, <4>2
    <3> QED BY <3>1 DEF SlotAccounting, SlotsBounded
  <2>2. CASE ~Forgets(g)
    BY <1>1, <1>5, <2>2 DEF ProcessEffect
  <2> QED BY <2>1, <2>2
<1>6. CASE UNCHANGED vars
  BY <1>1, <1>6 DEF vars
<1> QED BY <1>2, <1>3, <1>4, <1>5, <1>6 DEF Effect

\* The claim of one run id, the body of ClaimIsExclusive.
ExclusiveFor(r) ==
  /\ row[r] = Absent =>
       /\ started[r] = 0
       /\ \A c \in Calls : ~Claimant(c, r)
       /\ \A g \in Gateways : exec[g][r].pc = "none"
  /\ \A c \in Calls : Claimant(c, r) =>
       /\ started[r] = 0
       /\ \A d \in Calls : Claimant(d, r) => d = c
       /\ \A g \in Gateways : exec[g][r].pc = "none"
  /\ \A g \in Gateways : exec[g][r].pc \in BeforeStart =>
       /\ started[r] = 0
       /\ \A h \in Gateways : exec[h][r].pc \in BeforeStart => h = g

\* The right to execute a run moves from the absent row to the claiming
\* handler to the goroutine, and never exists twice.
LEMMA ClaimStep ==
  ASSUME IInv, Effect
  PROVE  ClaimIsExclusive' /\ AtMostOnceExecution'
<1> SUFFICES ASSUME NEW p \in Runs
             PROVE  ExclusiveFor(p)' /\ started'[p] <= 1
  BY DEF ClaimIsExclusive, AtMostOnceExecution, ExclusiveFor
<1>0. /\ TypeOK /\ ExclusiveFor(p) /\ started[p] <= 1 /\ started \in [Runs -> Nat]
      /\ OneOpener
  BY DEF IInv, ClaimIsExclusive, AtMostOnceExecution, ExclusiveFor, TypeOK
<1>a. "none" \notin BeforeStart
  BY DEF BeforeStart
\* Nothing new happens to run id p.
<1>1. ASSUME started'[p] = started[p],
             row'[p] = Absent => row[p] = Absent,
             \A c \in Calls : Claimant(c, p)' => Claimant(c, p),
             \A g \in Gateways : exec'[g][p].pc \in {exec[g][p].pc, "none"}
      PROVE  ExclusiveFor(p)' /\ started'[p] <= 1
  <2>1. \A g \in Gateways : exec'[g][p].pc \in BeforeStart => exec[g][p].pc \in BeforeStart
    BY <1>1, <1>a
  <2>2. \A g \in Gateways : exec[g][p].pc = "none" => exec'[g][p].pc = "none"
    BY <1>1
  <2> QED BY <1>0, <1>1, <2>1, <2>2 DEF ExclusiveFor
<1>2. ASSUME NEW c \in Calls, NEW g \in Gateways, NEW r \in Runs, RequestEffect(c, g, r)
      PROVE  ExclusiveFor(p)' /\ started'[p] <= 1
  <2>1. \A d \in Calls : Claimant(d, p)' => Claimant(d, p)
    BY <1>2 DEF RequestEffect, OtherCalls, Claimant
  <2> QED BY <1>1, <1>2, <2>1 DEF RequestEffect
<1>3. ASSUME NEW c \in Calls, NEW g \in Gateways, NEW r \in Runs, HandleEffect(c, g, r)
      PROVE  ExclusiveFor(p)' /\ started'[p] <= 1
  <2>0. /\ started' = started /\ (row'[p] = Absent => row[p] = Absent)
        /\ \A d \in Calls : d # c => (Claimant(d, p)' <=> Claimant(d, p))
    BY <1>3 DEF HandleEffect, RowsStay, OtherCalls, Claimant
  <2>1. CASE p # r
    <3>1. ~Claimant(c, p)' /\ \A h \in Gateways : exec'[h][p] = exec[h][p]
      BY <1>3, <2>1 DEF HandleEffect, Claimant
    <3> QED BY <1>1, <2>0, <3>1
  <2>2. CASE p = r /\ call[c].pc = "claim" /\ call'[c].pc = "launch"
    <3>1. row[p] = Absent /\ row'[p] # Absent /\ exec' = exec
      BY <1>3, <2>2 DEF HandleEffect, Opening
    <3>2. /\ started[p] = 0 /\ \A d \in Calls : ~Claimant(d, p)
          /\ \A h \in Gateways : exec[h][p].pc = "none"
      BY <1>0, <3>1 DEF ExclusiveFor
    <3>3. \A d \in Calls : Claimant(d, p)' => d = c
      BY <2>0, <3>2
    <3> QED BY <1>0, <1>a, <2>0, <3>1, <3>2, <3>3 DEF ExclusiveFor
  <2>3. CASE p = r /\ call[c].pc = "launch"
    <3>1. Claimant(c, p)
      BY <1>3, <2>3 DEF HandleEffect, Claimant
    <3>2. /\ started[p] = 0 /\ \A d \in Calls : Claimant(d, p) => d = c
          /\ \A h \in Gateways : exec[h][p].pc = "none"
          /\ row[p] # Absent
      BY <1>0, <3>1 DEF ExclusiveFor
    <3>3. call'[c].pc = "done" /\ \A h \in Gateways : h # g => exec'[h][p] = exec[h][p]
      BY <1>3, <2>3 DEF HandleEffect, Opening
    <3>4. \A d \in Calls : ~Claimant(d, p)'
      BY <2>0, <3>2, <3>3 DEF Claimant
    <3>5. \A h \in Gateways : exec'[h][p].pc \in BeforeStart => h = g
      BY <1>a, <3>2, <3>3
    <3> QED BY <1>0, <2>0, <3>2, <3>4, <3>5 DEF ExclusiveFor
  <2>4. CASE p = r /\ call[c].pc # "launch" /\ call'[c].pc # "launch"
    <3>1. ~Claimant(c, p)' /\ exec' = exec
      BY <1>3, <2>4 DEF HandleEffect, Claimant
    <3> QED BY <1>1, <2>0, <3>1
  <2> QED BY <1>3, <2>1, <2>2, <2>3, <2>4 DEF HandleEffect, Opening
<1>4. ASSUME NEW g \in Gateways, NEW r \in Runs,
             ExecuteEffect(g, r), UNCHANGED <<gw, call>>
      PROVE  ExclusiveFor(p)' /\ started'[p] <= 1
  <2>0. \A d \in Calls : Claimant(d, p)' <=> Claimant(d, p)
    BY <1>4 DEF Claimant
  <2>1. row'[p] = Absent => row[p] = Absent
    BY <1>4 DEF ExecuteEffect
  <2>2. CASE p # r
    <3>1. /\ started'[p] = started[p]
          /\ \A h \in Gateways : exec'[h][p] = exec[h][p]
      BY <1>4, <2>2 DEF ExecuteEffect, Moves
    <3> QED BY <1>1, <2>0, <2>1, <3>1
  <2>3. CASE p = r
    <3>1. exec[g][p].pc # "none" /\ \A h \in Gateways : h # g => exec'[h][p] = exec[h][p]
      BY <1>4, <2>3 DEF ExecuteEffect, Moves
    <3>2. row[p] # Absent /\ \A d \in Calls : ~Claimant(d, p)
      BY <1>0, <3>1 DEF ExclusiveFor
    <3>3. exec'[g][p].pc \in BeforeStart => exec[g][p].pc \in BeforeStart /\ started'[p] = started[p]
      BY <1>4, <2>3 DEF ExecuteEffect, Moves, BeforeStart
    <3>4. \/ started'[p] = started[p]
          \/ /\ exec[g][p].pc \in BeforeStart /\ exec'[g][p].pc \notin BeforeStart
             /\ started'[p] = started[p] + 1
      BY <1>4, <2>3 DEF ExecuteEffect, Moves, BeforeStart
    <3>5. \A h \in Gateways : exec'[h][p].pc \in BeforeStart =>
            /\ exec[h][p].pc \in BeforeStart /\ started'[p] = started[p]
      BY <1>0, <3>1, <3>3, <3>4 DEF ExclusiveFor
    <3>6. started'[p] <= 1
      BY <1>0, <3>4 DEF ExclusiveFor
    <3> QED BY <1>0, <2>0, <2>1, <3>2, <3>5, <3>6 DEF ExclusiveFor
  <2> QED BY <2>2, <2>3
<1>5. ASSUME NEW g \in Gateways, ProcessEffect(g)
      PROVE  ExclusiveFor(p)' /\ started'[p] <= 1
  <2>1. \A d \in Calls : Claimant(d, p)' => Claimant(d, p)
    BY <1>5 DEF ProcessEffect, Claimant, LostCall
  <2>2. \A h \in Gateways : exec'[h][p].pc \in {exec[h][p].pc, "none"}
    BY <1>5 DEF ProcessEffect, Forgets
  <2> QED BY <1>1, <1>5, <2>1, <2>2 DEF ProcessEffect, RowsStay
<1>6. CASE UNCHANGED vars
  BY <1>1, <1>6 DEF vars, Claimant
<1> QED BY <1>2, <1>3, <1>4, <1>5, <1>6 DEF Effect

-----------------------------------------------------------------------------
(* The inductive invariant, and what follows from it                        *)

\* The inductive invariant holds when the processes start.
LEMMA IInvInit == Init => IInv
<1> SUFFICES ASSUME Init PROVE IInv
  OBVIOUS
<1>0. /\ \A g \in Gateways, r \in Runs :
           runs[g][r] = Absent /\ exec[g][r].pc = "none" /\ ~exec[g][r].slot
      /\ \A g \in Gateways : gw[g] = "serving" /\ slots[g] = 0
      /\ \A c \in Calls : call[c].pc = "idle"
      /\ \A r \in Runs : row[r] = Absent /\ started[r] = 0
  BY DEF Init, NoExec, IdleCall
<1>1. SlotsHeld /\ SlotsBounded /\ HandlersAreServed /\ FreshProcess
  BY <1>0, RunManagerAssumption
     DEF SlotsHeld, InSlot, SlotsBounded, HandlersAreServed, Working, FreshProcess
<1>2. ExecutingRunIsTracked /\ OneOpener /\ StatusMatchesExec
  BY <1>0 DEF ExecutingRunIsTracked, Opening, OneOpener, StatusMatchesExec, Terminal, Absent
<1>3. ClaimIsExclusive /\ AtMostOnceExecution
  BY <1>0 DEF ClaimIsExclusive, Claimant, BeforeStart, AtMostOnceExecution
<1> QED BY <1>1, <1>2, <1>3, TypeInit, SlotInit DEF IInv

\* The inductive invariant is preserved by every step.
LEMMA IInvStep == IInv /\ [Next]_vars => IInv'
<1> SUFFICES ASSUME IInv, [Next]_vars PROVE IInv'
  OBVIOUS
<1>1. Effect
  BY StepHasEffect DEF IInv
<1>2. TypeOK'
  BY TypeStep DEF IInv
<1> QED BY <1>1, <1>2, ServedStep, FreshStep, OpenerStep, TrackedStep, StatusStep,
           HeldStep, SlotStep, ClaimStep DEF IInv

\* The inductive invariant of the manager.
THEOREM Invariance == Spec => []IInv
BY IInvInit, IInvStep, PTL DEF Spec

\* The variables keep their types; in particular no slot count goes below 0.
THEOREM TypeCorrect == Spec => []TypeOK
<1>1. IInv => TypeOK
  BY DEF IInv
<1> QED BY <1>1, Invariance, PTL

\* The slot channel counts the goroutines that hold a slot.
THEOREM SlotsAreAccounted == Spec => []SlotAccounting
<1>1. IInv => SlotAccounting
  BY DEF IInv
<1> QED BY <1>1, Invariance, PTL

\* No run id is executed twice, in whatever process.
THEOREM ExecutedAtMostOnce == Spec => []AtMostOnceExecution
<1>1. IInv => AtMostOnceExecution
  BY DEF IInv
<1> QED BY <1>1, Invariance, PTL

\* The entry of a run with a goroutine is never deleted from m.runs, and an
\* entry that may be deleted has no goroutine.
THEOREM EntriesAreTracked == Spec => []ExecutingRunIsTracked
<1>1. IInv => ExecutingRunIsTracked
  BY DEF IInv
<1> QED BY <1>1, Invariance, PTL

\* At most MaxConcurrent runs of a process are running.
THEOREM RunningIsBounded == Spec => []ConcurrencyBound
<1>1. IInv => ConcurrencyBound
  <2> SUFFICES ASSUME IInv, MaxConcurrent # 0, NEW g \in Gateways
               PROVE  Cardinality(RunningRuns(g)) <= MaxConcurrent
    BY DEF ConcurrencyBound
  <2>1. RunningRuns(g) \in SUBSET Holders(g)
    BY DEF IInv, StatusMatchesExec, SlotsHeld, InSlot, RunningRuns, Holders
  <2>2. IsFiniteSet(Holders(g))
    BY FS_Subset, RunManagerAssumption DEF Holders
  <2>3. slots[g] = Cardinality(Holders(g)) /\ slots[g] <= MaxConcurrent /\ slots[g] \in Nat
    BY DEF IInv, TypeOK, SlotAccounting, SlotsBounded
  <2>4. Cardinality(RunningRuns(g)) <= Cardinality(Holders(g))
    BY <2>1, <2>2, FS_Subset
  <2>5. Cardinality(RunningRuns(g)) \in Nat
    BY <2>1, <2>2, FS_Subset, FS_CardinalityType
  <2> QED BY <2>3, <2>4, <2>5, RunManagerAssumption
<1> QED BY <1>1, Invariance, PTL

\* A terminal status in memory is final until the process exits.
THEOREM TerminalStays == Spec => TerminalIsFinal
<1>1. ASSUME IInv, [Next]_vars
      PROVE  [\A g \in Gateways, r \in Runs :
                runs[g][r] \in Terminal /\ runs'[g][r] # runs[g][r]
                  => gw'[g] \in {"down", "recovering"}]_<<runs, gw>>
  <2> SUFFICES ASSUME NEW h \in Gateways, NEW q \in Runs,
                      runs[h][q] \in Terminal, runs'[h][q] # runs[h][q]
               PROVE  gw'[h] \in {"down", "recovering"}
    OBVIOUS
  <2>0. Effect
    BY <1>1, StepHasEffect DEF IInv
  <2>a. runs[h][q] \notin Active /\ runs[h][q] # Absent
    BY DEF Active, Terminal, Absent
  <2>1. ASSUME NEW c \in Calls, NEW g \in Gateways, NEW r \in Runs, RequestEffect(c, g, r)
        PROVE  FALSE
    BY <2>a, <2>1 DEF RequestEffect, OtherRuns
  <2>2. ASSUME NEW c \in Calls, NEW g \in Gateways, NEW r \in Runs, HandleEffect(c, g, r)
        PROVE  FALSE
    <3>1. Opening(c) => runs[g][r] \in Active
      BY <1>1, <2>2 DEF HandleEffect, IInv, ExecutingRunIsTracked
    <3> QED BY <2>2, <2>a, <3>1 DEF HandleEffect, OtherRuns, Opening
  <2>3. ASSUME NEW g \in Gateways, NEW r \in Runs, ExecuteEffect(g, r)
        PROVE  FALSE
    <3>1. h = g /\ q = r
      BY <2>3 DEF ExecuteEffect, Moves
    <3>2. exec[g][r].pc \in {"persistEnd", "release", "done"}
      BY <1>1, <3>1 DEF IInv, StatusMatchesExec
    <3> QED BY <2>3, <3>1, <3>2 DEF ExecuteEffect, Moves, SameStatus
  <2>4. ASSUME NEW g \in Gateways, ProcessEffect(g)
        PROVE  gw'[h] \in {"down", "recovering"}
    BY <2>4, <2>a DEF ProcessEffect, Forgets
  <2> QED BY <2>0, <2>1, <2>2, <2>3, <2>4 DEF Effect, vars
<1> QED BY <1>1, Invariance, PTL DEF Spec, TerminalIsFinal

-----------------------------------------------------------------------------
(* RunManager implements RunPool                                            *)

Claimed == {r \in Runs : row[r] # Absent}
Begun   == {r \in Runs : started[r] # 0}
Busy    == [g \in Gateways |-> {r \in Runs : exec[g][r].pc = "starter"}]

\* Fewer runs than the limit are with their starter while one is about to be.
LEMMA RoomToBegin ==
  ASSUME IInv, MaxConcurrent # 0, NEW g \in Gateways, NEW r \in Runs,
         exec[g][r].pc = "invoke"
  PROVE  Cardinality(Busy[g]) < MaxConcurrent
<1>1. IsFiniteSet(Holders(g)) /\ r \in Holders(g)
  BY FS_Subset, RunManagerAssumption DEF Holders, IInv, SlotsHeld, InSlot
<1>2. Busy[g] \in SUBSET (Holders(g) \ {r})
  BY DEF Busy, Holders, IInv, SlotsHeld, InSlot
<1>3. /\ IsFiniteSet(Holders(g) \ {r})
      /\ Cardinality(Holders(g) \ {r}) = Cardinality(Holders(g)) - 1
  BY <1>1, FS_RemoveElement
<1>4. /\ Cardinality(Busy[g]) <= Cardinality(Holders(g) \ {r})
      /\ Cardinality(Busy[g]) \in Nat
  BY <1>2, <1>3, FS_Subset, FS_CardinalityType
<1>5. slots[g] = Cardinality(Holders(g)) /\ slots[g] <= MaxConcurrent /\ slots[g] \in Nat
  BY DEF IInv, TypeOK, SlotAccounting, SlotsBounded
<1> QED BY <1>3, <1>4, <1>5, RunManagerAssumption

\* The abstract module's Cardinality is the one of this module.
LEMMA SameCardinality == \A S : Pool!Cardinality(S) = Cardinality(S)
BY Zenon DEF Pool!Cardinality, Cardinality, Pool!IsFiniteSet, IsFiniteSet

\* A step of the manager is a step of the pool or leaves it unchanged.
LEMMA PoolStep ==
  ASSUME IInv, [Next]_vars
  PROVE  [Pool!PoolNext]_<<Claimed, Begun, Busy>>
<1>0. Effect /\ TypeOK
  BY StepHasEffect DEF IInv
<1>1. ASSUME Begun' = Begun, Busy' = Busy, RowsStay
      PROVE  [Pool!PoolNext]_<<Claimed, Begun, Busy>>
  <2>1. CASE Claimed' = Claimed
    BY <1>1, <2>1
  <2>2. CASE Claimed' # Claimed
    <3>1. PICK r \in Runs : row'[r] # row[r]
      BY <2>2 DEF Claimed
    <3>2. row[r] = Absent /\ row'[r] # Absent /\ \A q \in Runs : q # r => row'[q] = row[q]
      BY <1>1, <2>2, <3>1 DEF RowsStay, Claimed
    <3>3. Claimed' = Claimed \cup {r} /\ r \notin Claimed
      BY <3>2 DEF Claimed
    <3>4. Pool!Claim(r)
      BY <1>1, <3>3 DEF Pool!Claim, Claimed, Begun, Busy
    <3> QED BY <3>4 DEF Pool!PoolNext
  <2> QED BY <2>1, <2>2
<1>2. ASSUME NEW c \in Calls, NEW g \in Gateways, NEW r \in Runs,
             RequestEffect(c, g, r)
      PROVE  [Pool!PoolNext]_<<Claimed, Begun, Busy>>
  BY <1>1, <1>2 DEF RequestEffect, RowsStay, Begun, Busy
<1>3. ASSUME NEW c \in Calls, NEW g \in Gateways, NEW r \in Runs,
             HandleEffect(c, g, r)
      PROVE  [Pool!PoolNext]_<<Claimed, Begun, Busy>>
  <2>1. \A h \in Gateways, q \in Runs :
          exec'[h][q].pc = "starter" <=> exec[h][q].pc = "starter"
    <3>1. Opening(c) => exec[g][r].pc = "none"
      BY <1>3 DEF HandleEffect, IInv, ExecutingRunIsTracked
    <3> QED BY <1>3, <3>1 DEF HandleEffect, Opening
  <2>2. Busy' = Busy /\ Begun' = Begun
    BY <1>3, <2>1 DEF Busy, Begun, HandleEffect
  <2> QED BY <1>1, <1>3, <2>2 DEF HandleEffect
<1>4. ASSUME NEW g \in Gateways, NEW r \in Runs,
             ExecuteEffect(g, r), UNCHANGED <<gw, call>>
      PROVE  [Pool!PoolNext]_<<Claimed, Begun, Busy>>
  <2>1. row[r] # Absent
    BY <1>4 DEF ExecuteEffect, Moves, IInv, ClaimIsExclusive
  <2>2. Claimed' = Claimed /\ r \in Claimed
    BY <1>4, <2>1 DEF ExecuteEffect, Claimed
  <2>3. \A h \in Gateways, q \in Runs :
          (h # g \/ q # r) => exec'[h][q] = exec[h][q]
    BY <1>4 DEF ExecuteEffect, Moves
  <2>4. CASE Moves(g, r, "invoke", "starter") /\ started'[r] = started[r] + 1
             /\ \A q \in Runs : q # r => started'[q] = started[q]
    <3>1. started[r] = 0 /\ started'[r] = 1
      BY <2>4 DEF Moves, IInv, ClaimIsExclusive, BeforeStart
    <3>2. Begun' = Begun \cup {r} /\ r \notin Begun
      BY <2>4, <3>1 DEF Begun
    <3>3. Busy' = [Busy EXCEPT ![g] = Busy[g] \cup {r}]
      <4>1. \A h \in Gateways : h # g => Busy'[h] = Busy[h]
        BY <2>3 DEF Busy
      <4>2. Busy'[g] = Busy[g] \cup {r}
        BY <2>3, <2>4 DEF Busy, Moves
      <4> QED BY <4>1, <4>2 DEF Busy
    <3>4. MaxConcurrent = 0 \/ Cardinality(Busy[g]) < MaxConcurrent
      BY <2>4, RoomToBegin DEF Moves
    <3>5. Pool!Begin(g, r)
      BY <2>2, <3>2, <3>3, <3>4, SameCardinality DEF Pool!Begin, Claimed, Begun, Busy
    <3> QED BY <3>5 DEF Pool!PoolNext
  <2>5. CASE Moves(g, r, "starter", "persistEnd") /\ started' = started
    <3>1. Busy' = [Busy EXCEPT ![g] = Busy[g] \ {r}] /\ r \in Busy[g]
      <4>1. \A h \in Gateways : h # g => Busy'[h] = Busy[h]
        BY <2>3 DEF Busy
      <4>2. Busy'[g] = Busy[g] \ {r} /\ r \in Busy[g]
        BY <2>3, <2>5 DEF Busy, Moves
      <4> QED BY <4>1, <4>2 DEF Busy
    <3>2. Begun' = Begun
      BY <2>5 DEF Begun
    <3>3. Pool!End(g, r)
      BY <2>2, <3>1, <3>2 DEF Pool!End, Claimed, Begun, Busy
    <3> QED BY <3>3 DEF Pool!PoolNext
  <2>6. CASE exec[g][r].pc # "starter" /\ exec'[g][r].pc # "starter" /\ started' = started
    <3>1. Busy' = Busy /\ Begun' = Begun
      BY <2>3, <2>6 DEF Busy, Begun
    <3> QED BY <2>2, <3>1
  <2> QED BY <1>4, <2>4, <2>5, <2>6 DEF ExecuteEffect, Moves
<1>5. ASSUME NEW g \in Gateways, ProcessEffect(g)
      PROVE  [Pool!PoolNext]_<<Claimed, Begun, Busy>>
  <2>1. CASE UNCHANGED exec
    BY <1>1, <1>5, <2>1 DEF ProcessEffect, Busy, Begun
  <2>2. CASE Forgets(g)
    <3>1. Busy' = [Busy EXCEPT ![g] = {}]
      BY <2>2 DEF Forgets, Busy
    <3>2. Claimed' = Claimed /\ Begun' = Begun
      BY <1>5, <2>2 DEF ProcessEffect, Forgets, Claimed, Begun
    <3>3. Pool!Halt(g)
      BY <3>1, <3>2 DEF Pool!Halt, Claimed, Begun, Busy
    <3> QED BY <3>3 DEF Pool!PoolNext
  <2> QED BY <1>5, <2>1, <2>2 DEF ProcessEffect
<1>6. CASE UNCHANGED vars
  BY <1>6 DEF vars, Claimed, Begun, Busy
<1> QED BY <1>0, <1>2, <1>3, <1>4, <1>5, <1>6 DEF Effect

\* The initial states of the manager are initial states of the pool.
LEMMA PoolStart == Init => Pool!PoolInit
<1> SUFFICES ASSUME Init PROVE Pool!PoolInit
  OBVIOUS
<1>1. {r \in Runs : row[r] # Absent} = {} /\ {r \in Runs : started[r] # 0} = {}
  BY DEF Init
<1>2. \A g \in Gateways : {r \in Runs : exec[g][r].pc = "starter"} = {}
  BY DEF Init, NoExec
<1> QED BY <1>1, <1>2 DEF Pool!PoolInit

\* Each step of the manager is a claim, a beginning, an end or a halt of the
\* abstract pool, or invisible to it.
THEOREM RefinesRunPool == Spec => ImplementsRunPool
<1>1. IInv /\ [Next]_vars => [Pool!PoolNext]_(Pool!poolVars)
  BY PoolStep DEF Pool!poolVars, Claimed, Begun, Busy
<1> QED BY <1>1, PoolStart, Invariance, PTL DEF Spec, ImplementsRunPool, Pool!PoolSpec

=============================================================================

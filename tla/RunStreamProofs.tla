-------------------------- MODULE RunStreamProofs --------------------------
(***************************************************************************)
(* Theorems about RunStream, for every set of requests, cancels and        *)
(* cursors and every capacity of a channel.  The argument:                 *)
(*   - the log, the events on their way and the events in a channel agree  *)
(*     (EventsInv): a terminal event exists only once execute has ended,   *)
(*     and in a channel nothing that execute stored before its outcome     *)
(*     comes after a terminal event;                                       *)
(*   - every row execute stored and that a stream wants is with the        *)
(*     client, lost, in the channel, or still to be sent (DeliveredInv);   *)
(*   - without a Cancel the outcome is in the channel of every stream it   *)
(*     is not still on its way to (OutcomeInv);                            *)
(*   - the theorems at the end follow from these by temporal logic.        *)
(***************************************************************************)
EXTENDS RunStream, TLAPS, FiniteSetTheorems, SequenceTheorems,
        WellFoundedInduction

-----------------------------------------------------------------------------
(* The invariant                                                            *)

\* The publisher has stored its event.
Stored == {"collect", "send", "drain", "resend", "published"}

\* In the middle of publishing.
Sending == {"send", "drain", "resend"}

\* Terminal statuses appear with the end of execute and not before.
StageInv ==
  /\ stage = "ended" <=> status \in Terminal
  /\ stage = "ended" => pub[Executor].ev.status \in Terminal
  /\ \A p \in Publishers : pub[p].ev.status \in Terminal => stage = "ended"
  /\ \A n \in DOMAIN log : log[n].status \in Terminal => stage = "ended"
  /\ \A s \in Streams : h[s].initial \in Terminal => stage = "ended"

\* A publisher knows the row of its event, and whom it has still to serve.
PubInv ==
  /\ pub[Executor].pc \notin {"idle", "done"}
  /\ \A p \in Publishers :
       /\ pub[p].pc \in Stored =>
            /\ pub[p].ev.row \in DOMAIN log
            /\ log[pub[p].ev.row].by = p
            /\ log[pub[p].ev.row].status = pub[p].ev.status
       /\ pub[p].pc \notin Sending => pub[p].todo = {}
       /\ pub[p].cur \subseteq pub[p].todo
       /\ \A s, t \in pub[p].cur : s = t
       /\ pub[p].pc \in {"drain", "resend"} => pub[p].ev.status \in Terminal

\* What is in a channel was stored, and after a terminal event execute
\* publishes nothing but its outcome.
ChannelInv ==
  \A s \in Streams : \A i \in DOMAIN ch[s] :
    /\ ch[s][i].row \in DOMAIN log
    /\ log[ch[s][i].row].status = ch[s][i].status
    /\ \A j \in DOMAIN ch[s] :
         i < j /\ ch[s][i].status \in Terminal /\ log[ch[s][j].row].by = Executor
           => ch[s][j].status \in Terminal

EventsInv == StageInv /\ PubInv /\ ChannelInv

\* What a handler has sent before, while and after it streams.
HandlerInv ==
  \A s \in Streams :
    /\ h[s].pc \in {"new", "get", "snapshot"} => sent[s] = NothingSent
    /\ h[s].pc = "stream" => sent[s].id <= h[s].seq
    /\ h[s].pc = "ended" =>
         /\ stage = "ended"
         /\ h[s].filter = Any => sent[s].st \in Terminal

\* The execute goroutine has yet to serve s with what it stored as row n.
Pending(s, n) ==
  /\ pub[Executor].ev.row = n
  /\ pub[Executor].pc = "collect" \/ s \in pub[Executor].todo

InChannel(s, n) == \E i \in DOMAIN ch[s] : ch[s][i].row = n

\* A row of execute that the client of s wants before the outcome.
Awaited(s, n) ==
  n > h[s].after /\ ByExecutor(n) /\ log[n].status \notin Terminal

Delivered(s) ==
  h[s].pc \in {"stream", "ended"} /\ Complete(s) =>
    \A n \in DOMAIN log : Awaited(s, n) =>
      \/ n \in sent[s].got \cup lost[s]
      \/ h[s].pc = "stream" /\ (InChannel(s, n) \/ Pending(s, n))

DeliveredInv == \A s \in Streams : Delivered(s)

\* The outcome is in the channel of s or will be offered to it.
OutcomeDue(s) ==
  \/ HasTerminal(s)
  \/ pub[Executor].pc \in {"store", "collect"} \/ s \in pub[Executor].todo

\* A stream that did not find the run ended when it was opened is told.
Told(s) ==
  \/ h[s].pc = "snapshot" /\ h[s].initial \notin Terminal
  \/ h[s].pc = "stream" /\ Complete(s)
  => OutcomeDue(s)

\* Without a Cancel: the place Drain made in a channel is still there, the
\* last row is the outcome once it is stored, and every stream is told.
OutcomeInv ==
  NoCancel =>
    /\ \A s \in Streams :
         pub[Executor].pc = "resend" /\ s \in pub[Executor].cur => Len(ch[s]) < Buffer
    /\ stage = "ended" /\ pub[Executor].pc # "store" => log[Len(log)].status \in Terminal
    /\ stage = "ended" => \A s \in Streams : Told(s)

IInv == TypeOK /\ EventsInv /\ HandlerInv /\ DeliveredInv /\ OutcomeInv

-----------------------------------------------------------------------------
(* Types                                                                    *)

PubRecord ==
  [pc: {"idle", "store", "collect", "send", "drain", "resend", "published", "done"},
   ev: EventRecord, todo: SUBSET Streams, cur: SUBSET Streams, fire: BOOLEAN]

HandlerRecord ==
  [pc: {"new", "get", "snapshot", "stream", "ended", "left"}, after: Nat,
   filter: Types \cup {Any}, limit: Nat, seq: Nat, initial: Status]

SentRecord == [id: Nat, got: SUBSET Nat, st: Status]

LogRecord == [type: Types, status: Status, by: Publishers]

\* The literal statuses are statuses, and the statuses are types.
LEMMA StatusFacts ==
  /\ {"queued", "running", "cancelling", "completed", "failed", "cancelled"} \subseteq Status
  /\ Status \subseteq Types /\ Progress \in Types /\ Progress \notin Status
  /\ Terminal \subseteq Status
  /\ "queued" \notin Terminal /\ "running" \notin Terminal /\ "cancelling" \notin Terminal
BY DEF Status, Types, Terminal, Progress

\* The records the code builds have their types.
LEMMA EventType ==
  ASSUME NEW type \in Types, NEW st \in Status
  PROVE  /\ Event(type, st) \in EventRecord
         /\ Event(type, st) = [type |-> type, status |-> st, seq |-> 0, row |-> 0]
BY DEF Event, EventRecord

\* A publisher that starts publishing has a record of the type.
LEMMA NewPubType ==
  ASSUME NEW pc \in {"idle", "store", "collect"}, NEW ev \in EventRecord, NEW fire \in BOOLEAN
  PROVE  /\ NewPub(pc, ev, fire) \in PubRecord
         /\ NewPub(pc, ev, fire).pc = pc /\ NewPub(pc, ev, fire).ev = ev
         /\ NewPub(pc, ev, fire).todo = {} /\ NewPub(pc, ev, fire).cur = {}
         /\ NewPub(pc, ev, fire).fire = fire
BY DEF NewPub, PubRecord

\* The type invariant, part by part.
LEMMA Typed ==
  ASSUME TypeOK
  PROVE  /\ pub \in [Publishers -> PubRecord]
         /\ \A p \in Publishers : pub[p] \in PubRecord /\ pub[p].ev \in EventRecord
         /\ h \in [Streams -> HandlerRecord]
         /\ sent \in [Streams -> SentRecord]
         /\ log \in Seq(LogRecord)
         /\ ch \in [Streams -> Seq(EventRecord)]
         /\ lost \in [Streams -> SUBSET Nat]
BY DEF TypeOK, PubRecord, HandlerRecord, SentRecord, LogRecord

-----------------------------------------------------------------------------
(* What the actions do                                                      *)

\* Store appends the event as the next row and tells the event its row.
LEMMA StoreEffect ==
  ASSUME TypeOK, NEW p \in Publishers, Store(p)
  PROVE  /\ pub[p].pc = "store"
         /\ log' \in Seq(LogRecord) /\ Len(log') = Len(log) + 1
         /\ \A n \in DOMAIN log : log'[n] = log[n]
         /\ log'[Len(log) + 1].type = pub[p].ev.type
         /\ log'[Len(log) + 1].status = pub[p].ev.status
         /\ log'[Len(log) + 1].by = p
         /\ pub' \in [Publishers -> PubRecord]
         /\ \A q \in Publishers \ {p} : pub'[q] = pub[q]
         /\ pub'[p].pc = "collect" /\ pub'[p].ev.row = Len(log) + 1
         /\ pub'[p].ev.status = pub[p].ev.status
         /\ pub'[p].todo = pub[p].todo /\ pub'[p].cur = pub[p].cur
<1> DEFINE n == Len(log) + 1
           row == [type |-> pub[p].ev.type, status |-> pub[p].ev.status, by |-> p]
           e == [pub[p].ev EXCEPT !.row = n,
                                  !.seq = IF pub[p].ev.type = Progress THEN n ELSE 0]
           r == [pub[p] EXCEPT !.pc = "collect", !.ev = e]
<1>1. pub[p] \in PubRecord /\ pub[p].ev \in EventRecord /\ log \in Seq(LogRecord)
      /\ pub \in [Publishers -> PubRecord]
  BY Typed
<1>2. n \in Nat
  BY <1>1
<1>3. e \in EventRecord /\ e.row = n /\ e.status = pub[p].ev.status
  BY <1>1, <1>2 DEF EventRecord
<1>4. row \in LogRecord
  BY <1>1 DEF EventRecord, LogRecord
<1>5. r \in PubRecord /\ r.pc = "collect" /\ r.ev = e /\ r.todo = pub[p].todo
      /\ r.cur = pub[p].cur
  BY <1>1, <1>3 DEF PubRecord
<1>6. pub' = [pub EXCEPT ![p] = r]
  <2> HIDE DEF e, r
  <2>1. pub[p] = [pc |-> pub[p].pc, ev |-> pub[p].ev, todo |-> pub[p].todo,
                  cur |-> pub[p].cur, fire |-> pub[p].fire]
    BY <1>1 DEF PubRecord
  <2>2. pub[p].ev = [type |-> pub[p].ev.type, status |-> pub[p].ev.status,
                     seq |-> pub[p].ev.seq, row |-> pub[p].ev.row]
    BY <1>1 DEF EventRecord
  <2> QED BY <1>1, <2>1, <2>2, ZenonT(40) DEF Store, e, r
<1>7. log' = Append(log, row)
  BY DEF Store
<1>8. /\ row.type = pub[p].ev.type /\ row.status = pub[p].ev.status /\ row.by = p
  OBVIOUS
<1>9. pub[p].pc = "store"
  BY DEF Store
<1> HIDE DEF row, e, r
<1>10. /\ log' \in Seq(LogRecord) /\ Len(log') = Len(log) + 1 /\ log'[n] = row
       /\ \A k \in DOMAIN log : log'[k] = log[k]
  BY <1>1, <1>4, <1>7
<1>11. /\ pub' \in [Publishers -> PubRecord] /\ pub'[p] = r
       /\ \A q \in Publishers \ {p} : pub'[q] = pub[q]
  BY <1>1, <1>5, <1>6
<1> QED BY <1>3, <1>5, <1>8, <1>9, <1>10, <1>11

\* Collect takes the streams that are registered now.
LEMMA CollectEffect ==
  ASSUME TypeOK, NEW p \in Publishers, Collect(p)
  PROVE  /\ pub[p].pc = "collect"
         /\ pub' \in [Publishers -> PubRecord]
         /\ \A q \in Publishers \ {p} : pub'[q] = pub[q]
         /\ pub'[p].ev = pub[p].ev /\ pub'[p].cur = pub[p].cur
         /\ pub'[p].todo = {s \in Streams : Registered(s)}
         /\ pub'[p].pc = IF pub'[p].todo = {} THEN "published" ELSE "send"
<1> DEFINE subs == {s \in Streams : Registered(s)}
           pc == IF subs = {} THEN "published" ELSE "send"
           r == [pub[p] EXCEPT !.todo = subs, !.pc = pc]
<1>1. pub[p] \in PubRecord /\ pub \in [Publishers -> PubRecord]
  BY Typed
<1>2. subs \subseteq Streams /\ pc \in {"published", "send"}
  OBVIOUS
<1>3. r \in PubRecord /\ r.pc = pc /\ r.ev = pub[p].ev /\ r.todo = subs /\ r.cur = pub[p].cur
  BY <1>1, <1>2 DEF PubRecord
<1>4. pub[p].pc = "collect" /\ pub' = [pub EXCEPT ![p] = r]
  BY <1>1 DEF Collect, PubRecord
<1> HIDE DEF subs, r
<1>5. /\ pub' \in [Publishers -> PubRecord] /\ pub'[p] = r
      /\ \A q \in Publishers \ {p} : pub'[q] = pub[q]
  BY <1>1, <1>3, <1>4
<1> QED BY <1>3, <1>4, <1>5 DEF subs

\* p is done with s.
ServedPub(p, s) ==
  /\ pub' \in [Publishers -> PubRecord]
  /\ \A q \in Publishers \ {p} : pub'[q] = pub[q]
  /\ pub'[p].ev = pub[p].ev /\ pub'[p].cur = {}
  /\ pub'[p].todo = pub[p].todo \ {s}
  /\ pub'[p].pc = IF pub'[p].todo = {} THEN "published" ELSE "send"

LEMMA ServedEffect ==
  ASSUME TypeOK, NEW p \in Publishers, NEW s \in Streams, Served(p, s)
  PROVE  ServedPub(p, s)
<1> DEFINE rest == pub[p].todo \ {s}
           pc == IF rest = {} THEN "published" ELSE "send"
           r == [pub[p] EXCEPT !.todo = rest, !.cur = {}, !.pc = pc]
<1>1. pub[p] \in PubRecord /\ pub \in [Publishers -> PubRecord]
  BY Typed
<1>2. rest \subseteq Streams /\ pc \in {"published", "send"}
  BY <1>1 DEF PubRecord
<1>3. r \in PubRecord /\ r.pc = pc /\ r.ev = pub[p].ev /\ r.todo = rest /\ r.cur = {}
  BY <1>1, <1>2 DEF PubRecord
<1>4. pub' = [pub EXCEPT ![p] = r]
  BY <1>1 DEF Served, PubRecord
<1> HIDE DEF rest, r
<1>5. /\ pub' \in [Publishers -> PubRecord] /\ pub'[p] = r
      /\ \A q \in Publishers \ {p} : pub'[q] = pub[q]
  BY <1>1, <1>3, <1>4
<1> QED BY <1>3, <1>5 DEF rest, ServedPub

\* Only the program counter of p, and perhaps cur, changes.
SteppedPub(p, pc, cur) ==
  /\ pub' \in [Publishers -> PubRecord]
  /\ \A q \in Publishers \ {p} : pub'[q] = pub[q]
  /\ pub'[p].ev = pub[p].ev /\ pub'[p].todo = pub[p].todo
  /\ pub'[p].pc = pc /\ pub'[p].cur = cur

\* A publisher that moves on to a second or third attempt.
LEMMA SteppedEffect ==
  ASSUME TypeOK, NEW p \in Publishers, NEW pc \in {"drain", "resend"},
         NEW cur \in SUBSET Streams,
         pub' = [pub EXCEPT ![p] = [@ EXCEPT !.pc = pc, !.cur = cur]]
  PROVE  SteppedPub(p, pc, cur)
<1> DEFINE r == [pub[p] EXCEPT !.pc = pc, !.cur = cur]
<1>1. pub[p] \in PubRecord /\ pub \in [Publishers -> PubRecord]
  BY Typed
<1>2. r \in PubRecord /\ r.pc = pc /\ r.ev = pub[p].ev /\ r.todo = pub[p].todo /\ r.cur = cur
  BY <1>1 DEF PubRecord
<1>3. pub' = [pub EXCEPT ![p] = r]
  BY <1>1
<1> HIDE DEF r
<1>4. /\ pub' \in [Publishers -> PubRecord] /\ pub'[p] = r
      /\ \A q \in Publishers \ {p} : pub'[q] = pub[q]
  BY <1>1, <1>2, <1>3
<1> QED BY <1>2, <1>4 DEF SteppedPub

\* The channel of s gets the event of p, where there is room.
Appended(p, s) ==
  /\ ch' \in [Streams -> Seq(EventRecord)]
  /\ Len(ch[s]) < Buffer
  /\ ch'[s] = Append(ch[s], pub[p].ev)
  /\ \A t \in Streams \ {s} : ch'[t] = ch[t]
  /\ lost' = lost

LEMMA DeliverEffect ==
  ASSUME TypeOK, NEW p \in Publishers, NEW s \in Streams, Deliver(p, s)
  PROVE  ServedPub(p, s) /\ Appended(p, s) /\ Registered(s)
<1>1. ServedPub(p, s)
  BY ServedEffect DEF Deliver
<1>2. pub[p].ev \in EventRecord /\ ch \in [Streams -> Seq(EventRecord)]
  BY Typed
<1> DEFINE ev == pub[p].ev
<1>3. /\ Registered(s) /\ Len(ch[s]) < Buffer /\ lost' = lost
      /\ ch' = [ch EXCEPT ![s] = Append(ch[s], ev)]
  BY DEF Deliver
<1> HIDE DEF ev
<1>4. Append(ch[s], ev) \in Seq(EventRecord)
  BY <1>2 DEF ev
<1>5. /\ ch' \in [Streams -> Seq(EventRecord)] /\ ch'[s] = Append(ch[s], ev)
      /\ \A t \in Streams \ {s} : ch'[t] = ch[t]
  BY <1>2, <1>3, <1>4
<1> QED BY <1>1, <1>3, <1>5 DEF Appended, ev

\* The row of p is missed by s, unless s has gone.
Missed(p, s) ==
  /\ ch' = ch
  /\ lost' \in [Streams -> SUBSET Nat]
  /\ \A t \in Streams : lost[t] \subseteq lost'[t]
  /\ Registered(s) => Len(ch[s]) = Buffer /\ pub[p].ev.row \in lost'[s]

LEMMA MissEffect ==
  ASSUME TypeOK, NEW p \in Publishers, NEW s \in Streams, Miss(p, s)
  PROVE  ServedPub(p, s) /\ Missed(p, s)
<1>1. ServedPub(p, s)
  BY ServedEffect DEF Miss
<1>2. pub[p].ev \in EventRecord /\ lost \in [Streams -> SUBSET Nat]
  BY Typed
<1>3. pub[p].ev.row \in Nat
  BY <1>2 DEF EventRecord
<1> DEFINE row == pub[p].ev.row
<1>4. /\ Registered(s) => Len(ch[s]) = Buffer
      /\ lost' = IF Registered(s) THEN [lost EXCEPT ![s] = lost[s] \cup {row}] ELSE lost
      /\ ch' = ch
  BY DEF Miss
<1> HIDE DEF row
<1>5. /\ lost' \in [Streams -> SUBSET Nat]
      /\ \A t \in Streams : lost[t] \subseteq lost'[t]
      /\ Registered(s) => row \in lost'[s]
  BY <1>2, <1>3, <1>4 DEF row
<1> QED BY <1>1, <1>4, <1>5 DEF Missed, row

\* Drain moves the oldest event of s, if there is one, to the lost ones.
LEMMA DrainEffect ==
  ASSUME TypeOK, NEW p \in Publishers, NEW s \in Streams, Drain(p, s)
  PROVE  /\ pub[p].pc = "drain" /\ s \in pub[p].cur
         /\ SteppedPub(p, "resend", pub[p].cur)
         /\ ch' \in [Streams -> Seq(EventRecord)]
         /\ lost' \in [Streams -> SUBSET Nat]
         /\ \A t \in Streams \ {s} : ch'[t] = ch[t]
         /\ \A t \in Streams : lost[t] \subseteq lost'[t]
         /\ ch[s] # <<>> => ch'[s] = Tail(ch[s]) /\ Head(ch[s]).row \in lost'[s]
         /\ ch[s] = <<>> => ch'[s] = ch[s]
<1>1. /\ pub \in [Publishers -> PubRecord] /\ pub[p] \in PubRecord
      /\ ch \in [Streams -> Seq(EventRecord)] /\ lost \in [Streams -> SUBSET Nat]
  BY Typed
<1>2. /\ pub[p].pc = "drain" /\ s \in pub[p].cur /\ pub[p].cur \in SUBSET Streams
  BY <1>1 DEF Drain, PubRecord
<1>3. pub' = [pub EXCEPT ![p] = [@ EXCEPT !.pc = "resend", !.cur = pub[p].cur]]
  BY <1>1 DEF Drain, PubRecord
<1>4. SteppedPub(p, "resend", pub[p].cur)
  BY <1>2, <1>3, SteppedEffect
<1>5. CASE ch[s] = <<>>
  <2>1. ch' = ch /\ lost' = lost
    BY <1>5 DEF Drain
  <2> QED BY <1>1, <1>2, <1>4, <1>5, <2>1
<1>6. CASE ch[s] # <<>>
  <2> DEFINE row == Head(ch[s]).row
  <2>1. ch[s] \in Seq(EventRecord)
    BY <1>1
  <2>2. Tail(ch[s]) \in Seq(EventRecord) /\ Head(ch[s]) \in EventRecord
    BY <2>1, <1>6
  <2>3. row \in Nat
    BY <2>2 DEF EventRecord
  <2>4. ch' = [ch EXCEPT ![s] = Tail(ch[s])] /\ lost' = [lost EXCEPT ![s] = lost[s] \cup {row}]
    BY <1>6 DEF Drain
  <2> HIDE DEF row
  <2>5. /\ ch' \in [Streams -> Seq(EventRecord)] /\ ch'[s] = Tail(ch[s])
        /\ \A t \in Streams \ {s} : ch'[t] = ch[t]
    BY <1>1, <2>2, <2>4
  <2>6. /\ lost' \in [Streams -> SUBSET Nat] /\ row \in lost'[s]
        /\ \A t \in Streams : lost[t] \subseteq lost'[t]
    BY <1>1, <2>3, <2>4
  <2> QED BY <1>2, <1>4, <1>6, <2>5, <2>6 DEF row
<1> QED BY <1>5, <1>6

\* A publisher that begins with an event.
StartedPub(p, st) ==
  /\ pub' \in [Publishers -> PubRecord]
  /\ \A q \in Publishers \ {p} : pub'[q] = pub[q]
  /\ pub'[p].pc = "store" /\ pub'[p].ev.status = st
  /\ pub'[p].todo = {} /\ pub'[p].cur = {}

LEMMA StartedEffect ==
  ASSUME TypeOK, NEW p \in Publishers, NEW type \in Types, NEW st \in Status,
         NEW fire \in BOOLEAN,
         pub' = [pub EXCEPT ![p] = NewPub("store", Event(type, st), fire)]
  PROVE  StartedPub(p, st)
<1> DEFINE e == Event(type, st)
           r == NewPub("store", e, fire)
<1>1. e \in EventRecord /\ e.status = st
  BY EventType
<1> HIDE DEF e
<1>2. r \in PubRecord /\ r.pc = "store" /\ r.ev = e /\ r.todo = {} /\ r.cur = {}
  BY <1>1, NewPubType
<1>3. pub \in [Publishers -> PubRecord] /\ pub' = [pub EXCEPT ![p] = r]
  BY Typed DEF e
<1> HIDE DEF r
<1>4. /\ pub' \in [Publishers -> PubRecord] /\ pub'[p] = r
      /\ \A q \in Publishers \ {p} : pub'[q] = pub[q]
  BY <1>2, <1>3
<1> QED BY <1>1, <1>2, <1>4 DEF StartedPub

LEMMA UpdateEffect ==
  ASSUME TypeOK, NEW st \in Status, NEW next \in {"starter", "ended"}, Update(st, next)
  PROVE  /\ pub[Executor].pc = "published" /\ status' = st /\ stage' = next
         /\ StartedPub(Executor, st)
         /\ UNCHANGED <<ctxDone, log, ch, h, sent, lost>>
<1>1. Executor \in Publishers /\ st \in Types
  BY StatusFacts DEF Publishers
<1>2. StartedPub(Executor, st)
  BY <1>1, StartedEffect DEF Update, StatusEvent
<1> QED BY <1>2 DEF Update

\* execute starts the run, drops it or ends it.
LEMMA ExecuteEffect ==
  ASSUME TypeOK, RunStreamAssumption, Execute
  PROVE  \E st \in Status, next \in {"starter", "ended"} :
           /\ st \in Terminal <=> next = "ended"
           /\ stage # "ended"
           /\ Update(st, next)
<1>1. CASE UpdateRunning
  BY <1>1, StatusFacts DEF UpdateRunning
<1>2. CASE UpdateDropped
  <2>1. "cancelled" \in Terminal
    BY DEF Terminal
  <2> QED BY <1>2, <2>1, StatusFacts DEF UpdateDropped
<1>3. CASE Finish
  <2>1. PICK st \in (IF ctxDone THEN {"cancelled"} ELSE Outcomes) : Update(st, "ended")
    BY <1>3 DEF Finish
  <2>2. st \in Terminal
    BY <2>1 DEF RunStreamAssumption, Terminal
  <2> QED BY <1>3, <2>1, <2>2, StatusFacts DEF Finish
<1> QED BY <1>1, <1>2, <1>3 DEF Execute

LEMMA ReportEffect ==
  ASSUME TypeOK, ReportProgress
  PROVE  /\ stage = "starter" /\ pub[Executor].pc = "published"
         /\ StartedPub(Executor, status)
         /\ UNCHANGED <<status, ctxDone, stage, log, ch, h, sent, lost>>
<1>1. Executor \in Publishers /\ status \in Status /\ Progress \in Types
  BY StatusFacts DEF Publishers, TypeOK
<1>2. StartedPub(Executor, status)
  BY <1>1, StartedEffect DEF ReportProgress
<1> QED BY <1>2 DEF ReportProgress

LEMMA MarkEffect ==
  ASSUME TypeOK, NEW c \in Cancels, CancelMark(c)
  PROVE  /\ c \in Publishers /\ pub[c].pc = "idle"
         /\ status' \in Status
         /\ status' \in Terminal <=> status \in Terminal
         /\ StartedPub(c, status')
         /\ UNCHANGED <<ctxDone, stage, log, ch, h, sent, lost>>
<1> DEFINE fire == status \in {"queued", "running"}
<1>1. c \in Publishers /\ status \in Status /\ fire \in BOOLEAN
  BY DEF Publishers, TypeOK
<1>2. status' = IF fire THEN "cancelling" ELSE status
  BY DEF CancelMark
<1>3. /\ status' \in Status /\ status' \in Types
      /\ status' \in Terminal <=> status \in Terminal
  BY <1>1, <1>2, StatusFacts
<1>4. pub' = [pub EXCEPT ![c] = NewPub("store", Event(status', status'), fire)]
  BY <1>2 DEF CancelMark, StatusEvent
<1> HIDE DEF fire
<1>5. StartedPub(c, status')
  BY <1>1, <1>3, <1>4, StartedEffect
<1> QED BY <1>1, <1>3, <1>5 DEF CancelMark

LEMMA SignalEffect ==
  ASSUME TypeOK, NEW c \in Cancels, CancelSignal(c)
  PROVE  /\ c \in Publishers /\ pub[c].pc = "published"
         /\ ctxDone' \in BOOLEAN
         /\ pub' \in [Publishers -> PubRecord]
         /\ \A q \in Publishers \ {c} : pub'[q] = pub[q]
         /\ pub'[c].pc = "done" /\ pub'[c].ev.status = "queued"
         /\ pub'[c].todo = {} /\ pub'[c].cur = {}
         /\ UNCHANGED <<status, stage, log, ch, h, sent, lost>>
<1> DEFINE e == StatusEvent("queued")
           idle == NewPub("idle", e, FALSE)
           r == [idle EXCEPT !.pc = "done"]
<1>1. /\ c \in Publishers /\ ctxDone \in BOOLEAN
      /\ pub \in [Publishers -> PubRecord] /\ pub[c] \in PubRecord
  BY Typed DEF Publishers, TypeOK
<1>2. e \in EventRecord /\ e.status = "queued"
  BY EventType, StatusFacts DEF StatusEvent
<1> HIDE DEF e
<1>7. /\ idle \in PubRecord /\ idle.ev = e /\ idle.todo = {} /\ idle.cur = {}
  <2>1. idle = [pc |-> "idle", ev |-> e, todo |-> {}, cur |-> {}, fire |-> FALSE]
    BY DEF NewPub
  <2> HIDE DEF idle, r
  <2>2. idle \in PubRecord
    BY <1>2, <2>1 DEF PubRecord
  <2> QED BY <2>1, <2>2
<1>4. pub' = [pub EXCEPT ![c] = r]
  BY DEF CancelSignal, Idle, e
<1> HIDE DEF idle
<1>3. /\ r \in PubRecord /\ r.pc = "done" /\ r.ev = e /\ r.todo = {} /\ r.cur = {}
  BY <1>7 DEF PubRecord
<1> HIDE DEF r
<1>5. /\ pub' \in [Publishers -> PubRecord] /\ pub'[c] = r
      /\ \A q \in Publishers \ {c} : pub'[q] = pub[q]
  BY <1>1, <1>3, <1>4
<1>6. ctxDone' \in BOOLEAN
  BY <1>1 DEF CancelSignal, PubRecord
<1> QED BY <1>1, <1>2, <1>3, <1>5, <1>6 DEF CancelSignal

\* Send has three outcomes.
LEMMA SendEffect ==
  ASSUME TypeOK, NEW p \in Publishers, NEW s \in Streams, Send(p, s)
  PROVE  /\ pub[p].pc = "send" /\ s \in pub[p].todo
         /\ UNCHANGED <<status, ctxDone, stage, log, h, sent>>
         /\ \/ ServedPub(p, s) /\ Appended(p, s) /\ Registered(s)
            \/ /\ ServedPub(p, s) /\ Missed(p, s)
               /\ pub[p].ev.status \notin Terminal \/ ~Registered(s)
            \/ /\ SteppedPub(p, "drain", {s}) /\ ch' = ch /\ lost' = lost
               /\ pub[p].ev.status \in Terminal
<1>1. CASE Deliver(p, s)
  BY <1>1, DeliverEffect DEF Send
<1>2. CASE (pub[p].ev.status \notin Terminal \/ ~Registered(s)) /\ Miss(p, s)
  BY <1>2, MissEffect DEF Send
<1>3. CASE /\ pub[p].ev.status \in Terminal
           /\ pub' = [pub EXCEPT ![p].pc = "drain", ![p].cur = {s}]
           /\ UNCHANGED <<ch, lost>>
  <2>1. pub' = [pub EXCEPT ![p] = [@ EXCEPT !.pc = "drain", !.cur = {s}]]
    BY <1>3, Typed DEF PubRecord
  <2>2. SteppedPub(p, "drain", {s})
    BY <2>1, SteppedEffect
  <2> QED BY <1>3, <2>2 DEF Send
<1> QED BY <1>1, <1>2, <1>3 DEF Send

LEMMA ResendEffect ==
  ASSUME TypeOK, NEW p \in Publishers, NEW s \in Streams, Resend(p, s)
  PROVE  /\ pub[p].pc = "resend" /\ s \in pub[p].cur
         /\ UNCHANGED <<status, ctxDone, stage, log, h, sent>>
         /\ ServedPub(p, s)
         /\ (Appended(p, s) /\ Registered(s)) \/ Missed(p, s)
BY DeliverEffect, MissEffect DEF Resend

-----------------------------------------------------------------------------
(* What a handler's steps do                                                *)

\* Any other stream than s is as it was.
Elsewhere(s) ==
  \A t \in Streams \ {s} :
    h'[t] = h[t] /\ ch'[t] = ch[t] /\ sent'[t] = sent[t] /\ lost'[t] = lost[t]

HandlerTypes ==
  /\ h' \in [Streams -> HandlerRecord] /\ ch' \in [Streams -> Seq(EventRecord)]
  /\ sent' \in [Streams -> SentRecord] /\ lost' \in [Streams -> SUBSET Nat]
  /\ UNCHANGED <<status, ctxDone, stage, log, pub>>

LEMMA SubscribeEffect ==
  ASSUME TypeOK, RunStreamAssumption, NEW s \in Streams,
         NEW after \in Afters, NEW filter \in Filters, NEW limit \in Limits,
         Subscribe(s, after, filter, limit)
  PROVE  /\ HandlerTypes /\ Elsewhere(s)
         /\ h[s].pc = "new" /\ h'[s].pc = "get" /\ h'[s].initial = h[s].initial
         /\ ch' = ch /\ sent' = sent /\ lost' = lost
<1>1. h \in [Streams -> HandlerRecord] /\ h[s] \in HandlerRecord
  BY Typed
<1>2. after \in Nat /\ filter \in Types \cup {Any} /\ limit \in Nat
  BY DEF RunStreamAssumption
<1> DEFINE r == [h[s] EXCEPT !.pc = "get", !.after = after, !.filter = filter,
                             !.limit = limit]
<1>3. r \in HandlerRecord /\ r.pc = "get" /\ r.initial = h[s].initial
  BY <1>1, <1>2 DEF HandlerRecord
<1>4. h[s].pc = "new" /\ h' = [h EXCEPT ![s] = r]
  BY DEF Subscribe
<1> HIDE DEF r
<1>5. /\ h' \in [Streams -> HandlerRecord] /\ h'[s] = r
      /\ \A t \in Streams \ {s} : h'[t] = h[t]
  BY <1>1, <1>3, <1>4
<1> QED BY <1>3, <1>4, <1>5, Typed DEF Subscribe, HandlerTypes, Elsewhere

LEMMA GetRunEffect ==
  ASSUME TypeOK, NEW s \in Streams, GetRun(s)
  PROVE  /\ HandlerTypes /\ Elsewhere(s)
         /\ h[s].pc = "get" /\ h'[s].pc = "snapshot" /\ h'[s].initial = status
         /\ h'[s].after = h[s].after /\ h'[s].filter = h[s].filter
         /\ h'[s].limit = h[s].limit
         /\ ch' = ch /\ sent' = sent /\ lost' = lost
<1>1. h \in [Streams -> HandlerRecord] /\ h[s] \in HandlerRecord /\ status \in Status
  BY Typed DEF TypeOK
<1> DEFINE r == [h[s] EXCEPT !.pc = "snapshot", !.initial = status]
<1>3. /\ r \in HandlerRecord /\ r.pc = "snapshot" /\ r.initial = status
      /\ r.after = h[s].after /\ r.filter = h[s].filter /\ r.limit = h[s].limit
  BY <1>1 DEF HandlerRecord
<1>4. h[s].pc = "get" /\ h' = [h EXCEPT ![s] = r]
  BY <1>1 DEF GetRun, HandlerRecord
<1> HIDE DEF r
<1>5. /\ h' \in [Streams -> HandlerRecord] /\ h'[s] = r
      /\ \A t \in Streams \ {s} : h'[t] = h[t]
  BY <1>1, <1>3, <1>4
<1> QED BY <1>3, <1>4, <1>5, Typed DEF GetRun, HandlerTypes, Elsewhere

LEMMA LeaveEffect ==
  ASSUME TypeOK, NEW s \in Streams, Leave(s)
  PROVE  /\ HandlerTypes /\ Elsewhere(s)
         /\ h'[s].pc = "left" /\ h'[s].initial = "queued"
         /\ ch'[s] = <<>> /\ sent'[s] = NothingSent
<1> DEFINE r == [NewHandler EXCEPT !.pc = "left"]
<1>1. r \in HandlerRecord /\ r.pc = "left" /\ r.initial = "queued"
  BY StatusFacts DEF NewHandler, HandlerRecord
<1>2. NothingSent \in SentRecord
  BY StatusFacts DEF NothingSent, SentRecord
<1>3. /\ h' = [h EXCEPT ![s] = r] /\ ch' = [ch EXCEPT ![s] = <<>>]
      /\ sent' = [sent EXCEPT ![s] = NothingSent] /\ lost' = [lost EXCEPT ![s] = {}]
      /\ UNCHANGED <<status, ctxDone, stage, log, pub>>
  BY DEF Leave
<1> HIDE DEF r
<1>4. /\ h \in [Streams -> HandlerRecord] /\ ch \in [Streams -> Seq(EventRecord)]
      /\ sent \in [Streams -> SentRecord] /\ lost \in [Streams -> SUBSET Nat]
  BY Typed
<1>5. h' \in [Streams -> HandlerRecord] /\ h'[s] = r /\ \A t \in Streams \ {s} : h'[t] = h[t]
  BY <1>1, <1>3, <1>4
<1>6. <<>> \in Seq(EventRecord)
  OBVIOUS
<1>7. /\ ch' \in [Streams -> Seq(EventRecord)] /\ ch'[s] = <<>>
      /\ \A t \in Streams \ {s} : ch'[t] = ch[t]
  BY <1>3, <1>4, <1>6
<1>8. /\ sent' \in [Streams -> SentRecord] /\ sent'[s] = NothingSent
      /\ \A t \in Streams \ {s} : sent'[t] = sent[t]
  BY <1>2, <1>3, <1>4
<1>9. /\ lost' \in [Streams -> SUBSET Nat] /\ \A t \in Streams \ {s} : lost'[t] = lost[t]
  BY <1>3, <1>4
<1> QED BY <1>1, <1>3, <1>5, <1>7, <1>8, <1>9 DEF HandlerTypes, Elsewhere

\* A non-empty page has a newest row.
LEMMA NewestInPage ==
  ASSUME NEW n \in Nat, NEW S \in SUBSET (1..n), S # {}
  PROVE  Newest(S) \in S /\ \A k \in S : k <= Newest(S)
<1> DEFINE T == {n - k : k \in S}
           R == OpToRel(<, Nat)
<1>1. T \subseteq Nat /\ T # {}
  <2> HIDE DEF R
  <2>1. ASSUME NEW k \in S PROVE n - k \in Nat
    OBVIOUS
  <2>2. T \subseteq Nat
    BY <2>1
  <2>3. T # {}
    OBVIOUS
  <2> QED BY <2>2, <2>3
<1>2. IsWellFoundedOn(R, Nat)
  BY NatLessThanWellFounded
<1> HIDE DEF T
<1>3. \E x \in T : \A y \in T : ~ (<<y, x>> \in R)
  <2> HIDE DEF R
  <2> QED BY <1>1, <1>2, WFMin
<1>4. PICK x \in T : \A y \in T : ~ (<<y, x>> \in R)
  BY <1>3
<1>5. \A y \in T : ~ (y < x)
  <2> SUFFICES ASSUME NEW y \in T, y < x PROVE FALSE
    OBVIOUS
  <2>1. <<y, x>> \in R
    BY <1>1 DEF OpToRel
  <2> QED BY <2>1, <1>4
<1>6. PICK m \in S : x = n - m
  BY <1>4 DEF T
<1>7. \A k \in S : k <= m
  <2> SUFFICES ASSUME NEW k \in S PROVE k <= m
    OBVIOUS
  <2>1. n - k \in T
    BY DEF T
  <2>2. ~ (n - k < n - m)
    BY <1>5, <1>6, <2>1
  <2> QED BY <2>2
<1> QED BY <1>7 DEF Newest

\* The page is made of wanted rows, and a complete request gets all of them.
LEMMA PageFacts ==
  ASSUME TypeOK, NEW s \in Streams
  PROVE  /\ Page(s) \subseteq Wanted(s) /\ Wanted(s) \subseteq DOMAIN log
         /\ Page(s) # {} => /\ Newest(Page(s)) \in Page(s)
                            /\ \A k \in Page(s) : k <= Newest(Page(s))
         /\ Complete(s) => Page(s) = {n \in DOMAIN log : n > h[s].after}
<1>1. Page(s) \subseteq Wanted(s) /\ Wanted(s) \subseteq DOMAIN log
  BY DEF Page, Wanted
<1>2. log \in Seq(LogRecord) /\ Len(log) \in Nat /\ DOMAIN log = 1..Len(log)
      /\ h[s] \in HandlerRecord
  BY Typed
<1>3. Page(s) # {} => /\ Newest(Page(s)) \in Page(s)
                      /\ \A k \in Page(s) : k <= Newest(Page(s))
  BY <1>1, <1>2, NewestInPage
<1>4. ASSUME Complete(s) PROVE Page(s) = {n \in DOMAIN log : n > h[s].after}
  <2>1. Wanted(s) = {n \in DOMAIN log : n > h[s].after}
    BY <1>4 DEF Wanted, Complete, Matches
  <2>2. ASSUME NEW n \in Wanted(s)
        PROVE  Cardinality({k \in Wanted(s) : k < n}) < h[s].limit
    <3> DEFINE Before == {k \in Wanted(s) : k < n}
    <3>1. Before \subseteq 1..(n - 1) /\ n - 1 \in Nat /\ n <= Len(log)
      BY <1>1, <1>2
    <3>2. IsFiniteSet(1..(n-1)) /\ Cardinality(1..(n-1)) = n - 1
      <4>1. \A a, b \in Int : IsFiniteSet(a..b) /\ Cardinality(a..b) = IF a > b THEN 0 ELSE b-a+1
        BY FS_Interval
      <4> QED BY <4>1, <3>1
    <3>3. Cardinality(Before) <= n - 1 /\ Cardinality(Before) \in Nat
      <4> HIDE DEF Before
      <4> DEFINE I == 1..(n - 1)
      <4>1. Before \subseteq I /\ IsFiniteSet(I) /\ Cardinality(I) = n - 1
        BY <3>1, <3>2
      <4> HIDE DEF I
      <4>2. Cardinality(Before) <= Cardinality(I) /\ IsFiniteSet(Before)
        BY <4>1, FS_Subset
      <4>3. Cardinality(Before) \in Nat
        BY <4>2, FS_CardinalityType
      <4> QED BY <4>1, <4>2, <4>3
    <3>4. h[s].limit >= Len(log) /\ h[s].limit \in Nat
      BY <1>2, <1>4 DEF Complete, HandlerRecord
    <3>5. n \in Nat
      BY <1>1, <1>2
    <3> HIDE DEF Before
    <3>6. Cardinality(Before) < h[s].limit
      BY <3>1, <3>3, <3>4, <3>5, <1>2
    <3> QED BY <3>6 DEF Before
  <2> QED BY <2>1, <2>2 DEF Page
<1> QED BY <1>1, <1>3, <1>4

\* The replay: last is the status of the last event written.
Replayed(s, last) ==
  /\ h'[s].after = h[s].after /\ h'[s].filter = h[s].filter /\ h'[s].limit = h[s].limit
  /\ h'[s].initial = h[s].initial /\ lost' = lost
  /\ h'[s].pc = IF last \in Terminal THEN "ended" ELSE "stream"
  /\ last \in Terminal => ch'[s] = <<>>
  /\ last \notin Terminal => ch' = ch
  /\ \/ /\ Page(s) # {} /\ last = log[Newest(Page(s))].status
        /\ h'[s].seq = Newest(Page(s))
        /\ sent'[s].id = Newest(Page(s)) /\ sent'[s].got = Page(s) /\ sent'[s].st = last
     \/ /\ Page(s) = {} /\ last = h[s].initial /\ h'[s].seq = 1
        /\ \/ Matches(s, last) /\ sent'[s].id = 1 /\ sent'[s].st = last
           \/ ~Matches(s, last) /\ sent' = sent

LEMMA SnapshotEffect ==
  ASSUME TypeOK, NEW s \in Streams, Snapshot(s)
  PROVE  /\ h[s].pc = "snapshot" /\ HandlerTypes /\ Elsewhere(s)
         /\ \E last \in Status : Replayed(s, last)
<1> DEFINE page == Page(s)
           seq  == IF page = {} THEN 1 ELSE Newest(page)
           last == IF page = {} THEN h[s].initial ELSE log[seq].status
           pc == IF last \in Terminal THEN "ended" ELSE "stream"
           r == [h[s] EXCEPT !.pc = pc, !.seq = seq]
           full == [id |-> seq, got |-> page, st |-> last]
           one == [sent[s] EXCEPT !.id = 1, !.st = last]
<1>1. /\ h \in [Streams -> HandlerRecord] /\ ch \in [Streams -> Seq(EventRecord)]
      /\ sent \in [Streams -> SentRecord] /\ lost \in [Streams -> SUBSET Nat]
      /\ log \in Seq(LogRecord) /\ h[s] \in HandlerRecord /\ sent[s] \in SentRecord
      /\ DOMAIN log \subseteq Nat
  BY Typed
<1>2. /\ page \subseteq DOMAIN log
      /\ page # {} => Newest(page) \in page
  BY PageFacts
<1>3. seq \in Nat /\ page \in SUBSET Nat
  BY <1>1, <1>2
<1>4. last \in Status
  <2>1. CASE page = {}
    BY <1>1, <2>1 DEF HandlerRecord
  <2>2. CASE page # {}
    <3>1. log[Newest(page)] \in LogRecord
      BY <1>1, <1>2, <2>2
    <3> QED BY <2>2, <3>1 DEF LogRecord
  <2> QED BY <2>1, <2>2
<1>5. /\ h[s].pc = "snapshot" /\ h' = [h EXCEPT ![s] = r]
      /\ sent' = IF page # {} THEN [sent EXCEPT ![s] = full]
                 ELSE IF Matches(s, last) THEN [sent EXCEPT ![s] = one] ELSE sent
      /\ ch' = IF last \in Terminal THEN [ch EXCEPT ![s] = <<>>] ELSE ch
      /\ UNCHANGED <<status, ctxDone, stage, log, pub, lost>>
  BY <1>1 DEF Snapshot, HandlerRecord, SentRecord
<1>6. /\ page # {} => seq = Newest(page) /\ last = log[Newest(page)].status
      /\ page = {} => seq = 1 /\ last = h[s].initial
  OBVIOUS
<1> HIDE DEF page, seq, last
<1>7. full \in SentRecord /\ full.id = seq /\ full.got = page /\ full.st = last
  BY <1>3, <1>4 DEF SentRecord
<1>8. one \in SentRecord /\ one.id = 1 /\ one.st = last
  BY <1>1, <1>4 DEF SentRecord
<1>9. /\ r \in HandlerRecord /\ r.pc = pc /\ r.seq = seq
      /\ r.after = h[s].after /\ r.filter = h[s].filter /\ r.limit = h[s].limit
      /\ r.initial = h[s].initial
  BY <1>1, <1>3 DEF HandlerRecord
<1> HIDE DEF full, one, r
<1>10. h' \in [Streams -> HandlerRecord] /\ h'[s] = r /\ \A t \in Streams \ {s} : h'[t] = h[t]
  BY <1>1, <1>5, <1>9
<1>11. /\ sent' \in [Streams -> SentRecord]
       /\ \A t \in Streams \ {s} : sent'[t] = sent[t]
       /\ page # {} => sent'[s] = full
       /\ page = {} /\ Matches(s, last) => sent'[s] = one
       /\ page = {} /\ ~Matches(s, last) => sent' = sent
  BY <1>1, <1>5, <1>7, <1>8
<1>12. <<>> \in Seq(EventRecord)
  OBVIOUS
<1>13. /\ ch' \in [Streams -> Seq(EventRecord)] /\ \A t \in Streams \ {s} : ch'[t] = ch[t]
       /\ last \in Terminal => ch'[s] = <<>>
       /\ last \notin Terminal => ch' = ch
  BY <1>1, <1>5, <1>12
<1>14. HandlerTypes /\ Elsewhere(s)
  BY <1>1, <1>5, <1>10, <1>11, <1>13 DEF HandlerTypes, Elsewhere
<1>15. Replayed(s, last)
  <2>1. CASE page # {}
    BY <2>1, <1>5, <1>6, <1>7, <1>9, <1>10, <1>11, <1>13 DEF Replayed, page
  <2>2. CASE page = {}
    BY <2>2, <1>5, <1>6, <1>8, <1>9, <1>10, <1>11, <1>13 DEF Replayed, page
  <2> QED BY <2>1, <2>2
<1> QED BY <1>4, <1>5, <1>14, <1>15

\* The handler takes ev from its channel.
Received(s, ev) ==
  /\ h'[s].after = h[s].after /\ h'[s].filter = h[s].filter /\ h'[s].limit = h[s].limit
  /\ h'[s].initial = h[s].initial /\ lost' = lost
  /\ h'[s].pc = IF ev.status \in Terminal THEN "ended" ELSE "stream"
  /\ ch'[s] = IF ev.status \in Terminal THEN <<>> ELSE Tail(ch[s])
  /\ \/ /\ h'[s].seq > h[s].seq /\ sent'[s].id = h'[s].seq
        /\ sent'[s].got = sent[s].got \cup {ev.row} /\ sent'[s].st = ev.status
     \/ ~Matches(s, ev.type) /\ h'[s].seq = h[s].seq /\ sent' = sent

LEMMA ReceiveEffect ==
  ASSUME TypeOK, NEW s \in Streams, Receive(s)
  PROVE  /\ h[s].pc = "stream" /\ ch[s] # <<>>
         /\ HandlerTypes /\ Elsewhere(s) /\ Received(s, Head(ch[s]))
<1> DEFINE ev == Head(ch[s])
           id == IF ev.seq <= h[s].seq THEN h[s].seq + 1 ELSE ev.seq
           pc == IF ev.status \in Terminal THEN "ended" ELSE "stream"
           queue == IF ev.status \in Terminal THEN <<>> ELSE Tail(ch[s])
           r == [h[s] EXCEPT !.pc = pc, !.seq = id]
           quiet == [h[s] EXCEPT !.pc = pc]
           more == [id |-> id, got |-> sent[s].got \cup {ev.row}, st |-> ev.status]
<1>1. /\ h \in [Streams -> HandlerRecord] /\ ch \in [Streams -> Seq(EventRecord)]
      /\ sent \in [Streams -> SentRecord] /\ lost \in [Streams -> SUBSET Nat]
      /\ h[s] \in HandlerRecord /\ sent[s] \in SentRecord /\ ch[s] \in Seq(EventRecord)
  BY Typed
<1>2. h[s].pc = "stream" /\ ch[s] # <<>>
  BY DEF Receive
<1>3. ev \in EventRecord /\ Tail(ch[s]) \in Seq(EventRecord) /\ <<>> \in Seq(EventRecord)
  BY <1>1, <1>2
<1>4. id \in Nat /\ id > h[s].seq
  BY <1>1, <1>3 DEF HandlerRecord, EventRecord
<1>5. /\ ch' = [ch EXCEPT ![s] = queue]
      /\ h' = [h EXCEPT ![s] = IF Matches(s, ev.type) THEN r ELSE quiet]
      /\ sent' = IF Matches(s, ev.type) THEN [sent EXCEPT ![s] = more] ELSE sent
      /\ UNCHANGED <<status, ctxDone, stage, log, pub, lost>>
  BY <1>1, <1>2 DEF Receive, HandlerRecord, SentRecord
<1>6. queue \in Seq(EventRecord)
  BY <1>3
<1> HIDE DEF ev, id
<1>7. /\ more \in SentRecord /\ more.id = id
      /\ more.got = sent[s].got \cup {ev.row} /\ more.st = ev.status
  BY <1>1, <1>3, <1>4 DEF SentRecord, EventRecord
<1>8. /\ r \in HandlerRecord /\ r.pc = pc /\ r.seq = id
      /\ r.after = h[s].after /\ r.filter = h[s].filter /\ r.limit = h[s].limit
      /\ r.initial = h[s].initial
  BY <1>1, <1>4 DEF HandlerRecord
<1>9. /\ quiet \in HandlerRecord /\ quiet.pc = pc /\ quiet.seq = h[s].seq
      /\ quiet.after = h[s].after /\ quiet.filter = h[s].filter /\ quiet.limit = h[s].limit
      /\ quiet.initial = h[s].initial
  BY <1>1 DEF HandlerRecord
<1> HIDE DEF more, r, quiet, queue
<1>10. /\ h' \in [Streams -> HandlerRecord] /\ \A t \in Streams \ {s} : h'[t] = h[t]
       /\ h'[s] = IF Matches(s, ev.type) THEN r ELSE quiet
  BY <1>1, <1>5, <1>8, <1>9
<1>11. /\ sent' \in [Streams -> SentRecord] /\ \A t \in Streams \ {s} : sent'[t] = sent[t]
       /\ Matches(s, ev.type) => sent'[s] = more
       /\ ~Matches(s, ev.type) => sent' = sent
  BY <1>1, <1>5, <1>7
<1>12. /\ ch' \in [Streams -> Seq(EventRecord)] /\ ch'[s] = queue
       /\ \A t \in Streams \ {s} : ch'[t] = ch[t]
  BY <1>1, <1>5, <1>6
<1>13. HandlerTypes /\ Elsewhere(s)
  BY <1>1, <1>5, <1>10, <1>11, <1>12 DEF HandlerTypes, Elsewhere
<1>14. Received(s, ev)
  <2>1. CASE Matches(s, ev.type)
    BY <2>1, <1>4, <1>5, <1>7, <1>8, <1>10, <1>11, <1>12 DEF Received, queue
  <2>2. CASE ~Matches(s, ev.type)
    BY <2>2, <1>5, <1>9, <1>10, <1>11, <1>12 DEF Received, queue
  <2> QED BY <2>1, <2>2
<1> QED BY <1>2, <1>13, <1>14 DEF ev

-----------------------------------------------------------------------------
(* Type correctness                                                         *)

\* What TypeOK says of the variables that records and sequences make up.
LEMMA TypesBack ==
  ASSUME pub' \in [Publishers -> PubRecord], h' \in [Streams -> HandlerRecord],
         sent' \in [Streams -> SentRecord], log' \in Seq(LogRecord),
         ch' \in [Streams -> Seq(EventRecord)], lost' \in [Streams -> SUBSET Nat],
         status' \in Status, ctxDone' \in BOOLEAN,
         stage' \in {"accepted", "starter", "ended"},
         \A s \in Streams : Len(ch'[s]) <= Buffer
  PROVE  TypeOK'
BY DEF TypeOK, PubRecord, HandlerRecord, SentRecord, LogRecord

\* An appended event fits.
LEMMA AppendedFits ==
  ASSUME TypeOK, RunStreamAssumption, NEW p \in Publishers, NEW s \in Streams,
         Appended(p, s)
  PROVE  \A t \in Streams : Len(ch'[t]) <= Buffer
<1>1. ch[s] \in Seq(EventRecord) /\ pub[p].ev \in EventRecord /\ Buffer \in Nat
  BY Typed DEF RunStreamAssumption
<1>2. Len(ch'[s]) = Len(ch[s]) + 1
  BY <1>1 DEF Appended
<1>3. Len(ch[s]) \in Nat /\ Len(ch[s]) < Buffer
  BY <1>1 DEF Appended
<1>4. Len(ch'[s]) <= Buffer
  BY <1>1, <1>2, <1>3
<1> QED BY <1>4 DEF TypeOK, Appended

LEMMA InitType == RunStreamAssumption /\ Init => TypeOK
<1> SUFFICES ASSUME RunStreamAssumption, Init PROVE TypeOK
  OBVIOUS
<1> DEFINE e == [StatusEvent("queued") EXCEPT !.row = 1]
           r == NewPub("collect", e, FALSE)
           row == [type |-> "queued", status |-> "queued", by |-> Executor]
<1>1. /\ StatusEvent("queued") \in EventRecord
  BY EventType, StatusFacts DEF StatusEvent
<1>2. e \in EventRecord
  BY <1>1 DEF EventRecord
<1> HIDE DEF e
<1>3. r \in PubRecord
  BY <1>2, NewPubType
<1>4. Idle \in PubRecord
  BY <1>1, NewPubType DEF Idle
<1>5. pub = [p \in Publishers |-> IF p = Executor THEN r ELSE Idle]
  BY DEF Init, e
<1> HIDE DEF r
<1>6. pub \in [Publishers -> PubRecord]
  BY <1>3, <1>4, <1>5
<1>7. row \in LogRecord
  BY StatusFacts DEF LogRecord, Publishers
<1>8. log = <<row>>
  BY DEF Init
<1> HIDE DEF row
<1>9. log \in Seq(LogRecord)
  BY <1>7, <1>8
<1>10. NewHandler \in HandlerRecord /\ NothingSent \in SentRecord
  BY StatusFacts DEF NewHandler, NothingSent, HandlerRecord, SentRecord
<1>11. h \in [Streams -> HandlerRecord] /\ sent \in [Streams -> SentRecord]
  BY <1>10 DEF Init
<1>12. ch \in [Streams -> Seq(EventRecord)] /\ \A s \in Streams : Len(ch[s]) <= Buffer
  BY DEF Init, RunStreamAssumption
<1>13. lost \in [Streams -> SUBSET Nat] /\ status \in Status /\ ctxDone \in BOOLEAN
       /\ stage \in {"accepted", "starter", "ended"}
  BY StatusFacts DEF Init
<1> QED BY <1>6, <1>9, <1>11, <1>12, <1>13
        DEF TypeOK, PubRecord, HandlerRecord, SentRecord, LogRecord

LEMMA StepType ==
  ASSUME RunStreamAssumption, TypeOK, [Next]_vars
  PROVE  TypeOK'
<1>0. /\ pub \in [Publishers -> PubRecord] /\ h \in [Streams -> HandlerRecord]
      /\ sent \in [Streams -> SentRecord] /\ log \in Seq(LogRecord)
      /\ ch \in [Streams -> Seq(EventRecord)] /\ lost \in [Streams -> SUBSET Nat]
      /\ status \in Status /\ ctxDone \in BOOLEAN
      /\ stage \in {"accepted", "starter", "ended"}
      /\ \A s \in Streams : Len(ch[s]) <= Buffer
      /\ Executor \in Publishers /\ Buffer \in Nat
  BY Typed DEF TypeOK, Publishers, RunStreamAssumption
<1>1. CASE Execute
  <2>1. PICK st \in Status, next \in {"starter", "ended"} : Update(st, next)
    BY <1>1, ExecuteEffect
  <2>2. /\ status' = st /\ stage' = next /\ StartedPub(Executor, st)
        /\ UNCHANGED <<ctxDone, log, ch, h, sent, lost>>
    BY <2>1, UpdateEffect
  <2> QED BY <1>0, <2>2, TypesBack DEF StartedPub
<1>2. CASE ReportProgress
  BY <1>0, <1>2, ReportEffect, TypesBack DEF StartedPub
<1>3. ASSUME NEW p \in Publishers, Store(p) PROVE TypeOK'
  <2>1. UNCHANGED <<status, ctxDone, stage, ch, h, sent, lost>>
    BY <1>3 DEF Store
  <2> QED BY <1>0, <1>3, <2>1, StoreEffect, TypesBack
<1>4. ASSUME NEW p \in Publishers, Collect(p) PROVE TypeOK'
  <2>1. UNCHANGED <<status, ctxDone, stage, log, ch, h, sent, lost>>
    BY <1>4 DEF Collect
  <2> QED BY <1>0, <1>4, <2>1, CollectEffect, TypesBack
<1>5. ASSUME NEW p \in Publishers, NEW s \in Streams, Send(p, s) PROVE TypeOK'
  <2>1. CASE ServedPub(p, s) /\ Appended(p, s)
    BY <1>0, <1>5, <2>1, SendEffect, AppendedFits, TypesBack DEF ServedPub, Appended
  <2>2. CASE ServedPub(p, s) /\ Missed(p, s)
    BY <1>0, <1>5, <2>2, SendEffect, TypesBack DEF ServedPub, Missed
  <2>3. CASE SteppedPub(p, "drain", {s}) /\ ch' = ch /\ lost' = lost
    BY <1>0, <1>5, <2>3, SendEffect, TypesBack DEF SteppedPub
  <2> QED BY <1>5, <2>1, <2>2, <2>3, SendEffect
<1>6. ASSUME NEW p \in Publishers, NEW s \in Streams, Drain(p, s) PROVE TypeOK'
  <2>1. UNCHANGED <<status, ctxDone, stage, log, h, sent>>
    BY <1>6 DEF Drain
  <2>2. \A t \in Streams : Len(ch'[t]) <= Buffer
    <3>1. ch[s] \in Seq(EventRecord) /\ Len(ch[s]) <= Buffer
      BY <1>0
    <3>2. ch[s] # <<>> => Len(Tail(ch[s])) = Len(ch[s]) - 1
      BY <3>1
    <3>3. Len(ch'[s]) <= Buffer
      BY <1>0, <1>6, <3>1, <3>2, DrainEffect
    <3> QED BY <1>0, <1>6, <3>3, DrainEffect
  <2> QED BY <1>0, <1>6, <2>1, <2>2, DrainEffect, TypesBack DEF SteppedPub
<1>7. ASSUME NEW p \in Publishers, NEW s \in Streams, Resend(p, s) PROVE TypeOK'
  <2>1. CASE Appended(p, s)
    <3>1. \A t \in Streams : Len(ch'[t]) <= Buffer
      BY <1>0, <1>7, <2>1, ResendEffect, AppendedFits
    <3> QED BY <1>0, <1>7, <2>1, <3>1, ResendEffect, TypesBack DEF ServedPub, Appended
  <2>2. CASE Missed(p, s)
    BY <1>0, <1>7, <2>2, ResendEffect, TypesBack DEF ServedPub, Missed
  <2> QED BY <1>7, <2>1, <2>2, ResendEffect
<1>8. ASSUME NEW c \in Cancels, CancelMark(c) PROVE TypeOK'
  BY <1>0, <1>8, MarkEffect, TypesBack DEF StartedPub
<1>9. ASSUME NEW c \in Cancels, CancelSignal(c) PROVE TypeOK'
  BY <1>0, <1>9, SignalEffect, TypesBack
<1>10. ASSUME NEW s \in Streams, HandlerTypes, Len(ch'[s]) <= Buffer, Elsewhere(s)
       PROVE  TypeOK'
  <2>1. \A t \in Streams : Len(ch'[t]) <= Buffer
    BY <1>0, <1>10 DEF Elsewhere
  <2> QED BY <1>0, <1>10, <2>1, TypesBack DEF HandlerTypes
<1>11. ASSUME NEW s \in Streams, NEW after \in Afters, NEW filter \in Filters,
              NEW limit \in Limits, Subscribe(s, after, filter, limit)
       PROVE  TypeOK'
  BY <1>0, <1>10, <1>11, SubscribeEffect
<1>12. ASSUME NEW s \in Streams, GetRun(s) PROVE TypeOK'
  BY <1>0, <1>10, <1>12, GetRunEffect
<1>13. ASSUME NEW s \in Streams, Snapshot(s) PROVE TypeOK'
  <2>1. PICK last \in Status : Replayed(s, last)
    BY <1>13, SnapshotEffect
  <2>2. Len(ch'[s]) <= Buffer
    BY <1>0, <2>1 DEF Replayed
  <2> QED BY <1>10, <1>13, <2>2, SnapshotEffect
<1>14. ASSUME NEW s \in Streams, Receive(s) PROVE TypeOK'
  <2>1. ch[s] \in Seq(EventRecord) /\ Len(ch[s]) <= Buffer /\ ch[s] # <<>>
    BY <1>0, <1>14, ReceiveEffect
  <2>2. Len(Tail(ch[s])) = Len(ch[s]) - 1
    BY <2>1
  <2>3. ch'[s] = <<>> \/ ch'[s] = Tail(ch[s])
    BY <1>14, ReceiveEffect DEF Received
  <2>4. Len(<<>>) = 0 /\ Len(ch[s]) \in Nat
    BY <2>1
  <2>5. Len(ch'[s]) <= Buffer
    BY <1>0, <2>1, <2>2, <2>3, <2>4
  <2> QED BY <1>10, <1>14, <2>5, ReceiveEffect
<1>15. ASSUME NEW s \in Streams, Leave(s) PROVE TypeOK'
  <2>1. Len(ch'[s]) <= Buffer
    BY <1>0, <1>15, LeaveEffect
  <2> QED BY <1>10, <1>15, <2>1, LeaveEffect
<1>16. CASE UNCHANGED vars
  BY <1>16 DEF vars, TypeOK
<1> QED BY <1>1, <1>2, <1>3, <1>4, <1>5, <1>6, <1>7, <1>8, <1>9, <1>11, <1>12, <1>13,
           <1>14, <1>15, <1>16 DEF Next, Publish, Serve

-----------------------------------------------------------------------------
(* Terminal statuses                                                        *)

\* A status that is terminal is one of the run's once execute has ended.
LEMMA StepStage ==
  ASSUME RunStreamAssumption, TypeOK, StageInv, [Next]_vars
  PROVE  StageInv' /\ (stage = "ended" => stage' = "ended")
<1>0. /\ Executor \in Publishers /\ Executor \notin Cancels
      /\ log \in Seq(LogRecord)
      /\ "queued" \notin Terminal
  BY Typed, StatusFacts DEF Publishers, RunStreamAssumption
<1> USE DEF StageInv
<1>1. CASE Execute
  <2>1. PICK st \in Status, next \in {"starter", "ended"} :
               (st \in Terminal <=> next = "ended") /\ stage # "ended" /\ Update(st, next)
    BY <1>1, ExecuteEffect
  <2> QED BY <1>0, <2>1, UpdateEffect DEF StartedPub
<1>2. CASE ReportProgress
  BY <1>0, <1>2, ReportEffect DEF StartedPub
<1>3. ASSUME NEW p \in Publishers, Store(p)
      PROVE  StageInv' /\ stage' = stage
  <2>1. UNCHANGED <<status, stage, h>>
    BY <1>3 DEF Store
  <2>2. \A q \in Publishers : pub'[q].ev.status = pub[q].ev.status
    BY <1>3, StoreEffect
  <2>3. ASSUME NEW n \in DOMAIN log', log'[n].status \in Terminal PROVE stage = "ended"
    <3>1. n \in DOMAIN log \/ n = Len(log) + 1
      BY <1>0, <1>3, StoreEffect
    <3> QED BY <1>3, <2>3, <3>1, StoreEffect
  <2> QED BY <1>0, <2>1, <2>2, <2>3
<1>4. ASSUME UNCHANGED <<status, stage, log, h>>,
             \A q \in Publishers : pub'[q].ev.status \in {pub[q].ev.status, "queued"},
             pub'[Executor].ev.status = pub[Executor].ev.status
      PROVE  StageInv' /\ stage' = stage
  BY <1>0, <1>4
<1>5. ASSUME NEW p \in Publishers, NEW s \in Streams, Collect(p) \/ Send(p, s) \/ Drain(p, s)
                                                      \/ Resend(p, s)
      PROVE  StageInv' /\ stage' = stage
  <2>1. UNCHANGED <<status, stage, log, h>>
    BY <1>5 DEF Collect, Send, Drain, Resend
  <2>2. CASE Collect(p)
    BY <1>0, <1>4, <2>1, <2>2, CollectEffect
  <2>3. CASE Send(p, s)
    BY <1>0, <1>4, <2>1, <2>3, SendEffect DEF ServedPub, SteppedPub
  <2>4. CASE Drain(p, s)
    BY <1>0, <1>4, <2>1, <2>4, DrainEffect DEF SteppedPub
  <2>5. CASE Resend(p, s)
    BY <1>0, <1>4, <2>1, <2>5, ResendEffect DEF ServedPub
  <2> QED BY <1>5, <2>2, <2>3, <2>4, <2>5
<1>6. ASSUME NEW c \in Cancels, CancelMark(c) PROVE StageInv' /\ stage' = stage
  BY <1>0, <1>6, MarkEffect DEF StartedPub
<1>7. ASSUME NEW c \in Cancels, CancelSignal(c) PROVE StageInv' /\ stage' = stage
  BY <1>0, <1>4, <1>7, SignalEffect
<1>8. ASSUME NEW s \in Streams, HandlerTypes, Elsewhere(s),
             h'[s].initial \in Terminal => stage = "ended"
      PROVE  StageInv' /\ stage' = stage
  BY <1>8 DEF HandlerTypes, Elsewhere
<1>9. ASSUME NEW s \in Streams, Serve(s) \/ Leave(s)
      PROVE  StageInv' /\ stage' = stage
  <2>1. CASE GetRun(s)
    BY <1>8, <2>1, GetRunEffect
  <2>2. CASE Snapshot(s)
    BY <1>8, <2>2, SnapshotEffect DEF Replayed
  <2>3. CASE Receive(s)
    BY <1>8, <2>3, ReceiveEffect DEF Received
  <2>4. CASE Leave(s)
    BY <1>0, <1>8, <2>4, LeaveEffect
  <2> QED BY <1>9, <2>1, <2>2, <2>3, <2>4 DEF Serve
<1>10. ASSUME NEW s \in Streams, NEW after \in Afters, NEW filter \in Filters,
              NEW limit \in Limits, Subscribe(s, after, filter, limit)
       PROVE  StageInv' /\ stage' = stage
  BY <1>8, <1>10, SubscribeEffect
<1>11. CASE UNCHANGED vars
  BY <1>11 DEF vars
<1>12. ASSUME NEW p \in Publishers, Collect(p) PROVE StageInv' /\ stage' = stage
  BY <1>0, <1>4, <1>12, CollectEffect DEF Collect
<1> QED BY <1>1, <1>2, <1>3, <1>5, <1>6, <1>7, <1>9, <1>10, <1>11, <1>12
        DEF Next, Publish

-----------------------------------------------------------------------------
(* Publishers                                                               *)

\* A publisher's step keeps what the others know.
LEMMA StepPub ==
  ASSUME RunStreamAssumption, TypeOK, PubInv, [Next]_vars
  PROVE  PubInv'
<1>0. /\ Executor \in Publishers /\ Executor \notin Cancels
      /\ log \in Seq(LogRecord) /\ DOMAIN log = 1..Len(log) /\ Len(log) \in Nat
      /\ \A p \in Publishers : pub[p] \in PubRecord
  BY Typed DEF Publishers, RunStreamAssumption
<1> USE DEF PubInv, Stored, Sending
<1>1. ASSUME NEW st, StartedPub(Executor, st), log' = log PROVE PubInv'
  BY <1>0, <1>1 DEF StartedPub
<1>2. CASE Execute
  <2>1. PICK st \in Status, next \in {"starter", "ended"} : Update(st, next)
    BY <1>2, ExecuteEffect
  <2> QED BY <1>1, <2>1, UpdateEffect
<1>3. CASE ReportProgress
  BY <1>1, <1>3, ReportEffect
<1>4. ASSUME NEW p \in Publishers, Store(p) PROVE PubInv'
  <2>1. DOMAIN log' = 1..(Len(log) + 1)
    BY <1>0, <1>4, StoreEffect
  <2>2. pub'[Executor].pc \notin {"idle", "done"}
    BY <1>0, <1>4, StoreEffect
  <2>3. ASSUME NEW q \in Publishers, q # p
        PROVE  /\ pub'[q].pc \in Stored => /\ pub'[q].ev.row \in DOMAIN log'
                                           /\ log'[pub'[q].ev.row].by = q
                                           /\ log'[pub'[q].ev.row].status = pub'[q].ev.status
               /\ pub'[q] = pub[q]
    BY <1>0, <1>4, <2>1, <2>3, StoreEffect
  <2>4. /\ pub'[p].ev.row \in DOMAIN log' /\ log'[pub'[p].ev.row].by = p
        /\ log'[pub'[p].ev.row].status = pub'[p].ev.status
        /\ pub'[p].todo = {} /\ pub'[p].cur = {}
        /\ pub'[p].pc = "collect"
    BY <1>0, <1>4, <2>1, StoreEffect
  <2> QED BY <2>2, <2>3, <2>4
<1>5. ASSUME NEW p \in Publishers, Collect(p) PROVE PubInv'
  <2>1. log' = log
    BY <1>5 DEF Collect
  <2> QED BY <1>0, <1>5, <2>1, CollectEffect
<1>6. ASSUME NEW p \in Publishers, NEW s \in Streams, ServedPub(p, s), log' = log,
             pub[p].pc \in Sending
      PROVE  PubInv'
  BY <1>0, <1>6 DEF ServedPub
<1>16. ASSUME NEW p \in Publishers, NEW pc \in {"drain", "resend"}, NEW cur,
              SteppedPub(p, pc, cur), log' = log, pub[p].pc \in Sending,
              cur \subseteq pub[p].todo, \A s, t \in cur : s = t, pub[p].ev.status \in Terminal
       PROVE  PubInv'
  <2>1. pub'[Executor].pc \notin {"idle", "done"}
    BY <1>0, <1>16 DEF SteppedPub
  <2>2. ASSUME NEW q \in Publishers, q # p PROVE pub'[q] = pub[q]
    BY <1>16, <2>2 DEF SteppedPub
  <2>3. /\ pub'[p].pc \in Sending /\ pub'[p].ev = pub[p].ev
        /\ pub'[p].cur = cur /\ pub'[p].todo = pub[p].todo
    BY <1>16 DEF SteppedPub
  <2> QED BY <1>16, <2>1, <2>2, <2>3
<1>7. ASSUME NEW p \in Publishers, NEW s \in Streams, Send(p, s) PROVE PubInv'
  <2>1. CASE ServedPub(p, s)
    BY <1>6, <1>7, <2>1, SendEffect
  <2>2. CASE SteppedPub(p, "drain", {s}) /\ pub[p].ev.status \in Terminal
    BY <1>7, <1>16, <2>2, SendEffect
  <2> QED BY <1>7, <2>1, <2>2, SendEffect
<1>8. ASSUME NEW p \in Publishers, NEW s \in Streams, Drain(p, s) PROVE PubInv'
  <2>1. log' = log
    BY <1>8 DEF Drain
  <2> QED BY <1>8, <1>16, <2>1, DrainEffect
<1>9. ASSUME NEW p \in Publishers, NEW s \in Streams, Resend(p, s) PROVE PubInv'
  BY <1>6, <1>9, ResendEffect
<1>10. ASSUME NEW c \in Cancels, CancelMark(c) PROVE PubInv'
  BY <1>0, <1>10, MarkEffect DEF StartedPub
<1>11. ASSUME NEW c \in Cancels, CancelSignal(c) PROVE PubInv'
  BY <1>0, <1>11, SignalEffect
<1>12. ASSUME UNCHANGED <<log, pub>> PROVE PubInv'
  BY <1>12
<1>13. ASSUME NEW s \in Streams, Serve(s) \/ Leave(s) PROVE PubInv'
  BY <1>12, <1>13 DEF Serve, GetRun, Snapshot, Receive, Leave
<1>14. ASSUME NEW s \in Streams, NEW after \in Afters, NEW filter \in Filters,
              NEW limit \in Limits, Subscribe(s, after, filter, limit)
       PROVE  PubInv'
  BY <1>12, <1>14 DEF Subscribe
<1>15. CASE UNCHANGED vars
  BY <1>12, <1>15 DEF vars
<1> QED BY <1>2, <1>3, <1>4, <1>5, <1>7, <1>8, <1>9, <1>10, <1>11, <1>13, <1>14, <1>15
        DEF Next, Publish

-----------------------------------------------------------------------------
(* Channels                                                                 *)

\* Taking the oldest event out of a channel, or closing it, keeps the rest.
LEMMA ChannelShrinks ==
  ASSUME TypeOK, ChannelInv, log' = log,
         \A s \in Streams : \/ ch'[s] = ch[s] \/ ch'[s] = <<>>
                            \/ ch[s] # <<>> /\ ch'[s] = Tail(ch[s])
  PROVE  ChannelInv'
<1> SUFFICES ASSUME NEW s \in Streams, NEW i \in DOMAIN ch'[s]
             PROVE  /\ ch'[s][i].row \in DOMAIN log
                    /\ log[ch'[s][i].row].status = ch'[s][i].status
                    /\ \A j \in DOMAIN ch'[s] :
                         i < j /\ ch'[s][i].status \in Terminal
                               /\ log[ch'[s][j].row].by = Executor
                           => ch'[s][j].status \in Terminal
  BY DEF ChannelInv
<1>1. ch[s] \in Seq(EventRecord)
  BY Typed
<1>2. CASE ch'[s] = ch[s]
  BY <1>2 DEF ChannelInv
<1>3. CASE ch'[s] = <<>>
  BY <1>3
<1>4. CASE ch[s] # <<>> /\ ch'[s] = Tail(ch[s])
  <2>1. /\ DOMAIN ch'[s] = 1..(Len(ch[s]) - 1) /\ DOMAIN ch[s] = 1..Len(ch[s])
        /\ Len(ch[s]) \in Nat
        /\ \A j \in DOMAIN ch'[s] : ch'[s][j] = ch[s][j + 1]
    BY <1>1, <1>4
  <2>2. \A j \in DOMAIN ch'[s] : j + 1 \in DOMAIN ch[s] /\ j \in Nat
    BY <2>1
  <2>3. ASSUME NEW j \in DOMAIN ch'[s], i < j,
               ch'[s][i].status \in Terminal, log[ch'[s][j].row].by = Executor
        PROVE  ch'[s][j].status \in Terminal
    <3>1. i + 1 < j + 1
      BY <2>2, <2>3
    <3> QED BY <2>1, <2>2, <2>3, <3>1 DEF ChannelInv
  <2>4. ch'[s][i].row \in DOMAIN log /\ log[ch'[s][i].row].status = ch'[s][i].status
    BY <2>1, <2>2 DEF ChannelInv
  <2> QED BY <2>3, <2>4
<1> QED BY <1>2, <1>3, <1>4

\* The event a publisher adds was stored, and once a terminal event is in
\* the channel, execute has only its outcome to add.
LEMMA ChannelGrows ==
  ASSUME TypeOK, RunStreamAssumption, EventsInv, log' = log,
         NEW p \in Publishers, pub[p].pc \in Stored, NEW t \in Streams, Appended(p, t)
  PROVE  ChannelInv'
<1>0. /\ pub[p].ev.row \in DOMAIN log /\ log[pub[p].ev.row].by = p
      /\ log[pub[p].ev.row].status = pub[p].ev.status
  BY DEF EventsInv, PubInv
<1> SUFFICES ASSUME NEW s \in Streams, NEW i \in DOMAIN ch'[s]
             PROVE  /\ ch'[s][i].row \in DOMAIN log
                    /\ log[ch'[s][i].row].status = ch'[s][i].status
                    /\ \A j \in DOMAIN ch'[s] :
                         i < j /\ ch'[s][i].status \in Terminal
                               /\ log[ch'[s][j].row].by = Executor
                           => ch'[s][j].status \in Terminal
  BY DEF ChannelInv
<1>1. ch[s] \in Seq(EventRecord) /\ pub[p].ev \in EventRecord
  BY Typed
<1>2. CASE s # t
  BY <1>2 DEF Appended, EventsInv, ChannelInv
<1>3. CASE s = t
  <2>1. /\ DOMAIN ch'[s] = 1..(Len(ch[s]) + 1) /\ DOMAIN ch[s] = 1..Len(ch[s])
        /\ Len(ch[s]) \in Nat /\ ch'[s][Len(ch[s]) + 1] = pub[p].ev
        /\ \A j \in DOMAIN ch[s] : ch'[s][j] = ch[s][j]
    BY <1>1, <1>3 DEF Appended
  <2>2. \A j \in DOMAIN ch'[s] : j \in DOMAIN ch[s] \/ j = Len(ch[s]) + 1
    BY <2>1
  <2>3. ch'[s][i].row \in DOMAIN log /\ log[ch'[s][i].row].status = ch'[s][i].status
    BY <1>0, <2>1, <2>2 DEF EventsInv, ChannelInv
  <2>4. ASSUME NEW j \in DOMAIN ch'[s], i < j,
               ch'[s][i].status \in Terminal, log[ch'[s][j].row].by = Executor
        PROVE  ch'[s][j].status \in Terminal
    <3>1. i \in DOMAIN ch[s]
      BY <2>1, <2>2, <2>4
    <3>2. CASE j \in DOMAIN ch[s]
      BY <2>1, <2>4, <3>1, <3>2 DEF EventsInv, ChannelInv
    <3>3. CASE j = Len(ch[s]) + 1
      <4>1. p = Executor
        BY <1>0, <2>1, <2>4, <3>3
      <4>2. stage = "ended"
        BY <2>1, <2>3, <2>4, <3>1 DEF EventsInv, StageInv
      <4> QED BY <2>1, <3>3, <4>1, <4>2 DEF EventsInv, StageInv
    <3> QED BY <2>2, <3>2, <3>3
  <2> QED BY <2>3, <2>4
<1> QED BY <1>2, <1>3

LEMMA StepChannel ==
  ASSUME RunStreamAssumption, TypeOK, EventsInv, [Next]_vars
  PROVE  ChannelInv'
<1>0. /\ ChannelInv /\ log \in Seq(LogRecord) /\ DOMAIN log = 1..Len(log)
      /\ Len(log) \in Nat
  BY Typed DEF EventsInv
<1>1. ASSUME UNCHANGED <<log, ch>> PROVE ChannelInv'
  BY <1>0, <1>1 DEF ChannelInv
<1>2. CASE Execute \/ ReportProgress
  BY <1>1, <1>2 DEF Execute, UpdateRunning, UpdateDropped, Finish, Update, ReportProgress
<1>3. ASSUME NEW p \in Publishers, Store(p) PROVE ChannelInv'
  <2>1. DOMAIN log' = 1..(Len(log) + 1) /\ \A n \in DOMAIN log : log'[n] = log[n]
    BY <1>0, <1>3, StoreEffect
  <2>2. DOMAIN log \subseteq DOMAIN log'
    BY <1>0, <2>1
  <2>3. ch' = ch
    BY <1>3 DEF Store
  <2> QED BY <1>0, <2>1, <2>2, <2>3 DEF ChannelInv
<1>4. ASSUME NEW p \in Publishers, Collect(p) PROVE ChannelInv'
  BY <1>1, <1>4 DEF Collect
<1>5. ASSUME NEW p \in Publishers, NEW s \in Streams, Send(p, s) PROVE ChannelInv'
  <2>1. log' = log /\ pub[p].pc \in Stored
    BY <1>5, SendEffect DEF Stored
  <2>2. CASE Appended(p, s)
    BY <2>1, <2>2, ChannelGrows
  <2>3. CASE ch' = ch
    BY <1>1, <2>1, <2>3
  <2> QED BY <1>5, <2>2, <2>3, SendEffect DEF Missed
<1>6. ASSUME NEW p \in Publishers, NEW s \in Streams, Drain(p, s) PROVE ChannelInv'
  <2>1. log' = log
    BY <1>6 DEF Drain
  <2> QED BY <1>0, <1>6, <2>1, DrainEffect, ChannelShrinks
<1>7. ASSUME NEW p \in Publishers, NEW s \in Streams, Resend(p, s) PROVE ChannelInv'
  <2>1. log' = log /\ pub[p].pc \in Stored
    BY <1>7, ResendEffect DEF Stored
  <2>2. CASE Appended(p, s)
    BY <2>1, <2>2, ChannelGrows
  <2>3. CASE ch' = ch
    BY <1>1, <2>1, <2>3
  <2> QED BY <1>7, <2>2, <2>3, ResendEffect DEF Missed
<1>8. ASSUME NEW c \in Cancels, CancelMark(c) \/ CancelSignal(c) PROVE ChannelInv'
  BY <1>1, <1>8, MarkEffect, SignalEffect
<1>9. ASSUME NEW s \in Streams, HandlerTypes, Elsewhere(s),
             \/ ch'[s] = ch[s] \/ ch'[s] = <<>>
             \/ ch[s] # <<>> /\ ch'[s] = Tail(ch[s])
      PROVE  ChannelInv'
  BY <1>0, <1>9, ChannelShrinks DEF HandlerTypes, Elsewhere
<1>10. ASSUME NEW s \in Streams, Serve(s) \/ Leave(s) PROVE ChannelInv'
  <2>1. CASE GetRun(s)
    BY <1>9, <2>1, GetRunEffect
  <2>2. CASE Snapshot(s)
    BY <1>9, <2>2, SnapshotEffect DEF Replayed
  <2>3. CASE Receive(s)
    <3>1. /\ HandlerTypes /\ Elsewhere(s) /\ ch[s] # <<>> /\ Received(s, Head(ch[s]))
      BY <2>3, ReceiveEffect
    <3> QED BY <1>9, <3>1 DEF Received
  <2>4. CASE Leave(s)
    BY <1>9, <2>4, LeaveEffect
  <2> QED BY <1>10, <2>1, <2>2, <2>3, <2>4 DEF Serve
<1>11. ASSUME NEW s \in Streams, NEW after \in Afters, NEW filter \in Filters,
              NEW limit \in Limits, Subscribe(s, after, filter, limit)
       PROVE  ChannelInv'
  BY <1>1, <1>11 DEF Subscribe
<1>12. CASE UNCHANGED vars
  BY <1>1, <1>12 DEF vars
<1> QED BY <1>2, <1>3, <1>4, <1>5, <1>6, <1>7, <1>8, <1>10, <1>11, <1>12
        DEF Next, Publish

-----------------------------------------------------------------------------
(* Handlers                                                                 *)

\* What a handler does to its own stream.
LEMMA StepHandler ==
  ASSUME RunStreamAssumption, TypeOK, EventsInv, HandlerInv, [Next]_vars
  PROVE  HandlerInv'
<1>0. /\ h \in [Streams -> HandlerRecord] /\ sent \in [Streams -> SentRecord]
      /\ log \in Seq(LogRecord) /\ ch \in [Streams -> Seq(EventRecord)]
  BY Typed
<1>1. stage = "ended" => stage' = "ended"
  BY StepStage DEF EventsInv
<1>2. ASSUME UNCHANGED <<h, sent>> PROVE HandlerInv'
  BY <1>1, <1>2 DEF HandlerInv
<1>3. ASSUME NEW s \in Streams, Elsewhere(s),
             /\ h'[s].pc \in {"new", "get", "snapshot"} => sent'[s] = NothingSent
             /\ h'[s].pc = "stream" => sent'[s].id <= h'[s].seq
             /\ h'[s].pc = "ended" => /\ stage' = "ended"
                                      /\ h'[s].filter = Any => sent'[s].st \in Terminal
      PROVE  HandlerInv'
  BY <1>1, <1>3 DEF HandlerInv, Elsewhere
<1>4. ASSUME NEW s \in Streams, GetRun(s) PROVE HandlerInv'
  BY <1>3, <1>4, GetRunEffect DEF HandlerInv
<1>5. ASSUME NEW s \in Streams, Snapshot(s) PROVE HandlerInv'
  <2>1. PICK last \in Status : Replayed(s, last)
    BY <1>5, SnapshotEffect
  <2>2. h[s].pc = "snapshot" /\ Elsewhere(s) /\ stage' = stage /\ sent[s] = NothingSent
    BY <1>5, SnapshotEffect DEF HandlerTypes, HandlerInv
  <2>3. ASSUME h'[s].pc = "ended"
        PROVE  stage = "ended" /\ (h'[s].filter = Any => sent'[s].st \in Terminal)
    <3>1. last \in Terminal
      BY <2>1, <2>3 DEF Replayed
    <3>2. CASE Page(s) # {}
      <4>1. Newest(Page(s)) \in DOMAIN log
        BY <3>2, PageFacts
      <4> QED BY <2>1, <3>1, <3>2, <4>1 DEF Replayed, EventsInv, StageInv
    <3>3. CASE Page(s) = {}
      BY <2>1, <3>1, <3>3 DEF Replayed, EventsInv, StageInv, Matches
    <3> QED BY <3>2, <3>3
  <2>4. ASSUME h'[s].pc = "stream" PROVE sent'[s].id <= h'[s].seq
    <3>1. h'[s].seq \in Nat
      BY <1>5, SnapshotEffect DEF HandlerTypes, HandlerRecord
    <3> QED BY <2>1, <2>2, <3>1 DEF Replayed, NothingSent
  <2>5. h'[s].pc \in {"stream", "ended"}
    BY <2>1 DEF Replayed
  <2> QED BY <1>3, <2>2, <2>3, <2>4, <2>5
<1>6. ASSUME NEW s \in Streams, Receive(s) PROVE HandlerInv'
  <2> DEFINE ev == Head(ch[s])
  <2>1. /\ h[s].pc = "stream" /\ ch[s] # <<>> /\ Elsewhere(s) /\ Received(s, ev)
        /\ stage' = stage /\ h'[s] \in HandlerRecord /\ sent'[s] \in SentRecord
    BY <1>6, ReceiveEffect DEF HandlerTypes
  <2>2. ev = ch[s][1] /\ 1 \in DOMAIN ch[s]
    BY <1>0, <2>1
  <2>3. ev.status \in Terminal => stage = "ended"
    BY <2>2 DEF EventsInv, ChannelInv, StageInv
  <2>4. sent[s].id <= h[s].seq
    BY <2>1 DEF HandlerInv
  <2> HIDE DEF ev
  <2>5. h'[s].pc \in {"stream", "ended"} /\ sent'[s].id <= h'[s].seq
    BY <2>1, <2>4 DEF Received, HandlerRecord, SentRecord
  <2>6. h'[s].pc = "ended" => /\ stage' = "ended"
                              /\ h'[s].filter = Any => sent'[s].st \in Terminal
    BY <2>1, <2>3 DEF Received, Matches
  <2> QED BY <1>3, <2>1, <2>5, <2>6
<1>7. ASSUME NEW s \in Streams, Leave(s) PROVE HandlerInv'
  BY <1>3, <1>7, LeaveEffect
<1>8. ASSUME NEW s \in Streams, NEW after \in Afters, NEW filter \in Filters,
             NEW limit \in Limits, Subscribe(s, after, filter, limit)
      PROVE  HandlerInv'
  BY <1>3, <1>8, SubscribeEffect DEF HandlerInv
<1>9. CASE Execute \/ ReportProgress
  BY <1>2, <1>9 DEF Execute, UpdateRunning, UpdateDropped, Finish, Update, ReportProgress
<1>10. ASSUME NEW p \in Publishers, Publish(p) PROVE HandlerInv'
  BY <1>2, <1>10 DEF Publish, Store, Collect, Send, Drain, Resend
<1>11. ASSUME NEW c \in Cancels, CancelMark(c) \/ CancelSignal(c) PROVE HandlerInv'
  BY <1>2, <1>11 DEF CancelMark, CancelSignal
<1>12. CASE UNCHANGED vars
  BY <1>2, <1>12 DEF vars
<1> QED BY <1>4, <1>5, <1>6, <1>7, <1>8, <1>9, <1>10, <1>11, <1>12 DEF Next, Serve

\* A step that sends something sends it with a larger id.
IdsGrow ==
  \A s \in Streams : sent'[s] \notin {sent[s], NothingSent} => sent'[s].id > sent[s].id

LEMMA StepIds ==
  ASSUME RunStreamAssumption, TypeOK, HandlerInv, [Next]_vars
  PROVE  IdsGrow
<1>1. ASSUME UNCHANGED sent PROVE IdsGrow
  BY <1>1 DEF IdsGrow
<1>2. ASSUME NEW t \in Streams, Snapshot(t) PROVE IdsGrow
  <2> SUFFICES ASSUME NEW s \in Streams
               PROVE  sent'[s] \notin {sent[s], NothingSent} => sent'[s].id > sent[s].id
    BY DEF IdsGrow
  <2>1. PICK last \in Status : Replayed(t, last)
    BY <1>2, SnapshotEffect
  <2>2. Elsewhere(t) /\ sent[t].id = 0
    BY <1>2, SnapshotEffect DEF HandlerInv, NothingSent
  <2>3. Page(t) # {} => Newest(Page(t)) > 0
    <3>1. \A n \in DOMAIN log : n > 0
      BY Typed
    <3> QED BY <3>1, PageFacts
  <2> QED BY <2>1, <2>2, <2>3 DEF Elsewhere, Replayed
<1>3. ASSUME NEW t \in Streams, Receive(t) PROVE IdsGrow
  <2> SUFFICES ASSUME NEW s \in Streams
               PROVE  sent'[s] \notin {sent[s], NothingSent} => sent'[s].id > sent[s].id
    BY DEF IdsGrow
  <2>1. /\ h[t].pc = "stream" /\ Elsewhere(t) /\ Received(t, Head(ch[t]))
        /\ h'[t] \in HandlerRecord
    BY <1>3, ReceiveEffect DEF HandlerTypes
  <2>2. sent[t].id <= h[t].seq /\ h[t] \in HandlerRecord /\ sent[t] \in SentRecord
    BY <2>1, Typed DEF HandlerInv
  <2>3. sent'[t] = sent[t] \/ sent'[t].id > sent[t].id
    BY <2>1, <2>2 DEF Received, HandlerRecord, SentRecord
  <2> QED BY <2>1, <2>3 DEF Elsewhere
<1>4. ASSUME NEW t \in Streams, Leave(t) PROVE IdsGrow
  <2> SUFFICES ASSUME NEW s \in Streams
               PROVE  sent'[s] \notin {sent[s], NothingSent} => sent'[s].id > sent[s].id
    BY DEF IdsGrow
  <2> QED BY <1>4, LeaveEffect DEF Elsewhere
<1>5. CASE Execute \/ ReportProgress
  BY <1>1, <1>5 DEF Execute, UpdateRunning, UpdateDropped, Finish, Update, ReportProgress
<1>6. ASSUME NEW p \in Publishers, Publish(p) PROVE IdsGrow
  BY <1>1, <1>6 DEF Publish, Store, Collect, Send, Drain, Resend
<1>7. ASSUME NEW c \in Cancels, CancelMark(c) \/ CancelSignal(c)
      PROVE  IdsGrow
  BY <1>1, <1>7 DEF CancelMark, CancelSignal
<1>8. ASSUME NEW t \in Streams, GetRun(t) PROVE IdsGrow
  BY <1>1, <1>8 DEF GetRun
<1>9. ASSUME NEW t \in Streams, NEW after \in Afters, NEW filter \in Filters,
             NEW limit \in Limits, Subscribe(t, after, filter, limit)
      PROVE  IdsGrow
  BY <1>1, <1>9 DEF Subscribe
<1>10. CASE UNCHANGED vars
  BY <1>1, <1>10 DEF vars
<1> QED BY <1>2, <1>3, <1>4, <1>5, <1>6, <1>7, <1>8, <1>9, <1>10 DEF Next, Serve

-----------------------------------------------------------------------------
(* Delivery                                                                 *)

\* A stream whose rows stay where they are, or move on, misses nothing.
LEMMA DeliveredMoves ==
  ASSUME NEW s \in Streams, Delivered(s), log' = log, h'[s] = h[s], sent'[s] = sent[s],
         lost[s] \subseteq lost'[s],
         \A n \in DOMAIN log : InChannel(s, n) => InChannel(s, n)' \/ n \in lost'[s],
         \A n \in DOMAIN log : h[s].pc = "stream" /\ Pending(s, n)
           => Pending(s, n)' \/ InChannel(s, n)' \/ n \in lost'[s]
  PROVE  Delivered(s)'
BY DEF Delivered, Complete, Awaited, ByExecutor

\* Nothing is pending before execute stores an event or once all are served.
LEMMA NothingPending ==
  ASSUME PubInv, pub[Executor].pc \in {"store", "published"}, Executor \in Publishers
  PROVE  \A s \in Streams, n \in DOMAIN log : ~Pending(s, n)
BY DEF PubInv, Pending, Sending

\* Another publisher's step leaves what execute has pending.
LEMMA OtherPublisher ==
  ASSUME pub'[Executor] = pub[Executor]
  PROVE  \A s \in Streams, n \in Nat : Pending(s, n)' <=> Pending(s, n)
BY DEF Pending

\* An event that is appended is in the channel, and so is what was there.
LEMMA AppendedInChannel ==
  ASSUME TypeOK, NEW p \in Publishers, NEW t \in Streams, Appended(p, t)
  PROVE  /\ \A s \in Streams, n \in Nat : InChannel(s, n) => InChannel(s, n)'
         /\ \A n \in Nat : pub[p].ev.row = n => InChannel(t, n)'
<1>1. ch[t] \in Seq(EventRecord) /\ pub[p].ev \in EventRecord
  BY Typed
<1>2. /\ DOMAIN ch'[t] = 1..(Len(ch[t]) + 1) /\ DOMAIN ch[t] = 1..Len(ch[t])
      /\ Len(ch[t]) \in Nat /\ ch'[t][Len(ch[t]) + 1] = pub[p].ev
      /\ \A j \in DOMAIN ch[t] : ch'[t][j] = ch[t][j]
  BY <1>1 DEF Appended
<1>3. /\ Len(ch[t]) + 1 \in DOMAIN ch'[t]
      /\ DOMAIN ch[t] \subseteq DOMAIN ch'[t]
  BY <1>2
<1>4. \A n \in Nat : InChannel(t, n) => InChannel(t, n)'
  BY <1>2, <1>3 DEF InChannel
<1>5. \A s \in Streams \ {t} : ch'[s] = ch[s]
  BY DEF Appended
<1>6. \A s \in Streams \ {t}, n \in Nat : InChannel(s, n) => InChannel(s, n)'
  BY <1>5 DEF InChannel
<1>7. \A s \in Streams, n \in Nat : InChannel(s, n) => InChannel(s, n)'
  BY <1>4, <1>6
<1>8. \A n \in Nat : pub[p].ev.row = n => InChannel(t, n)'
  BY <1>2, <1>3 DEF InChannel
<1> QED BY <1>7, <1>8

\* What leaves a channel by its head is the head.
LEMMA TailInChannel ==
  ASSUME TypeOK, NEW s \in Streams, ch[s] # <<>>, ch'[s] = Tail(ch[s])
  PROVE  \A n \in Nat : InChannel(s, n) => InChannel(s, n)' \/ n = Head(ch[s]).row
<1>1. ch[s] \in Seq(EventRecord)
  BY Typed
<1>2. /\ DOMAIN ch'[s] = 1..(Len(ch[s]) - 1) /\ DOMAIN ch[s] = 1..Len(ch[s])
      /\ Len(ch[s]) \in Nat /\ Head(ch[s]) = ch[s][1]
      /\ \A j \in DOMAIN ch'[s] : ch'[s][j] = ch[s][j + 1]
  BY <1>1
<1> SUFFICES ASSUME NEW n \in Nat, NEW i \in DOMAIN ch[s], ch[s][i].row = n, i # 1
             PROVE  InChannel(s, n)'
  BY <1>2 DEF InChannel
<1>3. i - 1 \in DOMAIN ch'[s] /\ ch'[s][i - 1] = ch[s][i]
  BY <1>2
<1> QED BY <1>3 DEF InChannel

\* A publisher's step that serves t by appending to its channel or by
\* letting it miss the event.
LEMMA DeliveredServed ==
  ASSUME TypeOK, RunStreamAssumption, PubInv, DeliveredInv,
         NEW p \in Publishers, NEW t \in Streams, pub[p].pc \in Sending,
         ServedPub(p, t), Appended(p, t) \/ Missed(p, t),
         UNCHANGED <<log, h, sent>>
  PROVE  DeliveredInv'
<1>0. /\ Executor \in Publishers /\ DOMAIN log \subseteq Nat
      /\ pub[p].ev \in EventRecord
      /\ ch \in [Streams -> Seq(EventRecord)] /\ lost \in [Streams -> SUBSET Nat]
  BY Typed DEF Publishers
<1> SUFFICES ASSUME NEW s \in Streams PROVE Delivered(s)'
  BY DEF DeliveredInv
<1>1. \A n \in Nat : InChannel(s, n) => InChannel(s, n)'
  <2>1. CASE Appended(p, t)
    BY <2>1, AppendedInChannel
  <2>2. CASE Missed(p, t)
    BY <2>2 DEF Missed, InChannel
  <2> QED BY <2>1, <2>2
<1>2. lost[s] \subseteq lost'[s]
  BY DEF Appended, Missed
<1>3. ASSUME NEW n \in DOMAIN log, h[s].pc = "stream", Pending(s, n)
      PROVE  Pending(s, n)' \/ InChannel(s, n)' \/ n \in lost'[s]
  <2>1. CASE p # Executor
    BY <1>0, <1>3, <2>1 DEF ServedPub, Pending
  <2>2. CASE p = Executor /\ s # t
    BY <1>0, <1>3, <2>2 DEF ServedPub, Pending, Sending
  <2>3. CASE p = Executor /\ s = t
    <3>1. pub[p].ev.row = n /\ Registered(t)
      BY <1>3, <2>3 DEF Pending, Registered
    <3>2. CASE Appended(p, t)
      BY <1>0, <2>3, <3>1, <3>2, AppendedInChannel
    <3>3. CASE Missed(p, t)
      BY <2>3, <3>1, <3>3 DEF Missed
    <3> QED BY <3>2, <3>3
  <2> QED BY <2>1, <2>2, <2>3
<1> QED BY <1>0, <1>1, <1>2, <1>3, DeliveredMoves DEF DeliveredInv

LEMMA StepDelivered ==
  ASSUME RunStreamAssumption, TypeOK, EventsInv, HandlerInv, DeliveredInv, [Next]_vars
  PROVE  DeliveredInv'
<1>0. /\ Executor \in Publishers /\ Executor \notin Cancels
      /\ log \in Seq(LogRecord) /\ DOMAIN log = 1..Len(log) /\ Len(log) \in Nat
      /\ ch \in [Streams -> Seq(EventRecord)] /\ lost \in [Streams -> SUBSET Nat]
      /\ StageInv /\ PubInv /\ ChannelInv /\ DOMAIN log \subseteq Nat
  BY Typed DEF Publishers, RunStreamAssumption, EventsInv
<1>1. ASSUME UNCHANGED <<log, h, ch, sent, lost>>,
             \A s \in Streams, n \in DOMAIN log :
               h[s].pc = "stream" /\ Pending(s, n) => Pending(s, n)'
      PROVE  DeliveredInv'
  BY <1>1, DeliveredMoves DEF DeliveredInv, InChannel
<1>2. CASE Execute \/ ReportProgress
  <2>1. /\ pub[Executor].pc = "published" /\ UNCHANGED <<log, h, ch, sent, lost>>
    BY <1>2 DEF Execute, UpdateRunning, UpdateDropped, Finish, Update, ReportProgress
  <2> QED BY <1>0, <1>1, <2>1, NothingPending
<1>3. ASSUME NEW p \in Publishers, Store(p) PROVE DeliveredInv'
  <2>1. UNCHANGED <<h, ch, sent, lost>>
    BY <1>3 DEF Store
  <2>2. /\ Len(log') = Len(log) + 1 /\ DOMAIN log' = 1..(Len(log) + 1)
        /\ \A n \in DOMAIN log : log'[n] = log[n]
    BY <1>0, <1>3, StoreEffect
  <2> SUFFICES ASSUME NEW s \in Streams, h[s].pc \in {"stream", "ended"}, Complete(s)',
                      NEW n \in DOMAIN log', Awaited(s, n)'
               PROVE  \/ n \in sent[s].got \cup lost[s]
                      \/ h[s].pc = "stream" /\ (InChannel(s, n)' \/ Pending(s, n)')
    BY <2>1 DEF DeliveredInv, Delivered
  <2>3. Complete(s)
    <3>1. h[s] \in HandlerRecord
      BY Typed
    <3> QED BY <1>0, <2>1, <2>2, <3>1 DEF Complete, HandlerRecord
  <2>4. CASE n \in DOMAIN log
    <3>1. Awaited(s, n)
      BY <2>1, <2>2, <2>4 DEF Awaited, ByExecutor
    <3>2. InChannel(s, n) => InChannel(s, n)'
      BY <2>1 DEF InChannel
    <3>3. Pending(s, n) => Pending(s, n)'
      <4>1. CASE p = Executor
        BY <1>0, <1>3, <2>4, <4>1, NothingPending, StoreEffect
      <4>2. CASE p # Executor
        BY <1>0, <1>3, <4>2, StoreEffect DEF Pending
      <4> QED BY <4>1, <4>2
    <3> QED BY <2>3, <2>4, <3>1, <3>2, <3>3 DEF DeliveredInv, Delivered
  <2>5. CASE n = Len(log) + 1
    <3>1. p = Executor
      BY <1>3, <2>5, StoreEffect DEF Awaited, ByExecutor
    <3>2. Pending(s, n)'
      BY <1>3, <2>5, <3>1, StoreEffect DEF Pending
    <3>3. h[s].pc = "stream"
      <4>1. pub[Executor].ev.status \notin Terminal
        BY <1>3, <2>5, <3>1, StoreEffect DEF Awaited
      <4>2. stage # "ended"
        BY <1>0, <4>1 DEF StageInv
      <4> QED BY <4>2 DEF HandlerInv
    <3> QED BY <3>2, <3>3
  <2> QED BY <1>0, <2>2, <2>4, <2>5
<1>4. ASSUME NEW p \in Publishers, Collect(p) PROVE DeliveredInv'
  <2>1. UNCHANGED <<log, h, ch, sent, lost>>
    BY <1>4 DEF Collect
  <2>2. ASSUME NEW s \in Streams, NEW n \in DOMAIN log, h[s].pc = "stream", Pending(s, n)
        PROVE  Pending(s, n)'
    <3>1. CASE p # Executor
      BY <1>0, <1>4, <2>2, <3>1, CollectEffect DEF Pending
    <3>2. CASE p = Executor
      BY <1>4, <2>2, <3>2, CollectEffect DEF Pending, Registered
    <3> QED BY <3>1, <3>2
  <2> QED BY <1>1, <2>1, <2>2
<1>5. ASSUME NEW p \in Publishers, NEW t \in Streams, Send(p, t) PROVE DeliveredInv'
  <2>1. UNCHANGED <<log, h, sent>> /\ pub[p].pc \in Sending
    BY <1>5, SendEffect DEF Sending
  <2>2. CASE ServedPub(p, t) /\ (Appended(p, t) \/ Missed(p, t))
    BY <1>0, <2>1, <2>2, DeliveredServed
  <2>3. CASE SteppedPub(p, "drain", {t}) /\ ch' = ch /\ lost' = lost
    <3>1. \A s \in Streams, n \in DOMAIN log : Pending(s, n) => Pending(s, n)'
      BY <1>0, <1>5, <2>3, SendEffect DEF SteppedPub, Pending
    <3> QED BY <1>1, <2>1, <2>3, <3>1
  <2> QED BY <1>5, <2>2, <2>3, SendEffect
<1>6. ASSUME NEW p \in Publishers, NEW t \in Streams, Drain(p, t) PROVE DeliveredInv'
  <2>1. UNCHANGED <<log, h, sent>>
    BY <1>6 DEF Drain
  <2> SUFFICES ASSUME NEW s \in Streams PROVE Delivered(s)'
    BY DEF DeliveredInv
  <2>2. \A n \in DOMAIN log : Pending(s, n) => Pending(s, n)'
    BY <1>0, <1>6, DrainEffect DEF SteppedPub, Pending
  <2>3. \A n \in DOMAIN log : InChannel(s, n) => InChannel(s, n)' \/ n \in lost'[s]
    <3>1. CASE s = t /\ ch[t] # <<>>
      BY <1>0, <1>6, <3>1, DrainEffect, TailInChannel
    <3>2. CASE s # t \/ ch[t] = <<>>
      <4>1. ch'[s] = ch[s]
        BY <1>6, <3>2, DrainEffect
      <4> QED BY <4>1 DEF InChannel
    <3> QED BY <3>1, <3>2
  <2>4. lost[s] \subseteq lost'[s]
    BY <1>6, DrainEffect
  <2> QED BY <2>1, <2>2, <2>3, <2>4, DeliveredMoves DEF DeliveredInv
<1>7. ASSUME NEW p \in Publishers, NEW t \in Streams, Resend(p, t) PROVE DeliveredInv'
  BY <1>0, <1>7, ResendEffect, DeliveredServed DEF Sending
<1>8. ASSUME NEW c \in Cancels, CancelMark(c) \/ CancelSignal(c) PROVE DeliveredInv'
  <2>1. pub'[Executor] = pub[Executor] /\ UNCHANGED <<log, h, ch, sent, lost>>
    BY <1>0, <1>8, MarkEffect, SignalEffect DEF StartedPub
  <2> QED BY <1>0, <1>1, <2>1, OtherPublisher
<1>9. ASSUME NEW s \in Streams, HandlerTypes, Elsewhere(s), Delivered(s)' PROVE DeliveredInv'
  <2> SUFFICES ASSUME NEW t \in Streams, t # s PROVE Delivered(t)'
    BY <1>9 DEF DeliveredInv
  <2>1. /\ h'[t] = h[t] /\ sent'[t] = sent[t] /\ lost'[t] = lost[t] /\ ch'[t] = ch[t]
        /\ log' = log /\ pub' = pub
    BY <1>9 DEF Elsewhere, HandlerTypes
  <2> QED BY <2>1, DeliveredMoves DEF DeliveredInv, InChannel, Pending
<1>10. ASSUME NEW s \in Streams, GetRun(s) PROVE DeliveredInv'
  BY <1>9, <1>10, GetRunEffect DEF Delivered
<1>11. ASSUME NEW s \in Streams, Snapshot(s) PROVE DeliveredInv'
  <2>1. PICK last \in Status : Replayed(s, last)
    BY <1>11, SnapshotEffect
  <2>2. HandlerTypes /\ Elsewhere(s) /\ log' = log
    BY <1>11, SnapshotEffect DEF HandlerTypes
  <2>3. ASSUME Complete(s)', NEW n \in DOMAIN log, Awaited(s, n)'
        PROVE  n \in sent'[s].got
    <3>1. Complete(s) /\ n > h[s].after
      BY <2>1, <2>2, <2>3 DEF Replayed, Complete, Awaited
    <3>2. n \in Page(s)
      BY <3>1, PageFacts
    <3> QED BY <2>1, <3>2 DEF Replayed
  <2>4. Delivered(s)'
    BY <2>2, <2>3 DEF Delivered
  <2> QED BY <1>9, <2>2, <2>4
<1>12. ASSUME NEW s \in Streams, Receive(s) PROVE DeliveredInv'
  <2> DEFINE ev == Head(ch[s])
  <2>1. /\ h[s].pc = "stream" /\ ch[s] # <<>> /\ HandlerTypes /\ Elsewhere(s)
        /\ Received(s, ev) /\ log' = log /\ pub' = pub
    BY <1>12, ReceiveEffect DEF HandlerTypes
  <2>2. /\ ev = ch[s][1] /\ 1 \in DOMAIN ch[s] /\ \A i \in DOMAIN ch[s] : i = 1 \/ 1 < i
    BY <1>0, <2>1
  <2> SUFFICES ASSUME Complete(s)', NEW n \in DOMAIN log, Awaited(s, n)'
               PROVE  \/ n \in sent'[s].got \cup lost'[s]
                      \/ h'[s].pc = "stream" /\ (InChannel(s, n)' \/ Pending(s, n)')
    BY <1>9, <2>1 DEF Delivered
  <2>3. Complete(s) /\ Awaited(s, n)
    BY <2>1 DEF Received, Complete, Awaited, ByExecutor
  <2>4. \/ n \in sent[s].got \cup lost[s] \/ InChannel(s, n) \/ Pending(s, n)
    BY <2>1, <2>3 DEF DeliveredInv, Delivered
  <2>5. sent'[s].got = sent[s].got \cup {ev.row} /\ lost' = lost
    BY <2>1, <2>3 DEF Received, Complete, Matches
  <2>6. CASE ev.status \notin Terminal
    <3>1. h'[s].pc = "stream" /\ ch'[s] = Tail(ch[s])
      BY <2>1, <2>6 DEF Received
    <3>2. InChannel(s, n) => InChannel(s, n)' \/ n = ev.row
      BY <1>0, <2>1, <3>1, TailInChannel
    <3>3. Pending(s, n) => Pending(s, n)'
      BY <2>1 DEF Pending
    <3> QED BY <2>4, <2>5, <3>1, <3>2, <3>3
  <2>7. CASE ev.status \in Terminal
    <3>1. ~InChannel(s, n)
      <4> SUFFICES ASSUME NEW i \in DOMAIN ch[s], ch[s][i].row = n PROVE FALSE
        BY DEF InChannel
      <4>1. ch[s][i].status \in Terminal
        <5>1. CASE i = 1
          BY <2>2, <2>7, <5>1
        <5>2. CASE 1 < i
          BY <1>0, <2>2, <2>3, <2>7, <5>2 DEF ChannelInv, Awaited, ByExecutor
        <5> QED BY <2>2, <5>1, <5>2
      <4> QED BY <1>0, <2>3, <4>1 DEF ChannelInv, Awaited
    <3>2. ~Pending(s, n)
      <4> SUFFICES ASSUME Pending(s, n) PROVE FALSE
        OBVIOUS
      <4>1. pub[Executor].pc \in Stored
        BY <1>0 DEF Pending, PubInv, Sending, Stored
      <4>2. log[n].status = pub[Executor].ev.status
        BY <1>0, <4>1 DEF Pending, PubInv
      <4>3. stage = "ended"
        BY <1>0, <2>2, <2>7 DEF ChannelInv, StageInv
      <4> QED BY <1>0, <2>3, <4>2, <4>3 DEF StageInv, Awaited
    <3> QED BY <2>4, <2>5, <3>1, <3>2
  <2> QED BY <2>6, <2>7
<1>13. ASSUME NEW s \in Streams, Leave(s) PROVE DeliveredInv'
  BY <1>9, <1>13, LeaveEffect DEF Delivered
<1>14. ASSUME NEW s \in Streams, NEW after \in Afters, NEW filter \in Filters,
              NEW limit \in Limits, Subscribe(s, after, filter, limit)
       PROVE  DeliveredInv'
  BY <1>9, <1>14, SubscribeEffect DEF Delivered
<1>15. CASE UNCHANGED vars
  <2>1. UNCHANGED <<log, h, ch, sent, lost, pub>>
    BY <1>15 DEF vars
  <2> QED BY <1>1, <2>1 DEF Pending
<1> QED BY <1>2, <1>3, <1>4, <1>5, <1>6, <1>7, <1>8, <1>10, <1>11, <1>12, <1>13, <1>14,
           <1>15 DEF Next, Publish, Serve

-----------------------------------------------------------------------------
(* The outcome                                                              *)

\* Until a Cancel begins only execute publishes.
LEMMA OnlyExecutor ==
  ASSUME NoCancel, NEW p \in Publishers, pub[p].pc # "idle"
  PROVE  p = Executor
BY DEF NoCancel, Publishers

\* A Cancel that has begun has begun for good.
LEMMA CancelStays ==
  ASSUME RunStreamAssumption, TypeOK, [Next]_vars, NoCancel'
  PROVE  NoCancel
<1>0. Executor \in Publishers /\ Executor \notin Cancels /\ Cancels \subseteq Publishers
  BY DEF Publishers, RunStreamAssumption
<1> SUFFICES ASSUME NEW c \in Cancels, pub'[c].pc = "idle" PROVE pub[c].pc = "idle"
  BY DEF NoCancel
<1>1. ASSUME pub' = pub PROVE pub[c].pc = "idle"
  BY <1>1
<1>2. CASE Execute
  <2>1. PICK st \in Status, next \in {"starter", "ended"} : Update(st, next)
    BY <1>2, ExecuteEffect
  <2> QED BY <1>0, <2>1, UpdateEffect DEF StartedPub
<1>3. CASE ReportProgress
  BY <1>0, <1>3, ReportEffect DEF StartedPub
<1>4. ASSUME NEW p \in Publishers, Store(p) PROVE pub[c].pc = "idle"
  BY <1>0, <1>4, StoreEffect
<1>5. ASSUME NEW p \in Publishers, Collect(p) PROVE pub[c].pc = "idle"
  BY <1>0, <1>5, CollectEffect
<1>6. ASSUME NEW p \in Publishers, NEW s \in Streams, Send(p, s) PROVE pub[c].pc = "idle"
  BY <1>0, <1>6, SendEffect DEF ServedPub, SteppedPub
<1>7. ASSUME NEW p \in Publishers, NEW s \in Streams, Drain(p, s) PROVE pub[c].pc = "idle"
  BY <1>0, <1>7, DrainEffect DEF SteppedPub
<1>8. ASSUME NEW p \in Publishers, NEW s \in Streams, Resend(p, s) PROVE pub[c].pc = "idle"
  BY <1>0, <1>8, ResendEffect DEF ServedPub
<1>9. ASSUME NEW d \in Cancels, CancelMark(d) PROVE pub[c].pc = "idle"
  BY <1>0, <1>9, MarkEffect DEF StartedPub
<1>10. ASSUME NEW d \in Cancels, CancelSignal(d) PROVE pub[c].pc = "idle"
  BY <1>0, <1>10, SignalEffect
<1>11. ASSUME NEW s \in Streams, Serve(s) \/ Leave(s) PROVE pub[c].pc = "idle"
  BY <1>1, <1>11 DEF Serve, GetRun, Snapshot, Receive, Leave
<1>12. ASSUME NEW s \in Streams, NEW after \in Afters, NEW filter \in Filters,
              NEW limit \in Limits, Subscribe(s, after, filter, limit)
       PROVE  pub[c].pc = "idle"
  BY <1>1, <1>12 DEF Subscribe
<1>13. CASE UNCHANGED vars
  BY <1>1, <1>13 DEF vars
<1> QED BY <1>2, <1>3, <1>4, <1>5, <1>6, <1>7, <1>8, <1>9, <1>10, <1>11, <1>12, <1>13
        DEF Next, Publish

\* The outcome stays in a channel that is not touched or that gets more.
LEMMA HasTerminalMoves ==
  ASSUME TypeOK, NEW s \in Streams,
         \/ ch'[s] = ch[s]
         \/ \E ev \in EventRecord : ch'[s] = Append(ch[s], ev)
         \/ ch[s] # <<>> /\ Head(ch[s]).status \notin Terminal /\ ch'[s] = Tail(ch[s])
  PROVE  HasTerminal(s) => HasTerminal(s)'
<1> SUFFICES ASSUME NEW i \in DOMAIN ch[s], ch[s][i].status \in Terminal
             PROVE  \E j \in DOMAIN ch'[s] : ch'[s][j].status \in Terminal
  BY DEF HasTerminal
<1>1. ch[s] \in Seq(EventRecord)
  BY Typed
<1>2. CASE ch'[s] = ch[s]
  BY <1>2
<1>3. ASSUME NEW ev \in EventRecord, ch'[s] = Append(ch[s], ev)
      PROVE  \E j \in DOMAIN ch'[s] : ch'[s][j].status \in Terminal
  <2>1. i \in DOMAIN ch'[s] /\ ch'[s][i] = ch[s][i]
    BY <1>1, <1>3
  <2> QED BY <2>1
<1>4. CASE ch[s] # <<>> /\ Head(ch[s]).status \notin Terminal /\ ch'[s] = Tail(ch[s])
  <2>1. /\ DOMAIN ch'[s] = 1..(Len(ch[s]) - 1) /\ DOMAIN ch[s] = 1..Len(ch[s])
        /\ Len(ch[s]) \in Nat /\ Head(ch[s]) = ch[s][1]
        /\ \A j \in DOMAIN ch'[s] : ch'[s][j] = ch[s][j + 1]
    BY <1>1, <1>4
  <2>2. i # 1
    BY <1>4, <2>1
  <2>3. i - 1 \in DOMAIN ch'[s] /\ ch'[s][i - 1] = ch[s][i]
    BY <2>1, <2>2
  <2> QED BY <2>3
<1> QED BY <1>2, <1>3, <1>4

\* The event that is appended is there.
LEMMA HasAppended ==
  ASSUME TypeOK, NEW p \in Publishers, NEW s \in Streams, Appended(p, s),
         pub[p].ev.status \in Terminal
  PROVE  HasTerminal(s)'
<1>1. ch[s] \in Seq(EventRecord) /\ pub[p].ev \in EventRecord
  BY Typed
<1>2. Len(ch[s]) + 1 \in DOMAIN ch'[s] /\ ch'[s][Len(ch[s]) + 1] = pub[p].ev
  BY <1>1 DEF Appended
<1> QED BY <1>2 DEF HasTerminal

\* execute serves t, either by appending or because t has gone or does not
\* need to be told.
LEMMA OutcomeServed ==
  ASSUME TypeOK, RunStreamAssumption, StageInv, PubInv, OutcomeInv, NoCancel,
         NEW t \in Streams, pub[Executor].pc \in Sending, ServedPub(Executor, t),
         UNCHANGED <<stage, log, h>>,
         \/ Appended(Executor, t)
         \/ ch' = ch /\ (stage = "ended" => ~Registered(t))
  PROVE  OutcomeInv'
<1>0. Executor \in Publishers /\ pub[Executor].ev \in EventRecord
  BY Typed DEF Publishers
<1>1. pub'[Executor].pc \in {"published", "send"} /\ pub[Executor].pc \notin {"store", "collect"}
  BY DEF ServedPub, Sending
<1>2. ASSUME stage = "ended", NEW s \in Streams PROVE Told(s)'
  <2> SUFFICES ASSUME \/ h[s].pc = "snapshot" /\ h[s].initial \notin Terminal
                      \/ h[s].pc = "stream" /\ Complete(s)
               PROVE  OutcomeDue(s)'
    BY DEF Told, Complete
  <2>1. OutcomeDue(s) /\ Registered(s)
    BY <1>2 DEF OutcomeInv, Told, Registered
  <2>2. CASE HasTerminal(s)
    <3>1. ch'[s] = ch[s] \/ \E ev \in EventRecord : ch'[s] = Append(ch[s], ev)
      BY <1>0 DEF Appended
    <3> QED BY <2>2, <3>1, HasTerminalMoves DEF OutcomeDue
  <2>3. CASE s \in pub[Executor].todo /\ s # t
    BY <2>3 DEF ServedPub, OutcomeDue
  <2>4. CASE s = t
    <3>1. Appended(Executor, t) /\ pub[Executor].ev.status \in Terminal
      BY <1>2, <2>1, <2>4 DEF StageInv
    <3> QED BY <1>0, <2>4, <3>1, HasAppended DEF OutcomeDue
  <2> QED BY <1>1, <2>1, <2>2, <2>3, <2>4 DEF OutcomeDue
<1> QED BY <1>1, <1>2 DEF OutcomeInv

LEMMA StepOutcome ==
  ASSUME RunStreamAssumption, TypeOK, EventsInv, OutcomeInv, [Next]_vars
  PROVE  OutcomeInv'
<1> SUFFICES ASSUME NoCancel' PROVE OutcomeInv'
  BY DEF OutcomeInv
<1>0. /\ Executor \in Publishers /\ Executor \notin Cancels /\ NoCancel
      /\ log \in Seq(LogRecord) /\ DOMAIN log = 1..Len(log) /\ Len(log) \in Nat
      /\ ch \in [Streams -> Seq(EventRecord)]
      /\ StageInv /\ PubInv /\ Buffer \in Nat \ {0}
  BY Typed, CancelStays DEF Publishers, RunStreamAssumption, EventsInv
<1>1. ASSUME UNCHANGED <<stage, log, pub, h, ch>> PROVE OutcomeInv'
  BY <1>0, <1>1 DEF OutcomeInv, Told, OutcomeDue, HasTerminal, Complete
<1>2. ASSUME pub'[Executor].pc = "store" PROVE OutcomeInv'
  BY <1>2 DEF OutcomeInv, Told, OutcomeDue
<1>3. CASE Execute
  <2>1. PICK st \in Status, next \in {"starter", "ended"} : Update(st, next)
    BY <1>3, ExecuteEffect
  <2> QED BY <1>2, <2>1, UpdateEffect DEF StartedPub
<1>4. CASE ReportProgress
  BY <1>2, <1>4, ReportEffect DEF StartedPub
<1>5. ASSUME NEW p \in Publishers, Store(p) PROVE OutcomeInv'
  <2>1. p = Executor
    BY <1>0, <1>5, StoreEffect, OnlyExecutor
  <2>2. pub'[Executor].pc = "collect" /\ stage' = stage
    BY <1>5, <2>1, StoreEffect DEF Store
  <2>3. stage = "ended" => log'[Len(log')].status \in Terminal
    BY <1>0, <1>5, <2>1, StoreEffect DEF StageInv
  <2> QED BY <2>2, <2>3 DEF OutcomeInv, Told, OutcomeDue
<1>6. ASSUME NEW p \in Publishers, Collect(p) PROVE OutcomeInv'
  <2>1. p = Executor
    BY <1>0, <1>6, CollectEffect, OnlyExecutor
  <2>2. UNCHANGED <<stage, log, h, ch>>
    BY <1>6 DEF Collect
  <2>3. /\ pub[Executor].pc = "collect" /\ pub'[Executor].pc # "resend"
        /\ pub'[Executor].todo = {s \in Streams : Registered(s)}
    BY <1>6, <2>1, CollectEffect
  <2>4. \A s \in Streams : Told(s)'
    BY <2>2, <2>3 DEF Told, OutcomeDue, Registered
  <2> QED BY <1>0, <2>2, <2>3, <2>4 DEF OutcomeInv
<1>7. ASSUME NEW p \in Publishers, NEW t \in Streams, Send(p, t) PROVE OutcomeInv'
  <2>1. p = Executor
    BY <1>0, <1>7, SendEffect, OnlyExecutor
  <2>2. UNCHANGED <<stage, log, h>> /\ pub[Executor].pc = "send"
    BY <1>7, <2>1, SendEffect
  <2>3. CASE ServedPub(p, t) /\ Appended(p, t)
    BY <1>0, <2>1, <2>2, <2>3, OutcomeServed DEF Sending
  <2>4. CASE /\ ServedPub(p, t) /\ Missed(p, t)
             /\ pub[p].ev.status \notin Terminal \/ ~Registered(t)
    <3>1. ch' = ch /\ (stage = "ended" => ~Registered(t))
      BY <1>0, <2>1, <2>4 DEF Missed, StageInv
    <3> QED BY <1>0, <2>1, <2>2, <2>4, <3>1, OutcomeServed DEF Sending
  <2>5. CASE SteppedPub(p, "drain", {t}) /\ ch' = ch
    <3>1. /\ pub'[Executor].pc = "drain" /\ pub'[Executor].todo = pub[Executor].todo
      BY <2>1, <2>5 DEF SteppedPub
    <3> QED BY <1>0, <2>2, <2>5, <3>1 DEF OutcomeInv, Told, OutcomeDue, HasTerminal, Complete
  <2> QED BY <1>7, <2>3, <2>4, <2>5, SendEffect
<1>8. ASSUME NEW p \in Publishers, NEW t \in Streams, Drain(p, t) PROVE OutcomeInv'
  <2>1. p = Executor
    BY <1>0, <1>8, DrainEffect, OnlyExecutor
  <2>2. UNCHANGED <<stage, log, h>>
    BY <1>8 DEF Drain
  <2>3. /\ pub[Executor].pc = "drain" /\ t \in pub[Executor].cur
        /\ pub'[Executor].pc = "resend" /\ pub'[Executor].todo = pub[Executor].todo
        /\ pub'[Executor].cur = pub[Executor].cur
    BY <1>8, <2>1, DrainEffect DEF SteppedPub
  <2>4. t \in pub[Executor].todo /\ \A s \in pub'[Executor].cur : s = t
    BY <1>0, <2>3 DEF PubInv
  <2>5. Len(ch'[t]) < Buffer
    <3>1. ch[t] \in Seq(EventRecord) /\ Len(ch[t]) <= Buffer /\ Len(<<>>) = 0
          /\ Len(ch[t]) \in Nat
      BY <1>0 DEF TypeOK
    <3>2. CASE ch[t] = <<>>
      BY <1>0, <1>8, <3>1, <3>2, DrainEffect
    <3>3. CASE ch[t] # <<>>
      <4>1. Len(Tail(ch[t])) = Len(ch[t]) - 1
        BY <3>1, <3>3
      <4> QED BY <1>0, <1>8, <3>1, <3>3, <4>1, DrainEffect
    <3> QED BY <3>2, <3>3
  <2>6. ASSUME stage = "ended", NEW s \in Streams PROVE Told(s)'
    <3>1. CASE s = t
      BY <2>3, <2>4, <3>1 DEF Told, OutcomeDue
    <3>2. CASE s # t
      <4>1. ch'[s] = ch[s]
        BY <1>8, <3>2, DrainEffect
      <4>2. Told(s)
        BY <1>0, <2>6 DEF OutcomeInv
      <4> QED BY <2>2, <2>3, <4>1, <4>2 DEF Told, OutcomeDue, HasTerminal, Complete
    <3> QED BY <3>1, <3>2
  <2> QED BY <1>0, <2>2, <2>3, <2>4, <2>5, <2>6 DEF OutcomeInv
<1>9. ASSUME NEW p \in Publishers, NEW t \in Streams, Resend(p, t) PROVE OutcomeInv'
  <2>1. p = Executor
    BY <1>0, <1>9, ResendEffect, OnlyExecutor
  <2>2. /\ UNCHANGED <<stage, log, h>> /\ pub[Executor].pc = "resend"
        /\ t \in pub[Executor].cur /\ ServedPub(Executor, t)
    BY <1>9, <2>1, ResendEffect
  <2>3. CASE Appended(p, t)
    BY <1>0, <2>1, <2>2, <2>3, OutcomeServed DEF Sending
  <2>4. CASE Missed(p, t)
    <3>1. Len(ch[t]) < Buffer
      BY <1>0, <2>2 DEF OutcomeInv
    <3>2. ch' = ch /\ ~Registered(t)
      <4>1. ch[t] \in Seq(EventRecord) /\ Len(ch[t]) \in Nat
        BY <1>0
      <4> QED BY <1>0, <2>4, <3>1, <4>1 DEF Missed
    <3> QED BY <1>0, <2>2, <3>2, OutcomeServed DEF Sending
  <2> QED BY <1>9, <2>3, <2>4, ResendEffect
<1>10. ASSUME NEW c \in Cancels, CancelMark(c) PROVE FALSE
  BY <1>0, <1>10, MarkEffect DEF StartedPub, NoCancel
<1>11. ASSUME NEW c \in Cancels, CancelSignal(c) PROVE FALSE
  BY <1>0, <1>11, SignalEffect DEF NoCancel
<1>12. ASSUME NEW s \in Streams, HandlerTypes, Elsewhere(s), Told(s)', Len(ch'[s]) <= Len(ch[s])
       PROVE  OutcomeInv'
  <2>1. UNCHANGED <<stage, log, pub>>
    BY <1>12 DEF HandlerTypes
  <2>2. ASSUME stage = "ended", NEW t \in Streams PROVE Told(t)'
    <3>1. CASE t = s
      BY <1>12, <3>1
    <3>2. CASE t # s
      <4>1. ch'[t] = ch[t] /\ h'[t] = h[t]
        BY <1>12, <3>2 DEF Elsewhere
      <4>2. Told(t)
        BY <1>0, <2>2 DEF OutcomeInv
      <4> QED BY <2>1, <4>1, <4>2 DEF Told, OutcomeDue, HasTerminal, Complete
    <3> QED BY <3>1, <3>2
  <2>3. ASSUME NEW t \in Streams, pub[Executor].pc = "resend", t \in pub[Executor].cur
        PROVE  Len(ch'[t]) < Buffer
    <3>1. Len(ch[t]) < Buffer
      BY <1>0, <2>3 DEF OutcomeInv
    <3>2. ch[s] \in Seq(EventRecord) /\ ch'[s] \in Seq(EventRecord)
      BY <1>0, <1>12 DEF HandlerTypes
    <3>3. Len(ch[s]) \in Nat /\ Len(ch'[s]) \in Nat
      BY <3>2
    <3> QED BY <1>0, <1>12, <3>1, <3>3 DEF Elsewhere
  <2> QED BY <1>0, <2>1, <2>2, <2>3 DEF OutcomeInv
<1>13. ASSUME NEW s \in Streams, GetRun(s) PROVE OutcomeInv'
  <2>1. /\ HandlerTypes /\ Elsewhere(s) /\ ch' = ch /\ stage' = stage
        /\ h'[s].pc = "snapshot" /\ h'[s].initial = status
    BY <1>13, GetRunEffect DEF HandlerTypes
  <2>2. ch[s] \in Seq(EventRecord)
    BY <1>0
  <2>3. Len(ch'[s]) <= Len(ch[s])
    BY <2>1, <2>2
  <2>4. CASE stage = "ended"
    <3>1. status \in Terminal
      BY <1>0, <2>4 DEF StageInv
    <3>2. Told(s)'
      BY <2>1, <3>1 DEF Told
    <3> QED BY <1>12, <2>1, <2>3, <3>2
  <2>5. CASE stage # "ended"
    BY <1>0, <1>13, <2>1, <2>5 DEF OutcomeInv, HandlerTypes
  <2> QED BY <2>4, <2>5
<1>14. ASSUME NEW s \in Streams, Snapshot(s) PROVE OutcomeInv'
  <2>1. PICK last \in Status : Replayed(s, last)
    BY <1>14, SnapshotEffect
  <2>2. /\ HandlerTypes /\ Elsewhere(s) /\ UNCHANGED <<stage, log, pub>>
        /\ h[s].pc = "snapshot"
    BY <1>14, SnapshotEffect DEF HandlerTypes
  <2>3. Len(ch'[s]) <= Len(ch[s])
    <3>1. ch[s] \in Seq(EventRecord) /\ Len(<<>>) = 0
      BY <1>0
    <3> QED BY <2>1, <3>1 DEF Replayed
  <2>4. CASE stage # "ended"
    <3>1. ASSUME NEW t \in Streams, pub[Executor].pc = "resend", t \in pub[Executor].cur
          PROVE  Len(ch'[t]) < Buffer
      <4>1. Len(ch[t]) < Buffer
        BY <1>0, <3>1 DEF OutcomeInv
      <4>2. ch[s] \in Seq(EventRecord) /\ ch'[s] \in Seq(EventRecord)
        BY <1>0, <2>2 DEF HandlerTypes
      <4>3. Len(ch[s]) \in Nat /\ Len(ch'[s]) \in Nat
        BY <4>2
      <4> QED BY <1>0, <2>2, <2>3, <4>1, <4>3 DEF Elsewhere
    <3> QED BY <1>0, <2>2, <2>4, <3>1 DEF OutcomeInv
  <2>5. CASE stage = "ended"
    <3> SUFFICES ASSUME h'[s].pc = "stream", Complete(s)' PROVE OutcomeDue(s)'
      <4>1. h'[s].pc # "snapshot"
        BY <2>1 DEF Replayed
      <4>2. Told(s)' => OutcomeInv'
        BY <1>12, <2>2, <2>3
      <4> QED BY <4>1, <4>2 DEF Told
    <3>1. Complete(s) /\ last \notin Terminal /\ ch' = ch
      BY <2>1, <2>2 DEF Replayed, Complete
    <3>2. CASE Page(s) = {}
      <4>1. OutcomeDue(s)
        BY <1>0, <2>1, <2>2, <2>5, <3>1, <3>2 DEF Replayed, OutcomeInv, Told
      <4> QED BY <2>2, <3>1, <4>1 DEF OutcomeDue, HasTerminal
    <3>3. CASE Page(s) # {}
      <4> DEFINE newest == Newest(Page(s))
      <4>1. /\ Page(s) = {n \in DOMAIN log : n > h[s].after}
            /\ newest \in Page(s) /\ \A k \in Page(s) : k <= newest
        BY <3>1, <3>3, PageFacts
      <4> HIDE DEF newest
      <4>2. newest = Len(log)
        <5>1. h[s].after \in Nat
          BY Typed DEF HandlerRecord
        <5>2. newest \in 1..Len(log) /\ newest > h[s].after
          BY <1>0, <4>1
        <5>3. Len(log) \in Page(s)
          BY <1>0, <4>1, <5>1, <5>2
        <5>4. Len(log) <= newest
          BY <4>1, <5>3
        <5>5. Len(log) \in Nat /\ newest \in Nat /\ newest <= Len(log)
          BY <1>0, <5>2
        <5> QED BY <5>4, <5>5
      <4>3. log[Len(log)].status \notin Terminal
        BY <2>1, <3>1, <3>3, <4>2 DEF Replayed, newest
      <4>4. pub[Executor].pc = "store"
        BY <1>0, <2>5, <4>3 DEF OutcomeInv
      <4> QED BY <2>2, <4>4 DEF OutcomeDue
    <3> QED BY <3>2, <3>3
  <2> QED BY <2>4, <2>5
<1>15. ASSUME NEW s \in Streams, Receive(s) PROVE OutcomeInv'
  <2> DEFINE ev == Head(ch[s])
  <2>1. /\ h[s].pc = "stream" /\ ch[s] # <<>> /\ HandlerTypes /\ Elsewhere(s)
        /\ Received(s, ev) /\ UNCHANGED <<stage, log, pub>>
    BY <1>15, ReceiveEffect DEF HandlerTypes
  <2>2. Len(ch'[s]) <= Len(ch[s])
    <3>1. ch[s] \in Seq(EventRecord) /\ Len(<<>>) = 0
      BY <1>0
    <3>2. Len(Tail(ch[s])) = Len(ch[s]) - 1 /\ Len(ch[s]) \in Nat
      BY <2>1, <3>1
    <3> QED BY <2>1, <3>1, <3>2 DEF Received
  <2>3. CASE stage # "ended"
    <3>1. ASSUME NEW t \in Streams, pub[Executor].pc = "resend", t \in pub[Executor].cur
          PROVE  Len(ch'[t]) < Buffer
      <4>1. Len(ch[t]) < Buffer
        BY <1>0, <3>1 DEF OutcomeInv
      <4>2. ch[s] \in Seq(EventRecord) /\ ch'[s] \in Seq(EventRecord)
        BY <1>0, <2>1 DEF HandlerTypes
      <4>3. Len(ch[s]) \in Nat /\ Len(ch'[s]) \in Nat
        BY <4>2
      <4> QED BY <1>0, <2>1, <2>2, <4>1, <4>3 DEF Elsewhere
    <3> QED BY <1>0, <2>1, <2>3, <3>1 DEF OutcomeInv
  <2>4. CASE stage = "ended"
    <3> SUFFICES ASSUME h'[s].pc = "stream", Complete(s)' PROVE OutcomeDue(s)'
      <4>1. h'[s].pc # "snapshot"
        BY <2>1 DEF Received
      <4>2. Told(s)' => OutcomeInv'
        BY <1>12, <2>1, <2>2
      <4> QED BY <4>1, <4>2 DEF Told
    <3>1. Complete(s) /\ ev.status \notin Terminal /\ ch'[s] = Tail(ch[s])
      BY <2>1 DEF Received, Complete
    <3>2. OutcomeDue(s)
      BY <1>0, <2>1, <2>4, <3>1 DEF OutcomeInv, Told
    <3>3. HasTerminal(s) => HasTerminal(s)'
      BY <2>1, <3>1, HasTerminalMoves
    <3> QED BY <2>1, <3>2, <3>3 DEF OutcomeDue
  <2> QED BY <2>3, <2>4
<1>16. ASSUME NEW s \in Streams, Leave(s) PROVE OutcomeInv'
  <2>1. Told(s)'
    BY <1>16, LeaveEffect DEF Told
  <2>2. Len(ch'[s]) <= Len(ch[s])
    <3>1. ch[s] \in Seq(EventRecord) /\ Len(<<>>) = 0
      BY <1>0
    <3> QED BY <1>16, <3>1, LeaveEffect
  <2> QED BY <1>12, <1>16, <2>1, <2>2, LeaveEffect
<1>17. ASSUME NEW s \in Streams, NEW after \in Afters, NEW filter \in Filters,
              NEW limit \in Limits, Subscribe(s, after, filter, limit)
       PROVE  OutcomeInv'
  <2>1. Told(s)'
    BY <1>17, SubscribeEffect DEF Told
  <2>2. ch[s] \in Seq(EventRecord) /\ ch' = ch
    BY <1>0, <1>17, SubscribeEffect
  <2>3. Len(ch'[s]) <= Len(ch[s])
    BY <2>2
  <2> QED BY <1>12, <1>17, <2>1, <2>3, SubscribeEffect
<1>18. CASE UNCHANGED vars
  BY <1>1, <1>18 DEF vars
<1> QED BY <1>3, <1>4, <1>5, <1>6, <1>7, <1>8, <1>9, <1>10, <1>11, <1>13, <1>14, <1>15,
           <1>16, <1>17, <1>18 DEF Next, Publish, Serve

-----------------------------------------------------------------------------
(* The inductive invariant and the theorems                                 *)

LEMMA InitIInv == RunStreamAssumption /\ Init => IInv
<1> SUFFICES ASSUME RunStreamAssumption, Init PROVE IInv
  OBVIOUS
<1> DEFINE first == [StatusEvent("queued") EXCEPT !.row = 1]
           row == [type |-> "queued", status |-> "queued", by |-> Executor]
<1>1. TypeOK
  BY InitType
<1>2. /\ Executor \in Publishers /\ Executor \notin Cancels
      /\ "queued" \notin Terminal /\ "queued" \in Status
  BY StatusFacts DEF Publishers, RunStreamAssumption
<1>3. /\ StatusEvent("queued") \in EventRecord /\ StatusEvent("queued").status = "queued"
  BY <1>2, StatusFacts, EventType DEF StatusEvent
<1>4. first \in EventRecord /\ first.status = "queued" /\ first.row = 1
  BY <1>3 DEF EventRecord
<1> HIDE DEF first
<1>5. /\ pub[Executor].pc = "collect" /\ pub[Executor].ev = first
      /\ pub[Executor].todo = {} /\ pub[Executor].cur = {}
  BY <1>2, <1>4, NewPubType DEF Init, first
<1>6. ASSUME NEW p \in Publishers, p # Executor
      PROVE  /\ pub[p].pc = "idle" /\ pub[p].ev.status = "queued"
             /\ pub[p].todo = {} /\ pub[p].cur = {}
  <2>1. pub[p] = Idle
    BY <1>6 DEF Init
  <2> QED BY <2>1 DEF Idle, NewPub, StatusEvent, Event
<1>7. log = <<row>>
  BY DEF Init
<1>8. /\ DOMAIN log = {1} /\ log[1] = row /\ Len(log) = 1
  BY <1>7
<1>9. log[1].status = "queued" /\ log[1].by = Executor
  BY <1>8
<1>10. \A s \in Streams : /\ h[s].pc = "new" /\ h[s].initial = "queued"
                          /\ ch[s] = <<>> /\ sent[s] = NothingSent
  BY DEF Init, NewHandler
<1>11. status = "queued" /\ stage = "accepted"
  BY DEF Init
<1>12. StageInv
  BY <1>2, <1>4, <1>5, <1>6, <1>8, <1>9, <1>10, <1>11 DEF StageInv
<1>13. PubInv
  BY <1>2, <1>4, <1>5, <1>6, <1>8, <1>9 DEF PubInv, Stored, Sending
<1>14. ChannelInv
  BY <1>10 DEF ChannelInv
<1>15. HandlerInv /\ DeliveredInv
  BY <1>10 DEF HandlerInv, DeliveredInv, Delivered
<1>16. OutcomeInv
  BY <1>5, <1>11 DEF OutcomeInv
<1> QED BY <1>1, <1>12, <1>13, <1>14, <1>15, <1>16 DEF IInv, EventsInv

LEMMA StepIInv == RunStreamAssumption /\ IInv /\ [Next]_vars => IInv'
<1> SUFFICES ASSUME RunStreamAssumption, IInv, [Next]_vars PROVE IInv'
  OBVIOUS
<1> USE DEF IInv
<1>1. TypeOK'
  BY StepType
<1>2. EventsInv'
  BY StepStage, StepPub, StepChannel DEF EventsInv
<1>3. HandlerInv'
  BY StepHandler
<1>4. DeliveredInv'
  BY StepDelivered
<1>5. OutcomeInv'
  BY StepOutcome
<1> QED BY <1>1, <1>2, <1>3, <1>4, <1>5

LEMMA Invariance == Spec => []IInv
BY InitIInv, StepIInv, RunStreamAssumption, PTL DEF Spec

\* TypeOK: the records of run_manager.go, event_bus.go and server.go keep
\* their shape, and publishEventToChannel never fills a channel beyond the
\* capacity Subscribe gave it.
THEOREM TypeCorrect == Spec => []TypeOK
<1>1. IInv => TypeOK
  BY DEF IInv
<1> QED BY <1>1, Invariance, PTL

\* EndedStreamShowsOutcome: writeRunSSE returns by itself only after the run
\* has ended, and a client that asked for every type has read the outcome.
THEOREM StreamEndsWithOutcome == Spec => []EndedStreamShowsOutcome
<1>1. IInv => EndedStreamShowsOutcome
  BY DEF IInv, EventsInv, StageInv, HandlerInv, EndedStreamShowsOutcome
<1> QED BY <1>1, Invariance, PTL

\* NothingIsSkipped: between the replay of getRunEvents and the events of the
\* bus nothing of the execution is lost, save what a full channel cost.
THEOREM ReplayMeetsLive == Spec => []NothingIsSkipped
<1>1. IInv => NothingIsSkipped
  BY DEF IInv, DeliveredInv, Delivered, Awaited, NothingIsSkipped
<1> QED BY <1>1, Invariance, PTL

\* TerminalIsKept: publishEventToChannel makes room for the outcome in every
\* channel, so that a stream that still runs can end.
THEOREM OutcomeIsDelivered == Spec => []TerminalIsKept
<1>1. ASSUME IInv PROVE TerminalIsKept
  <2> SUFFICES ASSUME NoCancel, stage = "ended", pub[Executor].pc = "published",
                      NEW s \in Streams, h[s].pc = "stream", Complete(s)
               PROVE  HasTerminal(s)
    BY DEF TerminalIsKept
  <2>1. OutcomeDue(s)
    BY <1>1 DEF IInv, OutcomeInv, Told
  <2>2. pub[Executor].todo = {}
    BY <1>1 DEF IInv, EventsInv, PubInv, Publishers, Sending
  <2> QED BY <2>1, <2>2 DEF OutcomeDue
<1> QED BY <1>1, Invariance, PTL

\* IdsIncrease: the ids writeRunSSE sends on one stream increase, whatever
\* mixture of replayed rows, status events without a seq and progress events
\* with one it writes.
THEOREM StreamIdsIncrease == Spec => IdsIncrease
<1>1. ASSUME RunStreamAssumption, IInv, [Next]_vars
      PROVE  [\A s \in Streams :
                sent'[s] \notin {sent[s], NothingSent} => sent'[s].id > sent[s].id]_sent
  BY <1>1, StepIds DEF IInv, IdsGrow
<1> QED BY <1>1, Invariance, RunStreamAssumption, PTL DEF Spec, IdsIncrease
=====

------------------------------ MODULE RunStream ------------------------------
(***************************************************************************)
(* The event stream of one run: the execute goroutine and the Cancel       *)
(* handlers write run events to the store and publish them on the event    *)
(* bus (gateway/run_manager.go, gateway/event_bus.go), and SSE handlers    *)
(* replay the stored events and go on with the published ones              *)
(* (getRunEvents and writeRunSSE of gateway/server.go).                    *)
(*                                                                         *)
(* The model begins when the claim of the run has been committed.  A step  *)
(* is one critical section of the manager or of the bus, one transaction   *)
(* of the store, or one operation on a subscriber's channel.  Payloads are *)
(* left out: an event is its type, the run status it carries, the seq it   *)
(* is published with and the row it was stored as.  Heartbeats change      *)
(* nothing.  The store accepts every write.                                *)
(***************************************************************************)
EXTENDS Integers, Sequences, FiniteSets

CONSTANTS
  Streams,      \* SSE requests
  Cancels,      \* Cancel requests
  Executor,     \* the goroutine that starts and executes the run
  Buffer,       \* capacity of a subscriber's channel (32)
  MaxProgress,  \* bound: progress events the starter reports
  Outcomes,     \* bound: terminal statuses the starter's result may give
  Afters,       \* after_seq values of the requests
  Filters,      \* type values of the requests, Any for none
  Limits        \* limit values of the requests

Any      == "any"
Progress == "progress"
Terminal == {"completed", "failed", "cancelled"}
Status   == {"queued", "running", "cancelling"} \cup Terminal
Types    == Status \cup {Progress}

ASSUME RunStreamAssumption ==
  /\ Executor \notin Cancels
  /\ Buffer \in Nat \ {0}
  /\ MaxProgress \in Nat
  /\ Outcomes \subseteq Terminal
  /\ Afters \subseteq Nat
  /\ Filters \subseteq Types \cup {Any}
  /\ Limits \subseteq Nat \ {0}

VARIABLES
  status,    \* the status in m.runs
  ctxDone,   \* has a Cancel called cancel()?
  stage,     \* how far execute has come
  log,       \* the run_events rows, in seq order
  pub,       \* the event each publisher is storing and publishing
  ch,        \* the channel of each subscriber
  h,         \* the SSE handler of each request
  sent,      \* what a client was sent: the last id, the rows it got
  lost       \* history: rows a full channel made a subscriber miss

vars == <<status, ctxDone, stage, log, pub, ch, h, sent, lost>>

-----------------------------------------------------------------------------
Publishers == Cancels \cup {Executor}

\* seq is 0 in a status event; row is where the event was stored.
Event(type, st)  == [type |-> type, status |-> st, seq |-> 0, row |-> 0]
StatusEvent(st)  == Event(st, st)
Row(event, p)    == [type |-> event.type, status |-> event.status, by |-> p]

\* fire says whether a Cancel goes on to call cancel().
NewPub(pc, event, fire) ==
  [pc |-> pc, ev |-> event, todo |-> {}, cur |-> {}, fire |-> fire]
Idle             == NewPub("idle", StatusEvent("queued"), FALSE)

NewHandler       == [pc |-> "new", after |-> 0, filter |-> Any, limit |-> 1,
                     seq |-> 0, initial |-> "queued"]

NothingSent      == [id |-> 0, got |-> {}, st |-> "queued"]

\* unsubscribe runs when the handler returns: until then the channel is in
\* the bus and open.
Registered(s) == h[s].pc \in {"get", "snapshot", "stream"}
Matches(s, type) == h[s].filter \in {Any, type}

-----------------------------------------------------------------------------
(* Storing an event: SaveRunWithEvent and AppendRunEvent number the row.    *)

\* Only recordProgressEvent copies the number of the row into the event.
Store(p) ==
  LET n == Len(log) + 1 IN
  /\ pub[p].pc = "store"
  /\ log' = Append(log, [type |-> pub[p].ev.type, status |-> pub[p].ev.status, by |-> p])
  /\ pub' = [pub EXCEPT ![p].pc = "collect", ![p].ev.row = n,
                        ![p].ev.seq = IF pub[p].ev.type = Progress THEN n ELSE 0]
  /\ UNCHANGED <<status, ctxDone, stage, ch, h, sent, lost>>

(* Publishing: PublishEvent and publishEventToChannel                       *)

\* The channels are copied under the read lock and used after it.
Collect(p) ==
  LET subs == {s \in Streams : Registered(s)} IN
  /\ pub[p].pc = "collect"
  /\ pub' = [pub EXCEPT ![p].todo = subs,
                        ![p].pc = IF subs = {} THEN "published" ELSE "send"]
  /\ UNCHANGED <<status, ctxDone, stage, log, ch, h, sent, lost>>

\* p has done what it can for s.
Served(p, s) ==
  LET rest == pub[p].todo \ {s} IN
  pub' = [pub EXCEPT ![p].todo = rest, ![p].cur = {},
                     ![p].pc = IF rest = {} THEN "published" ELSE "send"]

\* Mutant of Deliver: the channel has one place too many.
MutDeliverOneMore(p, s) ==
  /\ Registered(s) /\ Len(ch[s]) <= Buffer
  /\ ch' = [ch EXCEPT ![s] = Append(@, pub[p].ev)]
  /\ Served(p, s)
  /\ UNCHANGED lost

\* One non-blocking send.  A send on a channel that was closed meanwhile
\* panics and is recovered: nothing is delivered, and nobody misses it.
Deliver(p, s) ==
  /\ Registered(s) /\ Len(ch[s]) < Buffer
  /\ ch' = [ch EXCEPT ![s] = Append(@, pub[p].ev)]
  /\ Served(p, s)
  /\ UNCHANGED lost

Miss(p, s) ==
  /\ Registered(s) => Len(ch[s]) = Buffer
  /\ lost' = IF Registered(s) THEN [lost EXCEPT ![s] = @ \cup {pub[p].ev.row}] ELSE lost
  /\ Served(p, s)
  /\ UNCHANGED ch

\* Mutant of Send: a full channel loses a terminal event like any other.
MutSendOnce(p, s) ==
  /\ pub[p].pc = "send" /\ s \in pub[p].todo
  /\ Deliver(p, s) \/ Miss(p, s)
  /\ UNCHANGED <<status, ctxDone, stage, log, h, sent>>

\* The first select; a terminal event is worth a second attempt.
Send(p, s) ==
  /\ pub[p].pc = "send" /\ s \in pub[p].todo
  /\ \/ Deliver(p, s)
     \/ (pub[p].ev.status \notin Terminal \/ ~Registered(s)) /\ Miss(p, s)
     \/ /\ pub[p].ev.status \in Terminal
        /\ Registered(s) /\ Len(ch[s]) = Buffer
        /\ pub' = [pub EXCEPT ![p].pc = "drain", ![p].cur = {s}]
        /\ UNCHANGED <<ch, lost>>
  /\ UNCHANGED <<status, ctxDone, stage, log, h, sent>>

\* The second select takes the oldest event out, if there still is one.
Drain(p, s) ==
  /\ pub[p].pc = "drain" /\ s \in pub[p].cur
  /\ pub' = [pub EXCEPT ![p].pc = "resend"]
  /\ IF ch[s] # <<>>
     THEN /\ ch' = [ch EXCEPT ![s] = Tail(@)]
          /\ lost' = [lost EXCEPT ![s] = @ \cup {Head(ch[s]).row}]
     ELSE UNCHANGED <<ch, lost>>
  /\ UNCHANGED <<status, ctxDone, stage, log, h, sent>>

\* The third select.
Resend(p, s) ==
  /\ pub[p].pc = "resend" /\ s \in pub[p].cur
  /\ Deliver(p, s) \/ Miss(p, s)
  /\ UNCHANGED <<status, ctxDone, stage, log, h, sent>>

Publish(p) ==
  \/ Store(p) \/ Collect(p)
  \/ \E s \in Streams : Send(p, s) \/ Drain(p, s) \/ Resend(p, s)

-----------------------------------------------------------------------------
(* execute: the next update or report begins when the last one is out.      *)

Update(st, next) ==
  /\ pub[Executor].pc = "published"
  /\ status' = st
  /\ stage' = next
  /\ pub' = [pub EXCEPT ![Executor] = NewPub("store", StatusEvent(st), FALSE)]
  /\ UNCHANGED <<ctxDone, log, ch, h, sent, lost>>

UpdateRunning == stage = "accepted" /\ Update("running", "starter")

\* The context was done before a slot was free.
UpdateDropped == stage = "accepted" /\ ctxDone /\ Update("cancelled", "ended")

Finish ==
  /\ stage = "starter"
  /\ \E st \in (IF ctxDone THEN {"cancelled"} ELSE Outcomes) : Update(st, "ended")

\* The agent reports one trace event at a time, from inside the starter.
ReportProgress ==
  /\ stage = "starter" /\ pub[Executor].pc = "published"
  /\ Cardinality({n \in DOMAIN log : log[n].type = Progress}) < MaxProgress
  /\ pub' = [pub EXCEPT ![Executor] = NewPub("store", Event(Progress, status), FALSE)]
  /\ UNCHANGED <<status, ctxDone, stage, log, ch, h, sent, lost>>

(* Cancel                                                                   *)

CancelMark(c) ==
  LET fire == status \in {"queued", "running"}
      st   == IF fire THEN "cancelling" ELSE status
  IN
  /\ pub[c].pc = "idle"
  /\ status' = st
  /\ pub' = [pub EXCEPT ![c] = NewPub("store", StatusEvent(st), fire)]
  /\ UNCHANGED <<ctxDone, stage, log, ch, h, sent, lost>>

CancelSignal(c) ==
  /\ pub[c].pc = "published"
  /\ ctxDone' = (ctxDone \/ pub[c].fire)
  /\ pub' = [pub EXCEPT ![c] = [Idle EXCEPT !.pc = "done"]]
  /\ UNCHANGED <<status, stage, log, ch, h, sent, lost>>

-----------------------------------------------------------------------------
(* getRunEvents and writeRunSSE                                             *)

Handler(s, from, to) == h[s].pc = from /\ h' = [h EXCEPT ![s].pc = to]

Subscribe(s, after, filter, limit) ==
  /\ h[s].pc = "new"
  /\ h' = [h EXCEPT ![s] = [@ EXCEPT !.pc = "get", !.after = after,
                                     !.filter = filter, !.limit = limit]]
  /\ UNCHANGED <<status, ctxDone, stage, log, pub, ch, sent, lost>>

\* RunGetter reads the status in memory.
GetRun(s) ==
  /\ h[s].pc = "get"
  /\ h' = [h EXCEPT ![s].pc = "snapshot", ![s].initial = status]
  /\ UNCHANGED <<status, ctxDone, stage, log, pub, ch, sent, lost>>

\* ListRunEvents: the first limit rows after after_seq of the wanted type.
Wanted(s) == {n \in DOMAIN log : n > h[s].after /\ Matches(s, log[n].type)}
Page(s) == {n \in Wanted(s) : Cardinality({k \in Wanted(s) : k < n}) < h[s].limit}
Newest(S) == CHOOSE n \in S : \A k \in S : k <= n

\* The replay.  Without a row the status in memory becomes an event with
\* id 1.  The handler returns if the last thing it wrote was terminal.
Snapshot(s) ==
  LET page == Page(s)
      seq  == IF page = {} THEN 1 ELSE Newest(page)
      last == IF page = {} THEN h[s].initial ELSE log[seq].status
  IN
  /\ h[s].pc = "snapshot"
  /\ h' = [h EXCEPT ![s].pc = IF last \in Terminal THEN "ended" ELSE "stream",
                    ![s].seq = seq]
  /\ sent' = IF page # {} THEN [sent EXCEPT ![s] = [id |-> seq, got |-> page, st |-> last]]
             ELSE IF Matches(s, h[s].initial)
                  THEN [sent EXCEPT ![s].id = 1, ![s].st = last]
                  ELSE sent
  /\ ch' = IF last \in Terminal THEN [ch EXCEPT ![s] = <<>>] ELSE ch
  /\ UNCHANGED <<status, ctxDone, stage, log, pub, lost>>

\* Mutant of Receive: a stream also ends when the run is being cancelled.
MutReceiveEndsEarly(s) ==
  LET ev == Head(ch[s])
      id == IF ev.seq <= h[s].seq THEN h[s].seq + 1 ELSE ev.seq
  IN
  /\ h[s].pc = "stream" /\ ch[s] # <<>> /\ Matches(s, ev.type)
  /\ ch' = [ch EXCEPT ![s] = <<>>]
  /\ h' = [h EXCEPT ![s].pc = IF ev.status \in Terminal \cup {"cancelling"}
                              THEN "ended" ELSE @, ![s].seq = id]
  /\ sent' = [sent EXCEPT ![s] = [id |-> id, got |-> @.got \cup {ev.row}, st |-> ev.status]]
  /\ UNCHANGED <<status, ctxDone, stage, log, pub, lost>>

\* Mutant of Receive: a seq that is not above the last id is sent as it is.
MutReceiveRepeatsId(s) ==
  LET ev == Head(ch[s]) IN
  /\ h[s].pc = "stream" /\ ch[s] # <<>> /\ Matches(s, ev.type)
  /\ ch' = [ch EXCEPT ![s] = Tail(@)]
  /\ h' = [h EXCEPT ![s].seq = ev.seq]
  /\ sent' = [sent EXCEPT ![s] = [id |-> IF ev.seq = 0 THEN h[s].seq + 1 ELSE ev.seq,
                                  got |-> @.got \cup {ev.row}, st |-> ev.status]]
  /\ UNCHANGED <<status, ctxDone, stage, log, pub, lost>>

\* Mutant of Receive: an event whose seq is not above the last id is taken
\* for one that was replayed already.
MutReceiveDropsOld(s) ==
  LET ev == Head(ch[s])
      ends == ev.status \in Terminal
      new == ev.seq > h[s].seq \/ ends
  IN
  /\ h[s].pc = "stream" /\ ch[s] # <<>> /\ Matches(s, ev.type)
  /\ ch' = [ch EXCEPT ![s] = IF ends THEN <<>> ELSE Tail(@)]
  /\ h' = [h EXCEPT ![s].pc = IF ends THEN "ended" ELSE @]
  /\ sent' = IF new THEN [sent EXCEPT ![s] = [id |-> @.id + 1, got |-> @.got \cup {ev.row},
                                              st |-> ev.status]] ELSE sent
  /\ UNCHANGED <<status, ctxDone, stage, log, pub, lost>>

\* Mutant of Receive: a terminal event of another type is just skipped.
MutReceiveSkips(s) ==
  LET ev == Head(ch[s])
      id == IF ev.seq <= h[s].seq THEN h[s].seq + 1 ELSE ev.seq
  IN
  /\ h[s].pc = "stream" /\ ch[s] # <<>>
  /\ ch' = [ch EXCEPT ![s] = Tail(@)]
  /\ IF Matches(s, ev.type)
     THEN /\ h' = [h EXCEPT ![s].pc = IF ev.status \in Terminal THEN "ended" ELSE @,
                            ![s].seq = id]
          /\ sent' = [sent EXCEPT ![s] = [id |-> id, got |-> @.got \cup {ev.row},
                                          st |-> ev.status]]
     ELSE UNCHANGED <<h, sent>>
  /\ UNCHANGED <<status, ctxDone, stage, log, pub, lost>>

\* One event of the channel.  An event whose seq is not above the last id
\* gets the next id.
Receive(s) ==
  LET ev == Head(ch[s])
      id == IF ev.seq <= h[s].seq THEN h[s].seq + 1 ELSE ev.seq
      ends == ev.status \in Terminal
  IN
  /\ h[s].pc = "stream" /\ ch[s] # <<>>
  /\ ch' = [ch EXCEPT ![s] = IF ends THEN <<>> ELSE Tail(@)]
  /\ IF Matches(s, ev.type)
     THEN /\ h' = [h EXCEPT ![s].pc = IF ends THEN "ended" ELSE @, ![s].seq = id]
          /\ sent' = [sent EXCEPT ![s] = [id |-> id, got |-> @.got \cup {ev.row},
                                          st |-> ev.status]]
     ELSE /\ h' = [h EXCEPT ![s].pc = IF ends THEN "ended" ELSE @]
          /\ UNCHANGED sent
  /\ UNCHANGED <<status, ctxDone, stage, log, pub, lost>>

\* The client goes away, and what it was sent with it: the request's context
\* is done.
Leave(s) ==
  /\ Registered(s)
  /\ h' = [h EXCEPT ![s] = [NewHandler EXCEPT !.pc = "left"]]
  /\ ch' = [ch EXCEPT ![s] = <<>>]
  /\ sent' = [sent EXCEPT ![s] = NothingSent]
  /\ lost' = [lost EXCEPT ![s] = {}]
  /\ UNCHANGED <<status, ctxDone, stage, log, pub>>

-----------------------------------------------------------------------------
Init ==
  /\ status = "queued" /\ ctxDone = FALSE /\ stage = "accepted"
  /\ log = <<[type |-> "queued", status |-> "queued", by |-> Executor]>>
  /\ pub = [p \in Publishers |->
              IF p = Executor
              THEN NewPub("collect", [StatusEvent("queued") EXCEPT !.row = 1], FALSE)
              ELSE Idle]
  /\ ch = [s \in Streams |-> <<>>]
  /\ h = [s \in Streams |-> NewHandler]
  /\ sent = [s \in Streams |-> NothingSent]
  /\ lost = [s \in Streams |-> {}]

Execute == UpdateRunning \/ UpdateDropped \/ Finish

Serve(s) == GetRun(s) \/ Snapshot(s) \/ Receive(s)

Next ==
  \/ Execute \/ ReportProgress
  \/ \E p \in Publishers : Publish(p)
  \/ \E c \in Cancels : CancelMark(c) \/ CancelSignal(c)
  \/ \E s \in Streams :
       \/ \E after \in Afters, filter \in Filters, limit \in Limits :
            Subscribe(s, after, filter, limit)
       \/ Serve(s) \/ Leave(s)

Spec == Init /\ [][Next]_vars

(***************************************************************************)
(* Goroutines that can take a step do, and the starter returns.  Nothing   *)
(* says that a request arrives or that a client leaves.                    *)
(***************************************************************************)
Fairness ==
  /\ WF_vars(Execute)
  /\ \A p \in Publishers : WF_vars(Publish(p))
  /\ \A c \in Cancels : WF_vars(CancelSignal(c))
  /\ \A s \in Streams : WF_vars(Serve(s))

FairSpec == Spec /\ Fairness

-----------------------------------------------------------------------------
(* Properties                                                               *)

EventRecord == [type: Types, status: Status, seq: Nat, row: Nat]

\* Every variable keeps its type, and no channel is filled beyond Buffer.
TypeOK ==
  /\ status \in Status /\ ctxDone \in BOOLEAN
  /\ stage \in {"accepted", "starter", "ended"}
  /\ log \in Seq([type: Types, status: Status, by: Publishers])
  /\ pub \in [Publishers ->
       [pc: {"idle", "store", "collect", "send", "drain", "resend", "published", "done"},
        ev: EventRecord, todo: SUBSET Streams, cur: SUBSET Streams, fire: BOOLEAN]]
  /\ ch \in [Streams -> Seq(EventRecord)]
  /\ \A s \in Streams : Len(ch[s]) <= Buffer
  /\ h \in [Streams ->
       [pc: {"new", "get", "snapshot", "stream", "ended", "left"}, after: Nat,
        filter: Types \cup {Any}, limit: Nat, seq: Nat, initial: Status]]
  /\ sent \in [Streams -> [id: Nat, got: SUBSET Nat, st: Status]]
  /\ lost \in [Streams -> SUBSET Nat]

\* A request that asks for everything from its cursor on.
Complete(s) == h[s].filter = Any /\ h[s].limit >= Len(log)
ByExecutor(n) == log[n].by = Executor
HasTerminal(s) == \E i \in DOMAIN ch[s] : ch[s][i].status \in Terminal
NoCancel == \A c \in Cancels : pub[c].pc = "idle"

\* Between the replay and the live events nothing is lost: when the server
\* ends a stream, the client has every event the execution stored on the way
\* to its end, save those a full channel cost it.
NothingIsSkipped ==
  \A s \in Streams : h[s].pc = "ended" /\ Complete(s) =>
    \A n \in DOMAIN log :
      n > h[s].after /\ ByExecutor(n) /\ log[n].status \notin Terminal
        => n \in sent[s].got \cup lost[s]

\* The server ends a stream only after the run has ended, and a client that
\* asked for every type has then read the outcome.
EndedStreamShowsOutcome ==
  \A s \in Streams : h[s].pc = "ended" =>
    /\ status \in Terminal
    /\ h[s].filter = Any => sent[s].st \in Terminal

\* The ids a stream sends increase, although status events are published
\* without a seq and progress events with that of their row.
IdsIncrease ==
  [][\A s \in Streams :
       sent'[s] \notin {sent[s], NothingSent} => sent'[s].id > sent[s].id]_sent

\* Without a Cancel: once execute has published the outcome, a stream that
\* is still going has it in its channel, however full that was.
TerminalIsKept ==
  NoCancel /\ stage = "ended" /\ pub[Executor].pc = "published" =>
    \A s \in Streams : h[s].pc = "stream" /\ Complete(s) => HasTerminal(s)

\* Without a Cancel: a stream that follows a run which has not ended is
\* ended by the server or left by its client, whatever type it asked for.
LiveStreamEnds ==
  \A s \in Streams :
    h[s].pc = "stream" /\ status \notin Terminal
      ~> h[s].pc \in {"ended", "left"} \/ ~NoCancel

\* Stated by the bus's test: a terminal update survives a full subscriber
\* buffer.  If one was dropped, another is in the channel.
TerminalSurvivesFullBuffer ==
  (\A p \in Publishers : pub[p].pc \notin {"send", "drain", "resend"}) =>
    \A s \in Streams :
      h[s].pc = "stream" /\ (\E n \in lost[s] : log[n].status \in Terminal)
        => HasTerminal(s)

\* Stated for after_seq in openapi.yaml: only events after it are replayed.
ReplayStaysAfterCursor ==
  \A s \in Streams : sent[s].id # 0 => sent[s].id > h[s].after
=============================================================================

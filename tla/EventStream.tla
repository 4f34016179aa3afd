---------------------------- MODULE EventStream -----------------------------
(***************************************************************************)
(* A streamed call (Agent.Stream): a source of events, the goroutine or    *)
(* callback that moves them into a channel, and the caller that receives   *)
(* from llm.channelStream.  The source is an SSE body (openai, httpjson),  *)
(* the output of a process (codexcli) or the events of an SDK session      *)
(* (copilot).  Events are numbered in the order the source emits them.     *)
(***************************************************************************)
EXTENDS Integers, Sequences, CallContext

CONSTANTS
    Capacity,   \* of the channel: 32, or 64 for copilot
    MaxEvents   \* bound on the events of a source

ASSUME EventStreamAssumption == Capacity \in Nat \ {0} /\ MaxEvents \in Nat \ {0}

VARIABLES
    source, \* n: events emitted; over: how it ended
    reader, \* pc, and the event it is about to send
    chan,   \* buffered events, and whether the channel is open
    caller, \* "off", "receiving", "eof", "stopped", "closed"
    got     \* what the caller has received

streamVars == <<source, reader, chan, caller, got>>

NoSource == [n |-> 0, over |-> "no"]
NoReader == [pc |-> "off", event |-> 0]
NoChan == [buffer |-> <<>>, open |-> FALSE]

\* Events the reader adds of its own.
Completed == -1
Failed == -2
\* The events of the source among those of s.
Emitted(s) == {s[i] : i \in 1..Len(s)} \ {Completed, Failed}

Scans == kind \in {"openai", "httpjson", "codex"}

-----------------------------------------------------------------------------
(* The reader *)

\* The request was answered (or the process started, or the prompt sent):
\* the reader is started and the stream is the caller's.
StreamOpens ==
    /\ source' = NoSource
    /\ reader' = [pc |-> "read", event |-> 0]
    /\ chan' = [buffer |-> <<>>, open |-> TRUE]
    /\ caller' = "receiving"
    /\ got' = <<>>

Leaves == reader' = [pc |-> "gone", event |-> 0] /\ chan' = [chan EXCEPT !.open = FALSE]
Sends(e, pc) == reader' = [pc |-> pc, event |-> e] /\ UNCHANGED chan

Emits == reader.pc = "read" /\ source.n < MaxEvents /\ source.over = "no"

\* ReadSSE has a whole event and looks at the context before it hands it on.
EmitSSE ==
    /\ kind \in {"openai", "httpjson"} /\ Emits
    /\ source' = [source EXCEPT !.n = @ + 1]
    /\ IF cancelled THEN Leaves ELSE Sends(source.n + 1, "send")
    /\ UNCHANGED <<caller, got>>

\* readJSONL has a line of the process.
EmitLine ==
    /\ kind = "codex" /\ Emits
    /\ source' = [source EXCEPT !.n = @ + 1]
    /\ Sends(source.n + 1, "send")
    /\ UNCHANGED <<caller, got>>

\* The SDK calls back; its last event (idle or error) is one as well.
EmitSDK ==
    /\ kind = "copilot" /\ Emits /\ caller # "closed"
    /\ \E over \in IF source.n + 1 = MaxEvents THEN {"clean"} ELSE {"no", "clean"} :
         source' = [n |-> source.n + 1, over |-> over]
    /\ Sends(source.n + 1, "send")
    /\ UNCHANGED <<caller, got>>

\* The SDK reports idle after an error, or anything else after its last event.
EmitLate ==
    /\ kind = "copilot" /\ reader.pc = "read" /\ source.over = "clean"
    /\ caller # "closed"
    /\ Sends(source.n + 1, "send")
    /\ UNCHANGED <<source, caller, got>>

SourceEnds(over) ==
    /\ reader.pc = "read" /\ source.over = "no"
    /\ source' = [source EXCEPT !.over = over]
    /\ UNCHANGED <<caller, got>>

\* The body ends: readSSE of openai adds nothing.
OpenAIEnds == kind = "openai" /\ SourceEnds("clean") /\ Leaves

\* readSSE of httpjson reports completion unless the context is done.
HTTPJSONEnds ==
    /\ kind = "httpjson" /\ SourceEnds("clean")
    /\ IF cancelled THEN Leaves ELSE Sends(Completed, "last")

\* readJSONL waits for the process and reports how it ended.
CodexEnds == kind = "codex" /\ SourceEnds("clean") /\ Sends(Completed, "last")

\* Reading fails (connection lost, context done, closed by the caller, an
\* event too large), or the process fails.
Breaks == Scans /\ SourceEnds("broken") /\ Sends(Failed, "last")

\* Mutant of Buffered: an event is dropped when the channel is full.
MutBuffered(e) ==
    chan' = IF Len(chan.buffer) < Capacity THEN [chan EXCEPT !.buffer = Append(@, e)] ELSE chan

\* Nothing is dropped: a sender waits while the buffer is full.
Buffered(e) ==
    /\ Len(chan.buffer) < Capacity
    /\ chan' = [chan EXCEPT !.buffer = Append(@, e)]

\* The last event of an SDK session closes the channel.
Send ==
    /\ reader.pc = "send" /\ chan.open
    /\ Buffered(reader.event)
    /\ IF kind = "copilot" /\ source.over = "clean"
       THEN reader' = [pc |-> "shut", event |-> 0]
       ELSE reader' = [pc |-> "read", event |-> 0]
    /\ UNCHANGED <<source, caller, got>>

\* select takes the context: a scanning reader ends, the callback drops the
\* event.
SendAbandoned ==
    /\ reader.pc = "send" /\ cancelled
    /\ IF Scans THEN Leaves
       ELSE /\ reader' = [pc |-> IF source.over = "clean" THEN "shut" ELSE "read", event |-> 0]
            /\ UNCHANGED chan
    /\ UNCHANGED <<source, caller, got>>

\* Sending on the channel that Close or an earlier last event has closed.
SendPanics ==
    /\ kind = "copilot" /\ reader.pc = "send" /\ ~chan.open
    /\ reader' = [pc |-> "panicked", event |-> 0]
    /\ UNCHANGED <<source, chan, caller, got>>

\* closeEvents, once.
Shut ==
    /\ reader.pc = "shut"
    /\ reader' = [pc |-> "read", event |-> 0]
    /\ chan' = [chan EXCEPT !.open = FALSE]
    /\ UNCHANGED <<source, caller, got>>

\* The last event of a scanning reader does not look at the context.
SendLast ==
    /\ reader.pc = "last" /\ Len(chan.buffer) < Capacity
    /\ reader' = [pc |-> "gone", event |-> 0]
    /\ chan' = [buffer |-> Append(chan.buffer, reader.event), open |-> FALSE]
    /\ UNCHANGED <<source, caller, got>>

ReaderNext ==
    \/ EmitSSE \/ EmitLine \/ EmitSDK \/ EmitLate
    \/ OpenAIEnds \/ HTTPJSONEnds \/ CodexEnds \/ Breaks
    \/ Send \/ SendAbandoned \/ SendPanics \/ Shut \/ SendLast

-----------------------------------------------------------------------------
(* The caller *)

Recv ==
    /\ caller = "receiving"
    /\ \/ /\ chan.buffer # <<>>
          /\ got' = Append(got, Head(chan.buffer))
          /\ chan' = [chan EXCEPT !.buffer = Tail(@)]
          /\ UNCHANGED caller
       \/ /\ chan.buffer = <<>> /\ ~chan.open
          /\ caller' = "eof"
          /\ UNCHANGED <<chan, got>>
       \/ /\ cancelled
          /\ caller' = "stopped"
          /\ UNCHANGED <<chan, got>>
    /\ UNCHANGED <<source, reader>>

\* Close: the stream's own context, then the body, the process or the
\* subscription and the channel.
Close ==
    /\ caller \in {"receiving", "eof", "stopped"}
    /\ caller' = "closed"
    /\ chan' = [chan EXCEPT !.open = IF kind = "copilot" THEN FALSE ELSE @]
    /\ UNCHANGED <<source, reader, got>>

StreamNext == (ReaderNext \/ Recv \/ Close) /\ UNCHANGED <<kind, cancelled>>

-----------------------------------------------------------------------------
StreamTypeOK ==
    /\ source.n \in 0..MaxEvents /\ source.over \in {"no", "clean", "broken"}
    /\ reader.pc \in {"off", "read", "send", "last", "shut", "gone", "panicked"}
    /\ reader.event \in {Completed, Failed} \union 0..(MaxEvents + 1)
    /\ Len(chan.buffer) <= Capacity /\ chan.open \in BOOLEAN
    /\ caller \in {"off", "receiving", "eof", "stopped", "closed"}

(***************************************************************************)
(* A caller receives the events of the source in order; a gap needs a      *)
(* cancelled context and the callback of the SDK.  The stream says it is   *)
(* complete only when it is: the source ended by itself and all its events *)
(* came before.  A caller that reads to the end, and was not cancelled,    *)
(* has every event, and has been told when the source broke off.           *)
(***************************************************************************)
StreamIsFaithful ==
    /\ \A i, j \in 1..Len(got) : j < i /\ got[i] > 0 => got[j] < got[i]
    /\ (kind # "copilot" \/ ~cancelled) => \A i \in 1..Len(got) : got[i] > 0 => got[i] = i
    /\ \A i \in 1..Len(got) : got[i] < 0 => i = Len(got)
    /\ \A i \in 1..Len(got) : got[i] = Completed =>
         source.over = "clean" /\ Emitted(got) = 1..source.n
    /\ (caller = "eof" /\ ~cancelled) =>
         /\ source.over # "no" /\ Emitted(got) = 1..source.n
         /\ source.over = "broken" => got # <<>> /\ got[Len(got)] = Failed
=============================================================================

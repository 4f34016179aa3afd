------------------------- MODULE EventStreamProofs -------------------------
(***************************************************************************)
(* A theorem about the streamed call of AgentRun, for every capacity of    *)
(* the channel, every number of events and every provider: what the        *)
(* caller receives is what the source emitted (StreamIsFaithful).  The     *)
(* argument goes by the line: the events the caller has received followed  *)
(* by those in the channel.  A receive does not change it, a send appends  *)
(* to it (LineReceived, LineGrows), and LineInv says how far behind the    *)
(* source it is for each place of the reader.                              *)
(***************************************************************************)
EXTENDS AgentRun, SequenceTheorems, TLAPS

-----------------------------------------------------------------------------
(* The invariant                                                            *)

Line == got \o chan.buffer

ReaderPCs == {"off", "read", "send", "last", "shut", "gone", "panicked"}
CallerPCs == {"off", "receiving", "eof", "stopped", "closed"}

\* The fields of the state one by one.
StreamTyped ==
  /\ cancelled \in BOOLEAN
  /\ source \in [n : 0..MaxEvents, over : {"no", "clean", "broken"}]
  /\ reader \in [pc : ReaderPCs, event : {Completed, Failed} \cup 0..(MaxEvents + 1)]
  /\ chan \in [buffer : Seq(Int), open : BOOLEAN] /\ Len(chan.buffer) <= Capacity
  /\ caller \in CallerPCs /\ got \in Seq(Int)

\* What is in the line: events of the source in their order, without a gap
\* unless the SDK dropped one after a cancel, and at most one event of the
\* reader's own, which is the last and says how the source ended.
LineInv ==
  LET k == Len(Line)
  IN  /\ \A i \in 1..k : Line[i] \in {Completed, Failed} \cup 1..source.n
      /\ \A i, j \in 1..k : j < i /\ Line[i] > 0 => Line[j] < Line[i]
      /\ kind # "copilot" \/ ~cancelled => \A i \in 1..k : Line[i] > 0 => Line[i] = i
      /\ \A i \in 1..k : Line[i] < 0 =>
           /\ i = k /\ kind # "copilot" /\ reader.pc = "gone" /\ source.n = k - 1
           /\ source.over = IF Line[i] = Completed THEN "clean" ELSE "broken"

\* The event in the reader's hand is the next one of the line.
HandInv ==
  LET k == Len(Line)
  IN  /\ reader.pc = "send" =>
           /\ kind \in Kinds
           /\ chan.open => /\ reader.event = source.n /\ source.n > 0
                           /\ \A i \in 1..k : Line[i] < source.n
      /\ reader.pc = "last" =>
           /\ kind # "copilot" /\ kind \in Kinds /\ source.n = k /\ source.over # "no"
           /\ reader.event = IF source.over = "clean" THEN Completed ELSE Failed

\* A scanning reader: nothing is lost before it leaves, and it leaves early
\* only when the context is done.
ScanInv ==
  LET k == Len(Line)
  IN  kind # "copilot" /\ reader.pc # "off" =>
        /\ reader.pc \notin {"shut", "panicked"} /\ (chan.open <=> reader.pc # "gone")
        /\ reader.pc = "read" => source.n = k /\ source.over = "no"
        /\ reader.pc = "send" => source.n = k + 1 /\ source.over = "no"
        /\ reader.pc = "gone" /\ ~cancelled =>
             \/ source.over = "clean" /\ source.n = k
             \/ k > 0 /\ Line[k] < 0

\* The callback of the SDK: the last event closes the channel, or Close does.
SDKInv ==
  LET k == Len(Line)
  IN  kind = "copilot" /\ reader.pc # "off" =>
        /\ reader.pc \notin {"last", "gone"} /\ source.over # "broken"
        /\ caller = "closed" \/ reader.pc = "panicked" => ~chan.open
        /\ reader.pc = "read" /\ chan.open => source.over = "no"
        /\ reader.pc = "shut" => source.over = "clean"
        /\ ~cancelled /\ chan.open =>
             source.n = IF reader.pc = "send" THEN k + 1 ELSE k
        /\ ~cancelled /\ ~chan.open /\ caller # "closed" =>
             source.over = "clean" /\ source.n = k

\* Before a stream is opened, and after it has ended.
EdgeInv ==
  /\ reader.pc = "off" =>
       /\ got = <<>> /\ chan = NoChan /\ source = NoSource
       /\ caller \in {"off", "stopped", "closed"}
  /\ caller = "off" => reader.pc = "off"
  /\ caller = "eof" => chan.buffer = <<>> /\ ~chan.open

StreamInv == StreamTyped /\ LineInv /\ HandInv /\ ScanInv /\ SDKInv /\ EdgeInv

\* A stream belongs to a call that streams and whose request was answered.
ModeInv ==
  /\ mode # "loop" => loop.pc = "off"
  /\ mode = "stream" => job.pc = "none"
  /\ mode # "stream" \/ http.pc # "idle" => reader.pc = "off" /\ caller = "off"

IInv == StreamInv /\ ModeInv

-----------------------------------------------------------------------------
(* The line                                                                 *)

\* The numbers the reader's own events are.
LEMMA OwnEvents == Completed = -1 /\ Failed = -2
BY DEF Completed, Failed

\* Receiving moves the first event of the channel to the received ones.
LEMMA LineReceived ==
  ASSUME NEW g \in Seq(Int), NEW b \in Seq(Int), b # <<>>
  PROVE  /\ Append(g, Head(b)) \in Seq(Int) /\ Tail(b) \in Seq(Int)
         /\ Len(Tail(b)) = Len(b) - 1 /\ Append(g, Head(b)) \o Tail(b) = g \o b
<1> DEFINE e == Head(b)
           t == Tail(b)
           one == <<e>>
<1>1. /\ e \in Int /\ t \in Seq(Int) /\ Len(t) = Len(b) - 1 /\ Len(b) \in Nat
      /\ \A i \in 1..Len(t) : t[i] = b[i + 1]
  BY HeadTailProperties
<1>2. one \in Seq(Int) /\ Len(one) = 1 /\ one[1] = b[1] /\ Len(b) >= 1
  <2>1. Len(b) # 0
    BY EmptySeq
  <2>2. e = b[1]
    OBVIOUS
  <2>3. one \in Seq(Int) /\ Len(one) = 1 /\ one[1] = e
    <3> HIDE DEF e
    <3> QED BY <1>1
  <2> QED BY <1>1, <2>1, <2>2, <2>3
<1> HIDE DEF one, t
<1>3. one \o t = b
  <2>1. /\ one \o t \in Seq(Int) /\ Len(one \o t) = Len(b)
        /\ \A i \in 1..Len(b) : (one \o t)[i] = IF i <= 1 THEN one[i] ELSE t[i - 1]
    <3>1. \A u, v \in Seq(Int) :
            /\ u \o v \in Seq(Int) /\ Len(u \o v) = Len(u) + Len(v)
            /\ \A i \in 1..(Len(u) + Len(v)) :
                 (u \o v)[i] = IF i <= Len(u) THEN u[i] ELSE v[i - Len(u)]
      BY ConcatProperties
    <3>2. one \in Seq(Int) /\ t \in Seq(Int)
      BY <1>1, <1>2
    <3>3. /\ one \o t \in Seq(Int) /\ Len(one \o t) = Len(one) + Len(t)
          /\ \A i \in 1..(Len(one) + Len(t)) :
               (one \o t)[i] = IF i <= Len(one) THEN one[i] ELSE t[i - Len(one)]
      BY <3>1, <3>2
    <3>4. Len(one) = 1 /\ Len(one) + Len(t) = Len(b)
      BY <1>1, <1>2
    <3> QED BY <3>3, <3>4
  <2>2. ASSUME NEW i \in 1..Len(b) PROVE (one \o t)[i] = b[i]
    <3>1. CASE i = 1
      <4>1. 1 \in 1..Len(b) /\ 1 <= 1
        BY <1>1, <1>2
      <4>2. (one \o t)[1] = one[1]
        BY <2>1, <4>1
      <4> QED BY <1>2, <3>1, <4>2
    <3>2. CASE i # 1
      <4>1. i - 1 \in 1..Len(t) /\ (i - 1) + 1 = i /\ ~(i <= 1)
        BY <1>1, <2>2, <3>2
      <4>2. t[i - 1] = b[(i - 1) + 1]
        BY <1>1, <4>1
      <4>3. (one \o t)[i] = t[i - 1]
        BY <2>1, <2>2, <4>1
      <4> QED BY <4>1, <4>2, <4>3
    <3> QED BY <3>1, <3>2
  <2> QED BY <2>1, <2>2, SeqEqual
<1>4. Append(g, e) = g \o one /\ Append(g, e) \in Seq(Int)
  BY <1>1, AppendIsConcat, AppendProperties DEF one
<1>5. (g \o one) \o t = g \o (one \o t)
  <2> DEFINE S == Int
  <2>1. g \in Seq(S) /\ one \in Seq(S) /\ t \in Seq(S)
    BY <1>1, <1>2
  <2> HIDE DEF S
  <2> QED BY SMTT(30), <2>1, ConcatAssociative
<1> QED BY <1>1, <1>3, <1>4, <1>5 DEF t

\* Buffering an event appends it to the line.
LEMMA LineGrows ==
  ASSUME NEW g \in Seq(Int), NEW b \in Seq(Int), NEW e \in Int
  PROVE  /\ Append(b, e) \in Seq(Int) /\ Len(Append(b, e)) = Len(b) + 1
         /\ g \o b \in Seq(Int)
         /\ g \o Append(b, e) = Append(g \o b, e)
<1>1. <<e>> \in Seq(Int)
  OBVIOUS
<1>2. Append(b, e) = b \o <<e>> /\ Append(b, e) \in Seq(Int) /\ Len(Append(b, e)) = Len(b) + 1
  BY AppendIsConcat, AppendProperties
<1>3. g \o b \in Seq(Int) /\ (g \o b) \o <<e>> = g \o (b \o <<e>>)
  <2> DEFINE S == Int
             one == <<e>>
  <2>1. g \in Seq(S) /\ b \in Seq(S) /\ one \in Seq(S)
    BY <1>1
  <2> HIDE DEF S, one
  <2>2. g \o b \in Seq(S)
    BY <2>1, ConcatProperties
  <2>3. (g \o b) \o one = g \o (b \o one)
    BY SMTT(30), <2>1, ConcatAssociative
  <2> QED BY <2>2, <2>3 DEF S, one
<1>4. Append(g \o b, e) = (g \o b) \o <<e>>
  BY <1>3, AppendIsConcat
<1> QED BY <1>2, <1>3, <1>4

\* What the typed state says of the line.
LEMMA LineTyped ==
  ASSUME StreamTyped
  PROVE  /\ Line \in Seq(Int) /\ Len(Line) \in Nat
         /\ Len(Line) = Len(got) + Len(chan.buffer)
         /\ \A i \in 1..Len(Line) : Line[i] \in Int
         /\ Len(got) \in Nat /\ Len(chan.buffer) \in Nat
<1>1. got \in Seq(Int) /\ chan.buffer \in Seq(Int)
  BY DEF StreamTyped
<1>2. Line \in Seq(Int) /\ Len(Line) = Len(got) + Len(chan.buffer)
  BY <1>1, ConcatProperties DEF Line
<1> HIDE DEF Line
<1> QED BY <1>1, <1>2

\* A step that leaves the line alone ...
LineSame == Line' = Line

\* ... and one that appends e to it.
LineAppends(e) ==
  /\ Len(Line') = Len(Line) + 1 /\ Line'[Len(Line) + 1] = e
  /\ \A i \in 1..Len(Line) : Line'[i] = Line[i]

\* What an event that is buffered does to the channel and the line.
LEMMA Buffers ==
  ASSUME StreamTyped, NEW e \in Int, Len(chan.buffer) < Capacity, NEW open \in BOOLEAN,
         chan' = [buffer |-> Append(chan.buffer, e), open |-> open], got' = got
  PROVE  /\ chan' \in [buffer : Seq(Int), open : BOOLEAN] /\ Len(chan'.buffer) <= Capacity
         /\ chan'.open = open /\ LineAppends(e)
<1>1. got \in Seq(Int) /\ chan.buffer \in Seq(Int) /\ Capacity \in Nat
  BY EventStreamAssumption DEF StreamTyped
<1> DEFINE b == Append(chan.buffer, e)
<1>2. /\ b \in Seq(Int) /\ Len(b) = Len(chan.buffer) + 1
      /\ Line \in Seq(Int) /\ got \o b = Append(Line, e)
  BY <1>1, LineGrows DEF Line
<1> HIDE DEF b
<1>3. chan'.buffer = b /\ chan'.open = open /\ chan' \in [buffer : Seq(Int), open : BOOLEAN]
  BY <1>2 DEF b
<1>4. Len(chan.buffer) \in Nat
  BY <1>1
<1>5. Line' = Append(Line, e)
  BY <1>2, <1>3 DEF Line
<1>6. LineAppends(e)
  BY <1>2, <1>5, AppendProperties DEF LineAppends
<1> QED BY <1>1, <1>2, <1>3, <1>4, <1>6

\* The fields of the state, for the provers.
LEMMA Fields ==
  ASSUME StreamTyped
  PROVE  /\ source = [n |-> source.n, over |-> source.over]
         /\ source.n \in Nat /\ source.n <= MaxEvents /\ MaxEvents \in Nat
         /\ source.over \in {"no", "clean", "broken"}
         /\ reader = [pc |-> reader.pc, event |-> reader.event]
         /\ reader.pc \in ReaderPCs
         /\ reader.event \in {Completed, Failed} \cup 0..(MaxEvents + 1) /\ reader.event \in Int
         /\ chan = [buffer |-> chan.buffer, open |-> chan.open]
         /\ chan.buffer \in Seq(Int) /\ chan.open \in BOOLEAN /\ cancelled \in BOOLEAN
BY EventStreamAssumption, OwnEvents DEF StreamTyped

\* The state of a stream whose line stays as it is.
LEMMA SameLine ==
  ASSUME got' = got, chan'.buffer = chan.buffer
  PROVE  Line' = Line
BY DEF Line

\* No event in the line has a number the source has not reached.
LEMMA LineBelow ==
  ASSUME StreamTyped, LineInv
  PROVE  \A i \in 1..Len(Line) : Line[i] \in Int /\ Line[i] <= source.n /\ Line[i] < source.n + 1
<1>1. \A i \in 1..Len(Line) : Line[i] \in {Completed, Failed} \cup 1..source.n
  BY DEF LineInv
<1>2. source.n \in Nat
  BY Fields
<1> QED BY <1>1, <1>2, OwnEvents

-----------------------------------------------------------------------------
(* The steps of a stream                                                    *)

\* An event of an SSE body, handed on unless the context is done.
LEMMA EmitSSEStep ==
  ASSUME StreamInv, kind' = kind, cancelled' = cancelled, EmitSSE
  PROVE  StreamInv'
<1>1. /\ kind # "copilot" /\ kind \in Kinds /\ reader.pc = "read" /\ source.n < MaxEvents
      /\ source.over = "no" /\ source'.n = source.n + 1 /\ source'.over = "no"
      /\ source' = [n |-> source'.n, over |-> source'.over]
      /\ caller' = caller /\ got' = got /\ chan'.buffer = chan.buffer
      /\ chan' = [buffer |-> chan'.buffer, open |-> chan'.open]
      /\ reader' = [pc |-> reader'.pc, event |-> reader'.event]
      /\ \/ cancelled /\ reader'.pc = "gone" /\ reader'.event = 0 /\ chan'.open = FALSE
         \/ reader'.pc = "send" /\ reader'.event = source.n + 1 /\ chan'.open = chan.open
  BY SMTT(30), Fields DEF EmitSSE, Emits, Leaves, Sends, StreamInv, HandInv, Kinds
<1>2. Line' = Line
  BY <1>1, SameLine
<1>3. StreamTyped'
  <2>1. source' \in [n : 0..MaxEvents, over : {"no", "clean", "broken"}]
    BY <1>1, Fields DEF StreamInv
  <2>2. reader'.event \in {Completed, Failed} \cup 0..(MaxEvents + 1)
    BY <1>1, Fields, OwnEvents DEF StreamInv
  <2>3. reader' \in [pc : ReaderPCs, event : {Completed, Failed} \cup 0..(MaxEvents + 1)]
    BY <1>1, <2>2, Fields DEF StreamInv, ReaderPCs
  <2>4. chan' \in [buffer : Seq(Int), open : BOOLEAN] /\ Len(chan'.buffer) <= Capacity
    BY <1>1, Fields DEF StreamTyped, StreamInv
  <2>5. cancelled' \in BOOLEAN /\ caller' \in CallerPCs /\ got' \in Seq(Int)
    BY <1>1 DEF StreamTyped, StreamInv, CallerPCs
  <2> QED BY <2>1, <2>3, <2>4, <2>5 DEF StreamTyped
<1>4. LineInv'
  BY <1>1, <1>2, Fields, LineTyped DEF LineInv, StreamInv
<1>5. HandInv'
  BY <1>1, <1>2, Fields, LineTyped, LineBelow DEF HandInv, StreamInv, ScanInv, SDKInv
<1>6. ScanInv'
  BY <1>1, <1>2, Fields, LineTyped DEF ScanInv, StreamInv, HandInv, LineInv
<1>7. SDKInv'
  BY <1>1, <1>2, Fields, LineTyped DEF SDKInv, StreamInv, HandInv, LineInv, ScanInv
<1>8. EdgeInv'
  BY <1>1, Fields DEF EdgeInv, StreamInv, ScanInv, NoChan
<1> QED BY <1>3, <1>4, <1>5, <1>6, <1>7, <1>8 DEF StreamInv

\* A line of a process.
LEMMA EmitLineStep ==
  ASSUME StreamInv, kind' = kind, cancelled' = cancelled, EmitLine
  PROVE  StreamInv'
<1>1. /\ kind # "copilot" /\ kind \in Kinds /\ reader.pc = "read" /\ source.n < MaxEvents
      /\ source.over = "no" /\ source'.n = source.n + 1 /\ source'.over = "no"
      /\ source' = [n |-> source'.n, over |-> source'.over]
      /\ caller' = caller /\ got' = got /\ chan' = chan
      /\ reader' = [pc |-> reader'.pc, event |-> reader'.event]
      /\ reader'.pc = "send" /\ reader'.event = source.n + 1
  BY Fields DEF EmitLine, Emits, Sends, StreamInv, HandInv, Kinds
<1>2. Line' = Line
  BY <1>1, SameLine
<1>3. StreamTyped'
  <2>1. source' \in [n : 0..MaxEvents, over : {"no", "clean", "broken"}]
    BY <1>1, Fields DEF StreamInv
  <2>2. reader'.event \in {Completed, Failed} \cup 0..(MaxEvents + 1)
    BY <1>1, Fields, OwnEvents DEF StreamInv
  <2>3. reader' \in [pc : ReaderPCs, event : {Completed, Failed} \cup 0..(MaxEvents + 1)]
    BY <1>1, <2>2, Fields DEF StreamInv, ReaderPCs
  <2>4. chan' \in [buffer : Seq(Int), open : BOOLEAN] /\ Len(chan'.buffer) <= Capacity
    BY <1>1, Fields DEF StreamTyped, StreamInv
  <2>5. cancelled' \in BOOLEAN /\ caller' \in CallerPCs /\ got' \in Seq(Int)
    BY <1>1 DEF StreamTyped, StreamInv, CallerPCs
  <2> QED BY <2>1, <2>3, <2>4, <2>5 DEF StreamTyped
<1>4. LineInv'
  BY <1>1, <1>2, Fields, LineTyped DEF LineInv, StreamInv
<1>5. HandInv'
  BY <1>1, <1>2, Fields, LineTyped, LineBelow DEF HandInv, StreamInv, ScanInv, SDKInv
<1>6. ScanInv'
  BY <1>1, <1>2, Fields, LineTyped DEF ScanInv, StreamInv, HandInv, LineInv
<1>7. SDKInv'
  BY <1>1, <1>2, Fields, LineTyped DEF SDKInv, StreamInv, HandInv, LineInv, ScanInv
<1>8. EdgeInv'
  BY <1>1, Fields DEF EdgeInv, StreamInv, ScanInv, NoChan
<1> QED BY <1>3, <1>4, <1>5, <1>6, <1>7, <1>8 DEF StreamInv

\* A callback of the SDK.
LEMMA EmitSDKStep ==
  ASSUME StreamInv, kind' = kind, cancelled' = cancelled, EmitSDK
  PROVE  StreamInv'
<1>1. /\ kind = "copilot" /\ kind \in Kinds /\ reader.pc = "read" /\ source.n < MaxEvents
      /\ source.over = "no" /\ source'.n = source.n + 1 /\ source'.over \in {"no", "clean"}
      /\ source' = [n |-> source'.n, over |-> source'.over] /\ caller # "closed"
      /\ caller' = caller /\ got' = got /\ chan' = chan
      /\ reader' = [pc |-> reader'.pc, event |-> reader'.event]
      /\ reader'.pc = "send" /\ reader'.event = source.n + 1
  BY Fields DEF EmitSDK, Emits, Sends, StreamInv, HandInv, Kinds
<1>2. Line' = Line
  BY <1>1, SameLine
<1>3. StreamTyped'
  <2>1. source' \in [n : 0..MaxEvents, over : {"no", "clean", "broken"}]
    BY <1>1, Fields DEF StreamInv
  <2>2. reader'.event \in {Completed, Failed} \cup 0..(MaxEvents + 1)
    BY <1>1, Fields, OwnEvents DEF StreamInv
  <2>3. reader' \in [pc : ReaderPCs, event : {Completed, Failed} \cup 0..(MaxEvents + 1)]
    BY <1>1, <2>2, Fields DEF StreamInv, ReaderPCs
  <2>4. chan' \in [buffer : Seq(Int), open : BOOLEAN] /\ Len(chan'.buffer) <= Capacity
    BY <1>1, Fields DEF StreamTyped, StreamInv
  <2>5. cancelled' \in BOOLEAN /\ caller' \in CallerPCs /\ got' \in Seq(Int)
    BY <1>1 DEF StreamTyped, StreamInv, CallerPCs
  <2> QED BY <2>1, <2>3, <2>4, <2>5 DEF StreamTyped
<1>4. LineInv'
  BY <1>1, <1>2, Fields, LineTyped DEF LineInv, StreamInv
<1>5. HandInv'
  BY <1>1, <1>2, Fields, LineTyped, LineBelow DEF HandInv, StreamInv, ScanInv, SDKInv
<1>6. ScanInv'
  BY <1>1, <1>2, Fields, LineTyped DEF ScanInv, StreamInv, HandInv, LineInv
<1>7. SDKInv'
  BY <1>1, <1>2, Fields, LineTyped DEF SDKInv, StreamInv, HandInv, LineInv, ScanInv
<1>8. EdgeInv'
  BY <1>1, Fields DEF EdgeInv, StreamInv, ScanInv, NoChan
<1> QED BY <1>3, <1>4, <1>5, <1>6, <1>7, <1>8 DEF StreamInv

\* A callback after the last event, when the channel is closed.
LEMMA EmitLateStep ==
  ASSUME StreamInv, kind' = kind, cancelled' = cancelled, EmitLate
  PROVE  StreamInv'
<1>1. /\ kind = "copilot" /\ kind \in Kinds /\ reader.pc = "read" /\ source.over = "clean"
      /\ source' = source /\ caller' = caller /\ got' = got /\ chan' = chan
      /\ caller # "closed" /\ reader' = [pc |-> reader'.pc, event |-> reader'.event]
      /\ reader'.pc = "send" /\ reader'.event = source.n + 1
  BY Fields DEF EmitLate, Sends, StreamInv, HandInv, Kinds
<1>2. Line' = Line
  BY <1>1, SameLine
<1>3. StreamTyped'
  <2>1. source' \in [n : 0..MaxEvents, over : {"no", "clean", "broken"}]
    BY <1>1, Fields DEF StreamInv
  <2>2. reader'.event \in {Completed, Failed} \cup 0..(MaxEvents + 1)
    BY <1>1, Fields, OwnEvents DEF StreamInv
  <2>3. reader' \in [pc : ReaderPCs, event : {Completed, Failed} \cup 0..(MaxEvents + 1)]
    BY <1>1, <2>2, Fields DEF StreamInv, ReaderPCs
  <2>4. chan' \in [buffer : Seq(Int), open : BOOLEAN] /\ Len(chan'.buffer) <= Capacity
    BY <1>1, Fields DEF StreamTyped, StreamInv
  <2>5. cancelled' \in BOOLEAN /\ caller' \in CallerPCs /\ got' \in Seq(Int)
    BY <1>1 DEF StreamTyped, StreamInv, CallerPCs
  <2> QED BY <2>1, <2>3, <2>4, <2>5 DEF StreamTyped
<1>4. LineInv'
  BY <1>1, <1>2, Fields, LineTyped DEF LineInv, StreamInv
<1>5. HandInv'
  BY <1>1, <1>2, Fields, LineTyped, LineBelow DEF HandInv, StreamInv, ScanInv, SDKInv
<1>6. ScanInv'
  BY <1>1, <1>2, Fields, LineTyped DEF ScanInv, StreamInv, HandInv, LineInv
<1>7. SDKInv'
  BY <1>1, <1>2, Fields, LineTyped DEF SDKInv, StreamInv, HandInv, LineInv, ScanInv
<1>8. EdgeInv'
  BY <1>1, Fields DEF EdgeInv, StreamInv, ScanInv, NoChan
<1> QED BY <1>3, <1>4, <1>5, <1>6, <1>7, <1>8 DEF StreamInv

\* The body ends and nothing is added.
LEMMA OpenAIEndStep ==
  ASSUME StreamInv, kind' = kind, cancelled' = cancelled, OpenAIEnds
  PROVE  StreamInv'
<1>1. /\ kind # "copilot" /\ kind \in Kinds /\ reader.pc = "read" /\ source.over = "no"
      /\ source'.n = source.n /\ source'.over = "clean"
      /\ source' = [n |-> source'.n, over |-> source'.over]
      /\ caller' = caller /\ got' = got /\ chan'.buffer = chan.buffer /\ chan'.open = FALSE
      /\ chan' = [buffer |-> chan'.buffer, open |-> chan'.open]
      /\ reader' = [pc |-> "gone", event |-> 0] /\ reader'.pc = "gone" /\ reader'.event = 0
  BY Fields DEF OpenAIEnds, SourceEnds, Leaves, StreamInv, HandInv, Kinds
<1>2. Line' = Line
  BY <1>1, SameLine
<1>3. StreamTyped'
  <2>1. source' \in [n : 0..MaxEvents, over : {"no", "clean", "broken"}]
    BY <1>1, Fields DEF StreamInv
  <2>2. reader'.event \in {Completed, Failed} \cup 0..(MaxEvents + 1)
    BY <1>1, Fields, OwnEvents DEF StreamInv
  <2>3. reader' \in [pc : ReaderPCs, event : {Completed, Failed} \cup 0..(MaxEvents + 1)]
    BY <1>1, <2>2, Fields DEF StreamInv, ReaderPCs
  <2>4. chan' \in [buffer : Seq(Int), open : BOOLEAN] /\ Len(chan'.buffer) <= Capacity
    BY <1>1, Fields DEF StreamTyped, StreamInv
  <2>5. cancelled' \in BOOLEAN /\ caller' \in CallerPCs /\ got' \in Seq(Int)
    BY <1>1 DEF StreamTyped, StreamInv, CallerPCs
  <2> QED BY <2>1, <2>3, <2>4, <2>5 DEF StreamTyped
<1>4. LineInv'
  BY <1>1, <1>2, Fields, LineTyped DEF LineInv, StreamInv
<1>5. HandInv'
  BY <1>1, <1>2, Fields, LineTyped, LineBelow DEF HandInv, StreamInv, ScanInv, SDKInv
<1>6. ScanInv'
  BY <1>1, <1>2, Fields, LineTyped DEF ScanInv, StreamInv, HandInv, LineInv
<1>7. SDKInv'
  BY <1>1, <1>2, Fields, LineTyped DEF SDKInv, StreamInv, HandInv, LineInv, ScanInv
<1>8. EdgeInv'
  BY <1>1, Fields DEF EdgeInv, StreamInv, ScanInv, NoChan
<1> QED BY <1>3, <1>4, <1>5, <1>6, <1>7, <1>8 DEF StreamInv

\* The source ends and the reader has a last word.
LEMMA LastWordStep ==
  ASSUME StreamInv, kind' = kind, cancelled' = cancelled, HTTPJSONEnds \/ CodexEnds \/ Breaks
  PROVE  StreamInv'
<1>1. /\ kind # "copilot" /\ kind \in Kinds /\ reader.pc = "read" /\ source.over = "no"
      /\ source'.n = source.n /\ source'.over \in {"clean", "broken"}
      /\ source' = [n |-> source'.n, over |-> source'.over]
      /\ caller' = caller /\ got' = got /\ chan'.buffer = chan.buffer
      /\ chan' = [buffer |-> chan'.buffer, open |-> chan'.open]
      /\ reader' = [pc |-> reader'.pc, event |-> reader'.event]
      /\ \/ /\ cancelled /\ source'.over = "clean" /\ chan'.open = FALSE
            /\ reader'.pc = "gone" /\ reader'.event = 0
         \/ /\ reader'.pc = "last" /\ chan'.open = chan.open
            /\ reader'.event = IF source'.over = "clean" THEN Completed ELSE Failed
  BY SMTT(30), Fields
  DEF HTTPJSONEnds, CodexEnds, Breaks, SourceEnds, Leaves, Sends, Scans, StreamInv,
    HandInv, Kinds
<1>2. Line' = Line
  BY <1>1, SameLine
<1>3. StreamTyped'
  <2>1. source' \in [n : 0..MaxEvents, over : {"no", "clean", "broken"}]
    BY <1>1, Fields DEF StreamInv
  <2>2. reader'.event \in {Completed, Failed} \cup 0..(MaxEvents + 1)
    BY <1>1, Fields, OwnEvents DEF StreamInv
  <2>3. reader' \in [pc : ReaderPCs, event : {Completed, Failed} \cup 0..(MaxEvents + 1)]
    BY <1>1, <2>2, Fields DEF StreamInv, ReaderPCs
  <2>4. chan' \in [buffer : Seq(Int), open : BOOLEAN] /\ Len(chan'.buffer) <= Capacity
    BY <1>1, Fields DEF StreamTyped, StreamInv
  <2>5. cancelled' \in BOOLEAN /\ caller' \in CallerPCs /\ got' \in Seq(Int)
    BY <1>1 DEF StreamTyped, StreamInv, CallerPCs
  <2> QED BY <2>1, <2>3, <2>4, <2>5 DEF StreamTyped
<1>4. LineInv'
  BY <1>1, <1>2, Fields, LineTyped DEF LineInv, StreamInv
<1>5. HandInv'
  BY <1>1, <1>2, Fields, LineTyped, LineBelow DEF HandInv, StreamInv, ScanInv, SDKInv
<1>6. ScanInv'
  BY <1>1, <1>2, Fields, LineTyped DEF ScanInv, StreamInv, HandInv, LineInv
<1>7. SDKInv'
  BY <1>1, <1>2, Fields, LineTyped DEF SDKInv, StreamInv, HandInv, LineInv, ScanInv
<1>8. EdgeInv'
  BY <1>1, Fields DEF EdgeInv, StreamInv, ScanInv, NoChan
<1> QED BY <1>3, <1>4, <1>5, <1>6, <1>7, <1>8 DEF StreamInv

\* The context is done while the reader waits for a place.
LEMMA AbandonStep ==
  ASSUME StreamInv, kind' = kind, cancelled' = cancelled, SendAbandoned
  PROVE  StreamInv'
<1>1. /\ reader.pc = "send" /\ cancelled /\ source' = source /\ caller' = caller /\ got' = got
      /\ chan'.buffer = chan.buffer /\ chan' = [buffer |-> chan'.buffer, open |-> chan'.open]
      /\ reader' = [pc |-> reader'.pc, event |-> reader'.event] /\ reader'.event = 0
      /\ \/ kind # "copilot" /\ reader'.pc = "gone" /\ chan'.open = FALSE
         \/ /\ kind = "copilot" /\ chan'.open = chan.open
            /\ reader'.pc = IF source.over = "clean" THEN "shut" ELSE "read"
  BY Fields DEF SendAbandoned, Leaves, Scans, StreamInv, HandInv, Kinds
<1>2. Line' = Line
  BY <1>1, SameLine
<1>3. StreamTyped'
  <2>1. source' \in [n : 0..MaxEvents, over : {"no", "clean", "broken"}]
    BY <1>1, Fields DEF StreamInv
  <2>2. reader'.event \in {Completed, Failed} \cup 0..(MaxEvents + 1)
    BY <1>1, Fields, OwnEvents DEF StreamInv
  <2>3. reader' \in [pc : ReaderPCs, event : {Completed, Failed} \cup 0..(MaxEvents + 1)]
    BY <1>1, <2>2, Fields DEF StreamInv, ReaderPCs
  <2>4. chan' \in [buffer : Seq(Int), open : BOOLEAN] /\ Len(chan'.buffer) <= Capacity
    BY <1>1, Fields DEF StreamTyped, StreamInv
  <2>5. cancelled' \in BOOLEAN /\ caller' \in CallerPCs /\ got' \in Seq(Int)
    BY <1>1 DEF StreamTyped, StreamInv, CallerPCs
  <2> QED BY <2>1, <2>3, <2>4, <2>5 DEF StreamTyped
<1>4. LineInv'
  BY <1>1, <1>2, Fields, LineTyped DEF LineInv, StreamInv
<1>5. HandInv'
  BY <1>1, <1>2, Fields, LineTyped, LineBelow DEF HandInv, StreamInv, ScanInv, SDKInv
<1>6. ScanInv'
  BY <1>1, <1>2, Fields, LineTyped DEF ScanInv, StreamInv, HandInv, LineInv
<1>7. SDKInv'
  BY <1>1, <1>2, Fields, LineTyped DEF SDKInv, StreamInv, HandInv, LineInv, ScanInv
<1>8. EdgeInv'
  BY <1>1, Fields DEF EdgeInv, StreamInv, ScanInv, NoChan
<1> QED BY <1>3, <1>4, <1>5, <1>6, <1>7, <1>8 DEF StreamInv

\* A send on a closed channel.
LEMMA PanicStep ==
  ASSUME StreamInv, kind' = kind, cancelled' = cancelled, SendPanics
  PROVE  StreamInv'
<1>1. /\ kind = "copilot" /\ reader.pc = "send" /\ ~chan.open
      /\ source' = source /\ caller' = caller /\ got' = got /\ chan' = chan
      /\ reader' = [pc |-> "panicked", event |-> 0]
      /\ reader'.pc = "panicked" /\ reader'.event = 0
  BY Fields DEF SendPanics, StreamInv, HandInv, Kinds
<1>2. Line' = Line
  BY <1>1, SameLine
<1>3. StreamTyped'
  <2>1. source' \in [n : 0..MaxEvents, over : {"no", "clean", "broken"}]
    BY <1>1, Fields DEF StreamInv
  <2>2. reader'.event \in {Completed, Failed} \cup 0..(MaxEvents + 1)
    BY <1>1, Fields, OwnEvents DEF StreamInv
  <2>3. reader' \in [pc : ReaderPCs, event : {Completed, Failed} \cup 0..(MaxEvents + 1)]
    BY <1>1, <2>2, Fields DEF StreamInv, ReaderPCs
  <2>4. chan' \in [buffer : Seq(Int), open : BOOLEAN] /\ Len(chan'.buffer) <= Capacity
    BY <1>1, Fields DEF StreamTyped, StreamInv
  <2>5. cancelled' \in BOOLEAN /\ caller' \in CallerPCs /\ got' \in Seq(Int)
    BY <1>1 DEF StreamTyped, StreamInv, CallerPCs
  <2> QED BY <2>1, <2>3, <2>4, <2>5 DEF StreamTyped
<1>4. LineInv'
  BY <1>1, <1>2, Fields, LineTyped DEF LineInv, StreamInv
<1>5. HandInv'
  BY <1>1, <1>2, Fields, LineTyped, LineBelow DEF HandInv, StreamInv, ScanInv, SDKInv
<1>6. ScanInv'
  BY <1>1, <1>2, Fields, LineTyped DEF ScanInv, StreamInv, HandInv, LineInv
<1>7. SDKInv'
  BY <1>1, <1>2, Fields, LineTyped DEF SDKInv, StreamInv, HandInv, LineInv, ScanInv
<1>8. EdgeInv'
  BY <1>1, Fields DEF EdgeInv, StreamInv, ScanInv, NoChan
<1> QED BY <1>3, <1>4, <1>5, <1>6, <1>7, <1>8 DEF StreamInv

\* The callback closes the channel after its last event.
LEMMA ShutStep ==
  ASSUME StreamInv, kind' = kind, cancelled' = cancelled, Shut
  PROVE  StreamInv'
<1>1. /\ reader.pc = "shut" /\ source' = source /\ caller' = caller /\ got' = got
      /\ chan'.buffer = chan.buffer /\ chan'.open = FALSE
      /\ chan' = [buffer |-> chan'.buffer, open |-> chan'.open]
      /\ reader' = [pc |-> "read", event |-> 0] /\ reader'.pc = "read" /\ reader'.event = 0
  BY Fields DEF Shut, StreamInv, HandInv, Kinds
<1>2. Line' = Line
  BY <1>1, SameLine
<1>3. StreamTyped'
  <2>1. source' \in [n : 0..MaxEvents, over : {"no", "clean", "broken"}]
    BY <1>1, Fields DEF StreamInv
  <2>2. reader'.event \in {Completed, Failed} \cup 0..(MaxEvents + 1)
    BY <1>1, Fields, OwnEvents DEF StreamInv
  <2>3. reader' \in [pc : ReaderPCs, event : {Completed, Failed} \cup 0..(MaxEvents + 1)]
    BY <1>1, <2>2, Fields DEF StreamInv, ReaderPCs
  <2>4. chan' \in [buffer : Seq(Int), open : BOOLEAN] /\ Len(chan'.buffer) <= Capacity
    BY <1>1, Fields DEF StreamTyped, StreamInv
  <2>5. cancelled' \in BOOLEAN /\ caller' \in CallerPCs /\ got' \in Seq(Int)
    BY <1>1 DEF StreamTyped, StreamInv, CallerPCs
  <2> QED BY <2>1, <2>3, <2>4, <2>5 DEF StreamTyped
<1>4. LineInv'
  BY <1>1, <1>2, Fields, LineTyped DEF LineInv, StreamInv
<1>5. HandInv'
  BY <1>1, <1>2, Fields, LineTyped, LineBelow DEF HandInv, StreamInv, ScanInv, SDKInv
<1>6. ScanInv'
  BY <1>1, <1>2, Fields, LineTyped DEF ScanInv, StreamInv, HandInv, LineInv
<1>7. SDKInv'
  BY <1>1, <1>2, Fields, LineTyped DEF SDKInv, StreamInv, HandInv, LineInv, ScanInv
<1>8. EdgeInv'
  BY <1>1, Fields DEF EdgeInv, StreamInv, ScanInv, NoChan
<1> QED BY <1>3, <1>4, <1>5, <1>6, <1>7, <1>8 DEF StreamInv

\* The caller closes the stream.
LEMMA CloseStep ==
  ASSUME StreamInv, kind' = kind, cancelled' = cancelled, Close
  PROVE  StreamInv'
<1>1. /\ caller \in {"receiving", "eof", "stopped"} /\ caller' = "closed"
      /\ source' = source /\ reader' = reader /\ got' = got
      /\ chan'.buffer = chan.buffer /\ chan' = [buffer |-> chan'.buffer, open |-> chan'.open]
      /\ chan'.open = IF kind = "copilot" THEN FALSE ELSE chan.open
  BY Fields DEF Close, StreamInv, HandInv, Kinds
<1>2. Line' = Line
  BY <1>1, SameLine
<1>3. StreamTyped'
  <2>1. source' \in [n : 0..MaxEvents, over : {"no", "clean", "broken"}]
    BY <1>1, Fields DEF StreamInv
  <2>2. reader'.event \in {Completed, Failed} \cup 0..(MaxEvents + 1)
    BY <1>1, Fields, OwnEvents DEF StreamInv
  <2>3. reader' \in [pc : ReaderPCs, event : {Completed, Failed} \cup 0..(MaxEvents + 1)]
    BY <1>1, <2>2, Fields DEF StreamInv, ReaderPCs
  <2>4. chan' \in [buffer : Seq(Int), open : BOOLEAN] /\ Len(chan'.buffer) <= Capacity
    BY <1>1, Fields DEF StreamTyped, StreamInv
  <2>5. cancelled' \in BOOLEAN /\ caller' \in CallerPCs /\ got' \in Seq(Int)
    BY <1>1 DEF StreamTyped, StreamInv, CallerPCs
  <2> QED BY <2>1, <2>3, <2>4, <2>5 DEF StreamTyped
<1>4. LineInv'
  BY <1>1, <1>2, Fields, LineTyped DEF LineInv, StreamInv
<1>5. HandInv'
  BY <1>1, <1>2, Fields, LineTyped, LineBelow DEF HandInv, StreamInv, ScanInv, SDKInv
<1>6. ScanInv'
  BY <1>1, <1>2, Fields, LineTyped DEF ScanInv, StreamInv, HandInv, LineInv
<1>7. SDKInv'
  BY <1>1, <1>2, Fields, LineTyped DEF SDKInv, StreamInv, HandInv, LineInv, ScanInv
<1>8. EdgeInv'
  <2>1. ASSUME reader.pc = "off" PROVE chan' = NoChan
    <3>1. chan = NoChan /\ chan.buffer = <<>> /\ chan.open = FALSE
      BY <2>1 DEF EdgeInv, StreamInv, NoChan
    <3>2. chan'.buffer = <<>> /\ chan'.open = FALSE
      BY <1>1, <3>1
    <3> QED BY <1>1, <3>2 DEF NoChan
  <2> QED BY <1>1, <2>1 DEF EdgeInv, StreamInv
<1> QED BY <1>3, <1>4, <1>5, <1>6, <1>7, <1>8 DEF StreamInv

\* The reader's event finds a place in the channel.
LEMMA SendStep ==
  ASSUME StreamInv, kind' = kind, cancelled' = cancelled, Send
  PROVE  StreamInv'
<1> DEFINE k == Len(Line)
<1>1. /\ reader.pc = "send" /\ chan.open = TRUE /\ kind \in Kinds
      /\ reader.event = source.n /\ source.n > 0 /\ \A i \in 1..k : Line[i] < source.n
  BY Fields DEF Send, StreamInv, HandInv
<1>2. /\ source' = source /\ caller' = caller /\ got' = got
      /\ reader' = [pc |-> reader'.pc, event |-> reader'.event] /\ reader'.event = 0
      /\ reader'.pc = IF kind = "copilot" /\ source.over = "clean" THEN "shut" ELSE "read"
  BY DEF Send
<1>3. /\ Len(chan.buffer) < Capacity
      /\ chan' = [buffer |-> Append(chan.buffer, source.n), open |-> TRUE]
  BY <1>1, Fields DEF Send, Buffered, StreamInv
<1>4. /\ chan' \in [buffer : Seq(Int), open : BOOLEAN] /\ Len(chan'.buffer) <= Capacity
      /\ chan'.open = TRUE /\ LineAppends(source.n)
  <2>1. source.n \in Int /\ TRUE \in BOOLEAN /\ StreamTyped
    BY Fields DEF StreamInv
  <2> QED BY <1>2, <1>3, <2>1, Buffers
<1>5. /\ Len(Line') = k + 1 /\ Line'[k + 1] = source.n /\ k \in Nat
      /\ \A i \in 1..k : Line'[i] = Line[i]
  BY <1>4, LineTyped DEF LineAppends, StreamInv
<1>6. /\ \A i \in 1..(k + 1) : i \in 1..k \/ i = k + 1
      /\ \A i \in 1..k : Line[i] > 0 \/ Line[i] < 0
      /\ \A i \in 1..k : ~(Line[i] < 0)
  <2>1. \A i \in 1..k : Line[i] \in {Completed, Failed} \cup 1..source.n
    BY DEF StreamInv, LineInv
  <2>2. \A i \in 1..k : ~(Line[i] < 0)
    BY <1>1 DEF StreamInv, LineInv
  <2>3. \A i \in 1..k : Line[i] > 0 \/ Line[i] < 0
    <3>1. source.n \in Nat
      BY Fields DEF StreamInv
    <3> QED BY <2>1, <3>1, OwnEvents
  <2> QED BY <1>5, <2>2, <2>3
<1>7. ~cancelled \/ kind # "copilot" => source.n = k + 1
  BY <1>1 DEF StreamInv, ScanInv, SDKInv
<1>8. StreamTyped'
  BY <1>1, <1>2, <1>4, Fields, OwnEvents DEF StreamTyped, StreamInv, ReaderPCs, CallerPCs
<1>9. LineInv'
  <2>1. \A i \in 1..(k + 1) : Line'[i] \in {Completed, Failed} \cup 1..source.n
    BY <1>1, <1>5, <1>6, Fields DEF StreamInv, LineInv
  <2>2. ASSUME NEW i \in 1..(k + 1), NEW j \in 1..(k + 1), j < i PROVE Line'[j] < Line'[i]
    <3>1. j \in 1..k
      BY <1>5, <2>2
    <3>2. CASE i = k + 1
      BY <1>1, <1>5, <3>1, <3>2
    <3>3. CASE i \in 1..k
      <4>1. Line[j] < Line[i]
        BY <1>6, <2>2, <3>1, <3>3 DEF StreamInv, LineInv
      <4> QED BY <1>5, <3>1, <3>3, <4>1
    <3> QED BY <1>6, <3>2, <3>3
  <2>3. ASSUME kind # "copilot" \/ ~cancelled, NEW i \in 1..(k + 1) PROVE Line'[i] = i
    <3>1. CASE i = k + 1
      BY <1>5, <1>7, <2>3, <3>1
    <3>2. CASE i \in 1..k
      BY <1>5, <1>6, <2>3, <3>2 DEF StreamInv, LineInv
    <3> QED BY <1>6, <3>1, <3>2
  <2>4. ASSUME NEW i \in 1..(k + 1) PROVE ~(Line'[i] < 0)
    BY <1>1, <1>5, <1>6, Fields DEF StreamInv
  <2> HIDE DEF k
  <2> QED BY <1>2, <1>5, <2>1, <2>2, <2>3, <2>4 DEF LineInv
<1>10. HandInv'
  BY <1>2 DEF HandInv
<1>11. ScanInv'
  BY <1>1, <1>2, <1>4, <1>5, <1>7 DEF ScanInv, StreamInv
<1>12. SDKInv'
  BY <1>1, <1>2, <1>4, <1>5, <1>7, Fields DEF SDKInv, StreamInv
<1>13. EdgeInv'
  BY <1>1, <1>2 DEF EdgeInv, StreamInv
<1> QED BY <1>8, <1>9, <1>10, <1>11, <1>12, <1>13 DEF StreamInv

\* The reader's last word finds a place in the channel.
LEMMA SendLastStep ==
  ASSUME StreamInv, kind' = kind, cancelled' = cancelled, SendLast
  PROVE  StreamInv'
<1> DEFINE k == Len(Line)
           e == IF source.over = "clean" THEN Completed ELSE Failed
<1>1. /\ reader.pc = "last" /\ kind # "copilot" /\ source.n = k /\ source.over # "no"
      /\ reader.event = e
  BY DEF SendLast, StreamInv, HandInv
<1>2. /\ source' = source /\ caller' = caller /\ got' = got
      /\ reader' = [pc |-> "gone", event |-> 0] /\ reader'.event = 0 /\ reader'.pc = "gone"
  BY DEF SendLast
<1>3. e \in Int /\ e < 0 /\ e \in {Completed, Failed} /\ (e = Completed <=> source.over = "clean")
  BY OwnEvents
<1>4. /\ Len(chan.buffer) < Capacity
      /\ chan' = [buffer |-> Append(chan.buffer, e), open |-> FALSE]
  BY <1>1 DEF SendLast
<1>5. /\ chan' \in [buffer : Seq(Int), open : BOOLEAN] /\ Len(chan'.buffer) <= Capacity
      /\ chan'.open = FALSE /\ LineAppends(e)
  <2> HIDE DEF e
  <2> QED BY <1>2, <1>3, <1>4, Buffers DEF StreamInv
<1> HIDE DEF e
<1>6. /\ Len(Line') = k + 1 /\ Line'[k + 1] = e /\ k \in Nat
      /\ \A i \in 1..k : Line'[i] = Line[i]
      /\ \A i \in 1..(k + 1) : i \in 1..k \/ i = k + 1
  BY <1>5, LineTyped DEF LineAppends, StreamInv
<1>7. \A i \in 1..k : ~(Line[i] < 0)
  BY <1>1 DEF StreamInv, LineInv
<1>8. StreamTyped'
  BY <1>1, <1>2, <1>5, Fields, OwnEvents DEF StreamTyped, StreamInv, ReaderPCs, CallerPCs
<1>9. LineInv'
  <2>1. \A i \in 1..(k + 1) : Line'[i] \in {Completed, Failed} \cup 1..source.n
    BY <1>3, <1>6 DEF StreamInv, LineInv
  <2>2. ASSUME NEW i \in 1..(k + 1), Line'[i] > 0 PROVE i \in 1..k /\ Line[i] > 0
    BY <1>3, <1>6, <2>2
  <2>3. ASSUME NEW i \in 1..(k + 1), NEW j \in 1..(k + 1), j < i, Line'[i] > 0
        PROVE  Line'[j] < Line'[i]
    <3>1. j \in 1..k
      BY <1>6, <2>3
    <3>2. i \in 1..k /\ Line[i] > 0
      BY <2>2, <2>3
    <3>3. Line[j] < Line[i]
      BY <2>3, <3>1, <3>2 DEF StreamInv, LineInv
    <3> QED BY <1>6, <3>1, <3>2, <3>3
  <2>4. ASSUME NEW i \in 1..(k + 1), Line'[i] > 0 PROVE Line'[i] = i
    BY <1>1, <1>6, <2>2, <2>4 DEF StreamInv, LineInv
  <2>5. ASSUME NEW i \in 1..(k + 1), Line'[i] < 0 PROVE i = k + 1 /\ Line'[i] = e
    BY <1>6, <1>7, <2>5
  <2>6. source.over = IF e = Completed THEN "clean" ELSE "broken"
    BY <1>1, <1>3, Fields DEF StreamInv
  <2> HIDE DEF k
  <2> QED BY <1>1, <1>2, <1>6, <2>1, <2>3, <2>4, <2>5, <2>6 DEF LineInv
<1>10. HandInv'
  BY <1>2 DEF HandInv
<1>11. ScanInv'
  BY <1>1, <1>2, <1>3, <1>5, <1>6 DEF ScanInv
<1>12. SDKInv'
  BY <1>1 DEF SDKInv
<1>13. EdgeInv'
  BY <1>1, <1>2, <1>5, Fields DEF EdgeInv, StreamInv, ScanInv
<1> QED BY <1>8, <1>9, <1>10, <1>11, <1>12, <1>13 DEF StreamInv

\* The caller receives an event, the end, or gives up.
LEMMA RecvStep ==
  ASSUME StreamInv, kind' = kind, cancelled' = cancelled, Recv
  PROVE  StreamInv'
<1>1. /\ caller = "receiving" /\ source' = source /\ reader' = reader /\ reader.pc # "off"
      /\ caller' \in {"receiving", "eof", "stopped"}
  BY DEF Recv, StreamInv, EdgeInv
<1>2. /\ got' \in Seq(Int) /\ chan' \in [buffer : Seq(Int), open : BOOLEAN]
      /\ Len(chan'.buffer) <= Capacity /\ chan'.open = chan.open /\ Line' = Line
  <2>1. CASE /\ chan.buffer # <<>> /\ got' = Append(got, Head(chan.buffer))
             /\ chan' = [chan EXCEPT !.buffer = Tail(@)]
    <3>1. /\ chan'.buffer = Tail(chan.buffer) /\ chan'.open = chan.open
          /\ chan' = [buffer |-> chan'.buffer, open |-> chan'.open]
      BY <2>1, Fields DEF StreamInv
    <3>2. /\ Append(got, Head(chan.buffer)) \in Seq(Int) /\ Tail(chan.buffer) \in Seq(Int)
          /\ Len(Tail(chan.buffer)) = Len(chan.buffer) - 1
          /\ Append(got, Head(chan.buffer)) \o Tail(chan.buffer) = got \o chan.buffer
      BY <2>1, LineReceived DEF StreamInv, StreamTyped
    <3>3. Len(chan.buffer) \in Nat /\ Len(chan.buffer) <= Capacity /\ Capacity \in Nat
      BY EventStreamAssumption DEF StreamInv, StreamTyped
    <3>4. Line' = Line
      BY <2>1, <3>1, <3>2 DEF Line
    <3>5. Len(chan'.buffer) <= Capacity
      BY <3>1, <3>2, <3>3
    <3> QED BY <2>1, <3>1, <3>2, <3>4, <3>5, Fields DEF StreamInv
  <2>2. CASE chan' = chan /\ got' = got
    BY <2>2 DEF StreamInv, StreamTyped, Line
  <2> QED BY <2>1, <2>2 DEF Recv
<1>3. caller' = "eof" => chan'.buffer = <<>> /\ chan'.open = FALSE
  BY <1>1, Fields DEF Recv, StreamInv
<1>4. StreamTyped'
  BY <1>1, <1>2 DEF StreamTyped, StreamInv, CallerPCs
<1>5. LineInv'
  BY <1>1, <1>2 DEF LineInv, StreamInv
<1>6. HandInv'
  BY <1>1, <1>2 DEF HandInv, StreamInv
<1>7. ScanInv'
  BY <1>1, <1>2 DEF ScanInv, StreamInv
<1>8. SDKInv'
  BY <1>1, <1>2 DEF SDKInv, StreamInv
<1>9. EdgeInv'
  BY <1>1, <1>3 DEF EdgeInv
<1> QED BY <1>4, <1>5, <1>6, <1>7, <1>8, <1>9 DEF StreamInv

\* A step of the stream.
LEMMA StreamStep ==
  ASSUME StreamInv, StreamNext
  PROVE  StreamInv'
<1>1. kind' = kind /\ cancelled' = cancelled
  BY DEF StreamNext
<1>2. CASE ReaderNext
  BY <1>1, <1>2, EmitSSEStep, EmitLineStep, EmitSDKStep, EmitLateStep, OpenAIEndStep,
     LastWordStep, SendStep, AbandonStep, PanicStep, ShutStep, SendLastStep DEF ReaderNext
<1> QED BY <1>1, <1>2, RecvStep, CloseStep DEF StreamNext

-----------------------------------------------------------------------------
(* The steps of the call                                                    *)

\* Between streams the kind of the provider does not matter.
LEMMA OffKeepsStream ==
  ASSUME StreamInv, reader.pc = "off", UNCHANGED streamVars, cancelled' \in BOOLEAN
  PROVE  StreamInv'
<1>1. /\ source' = source /\ reader' = reader /\ chan' = chan /\ caller' = caller /\ got' = got
      /\ got = <<>> /\ chan.buffer = <<>> /\ Line' = Line
  BY DEF streamVars, Line, StreamInv, EdgeInv, NoChan
<1>2. Len(Line) = 0
  BY <1>1 DEF Line
<1>3. StreamTyped'
  BY <1>1 DEF StreamTyped, StreamInv
<1>4. LineInv'
  BY <1>1, <1>2 DEF LineInv
<1>5. HandInv' /\ ScanInv' /\ SDKInv'
  BY <1>1 DEF HandInv, ScanInv, SDKInv
<1>6. EdgeInv'
  BY <1>1 DEF EdgeInv, StreamInv
<1> QED BY <1>3, <1>4, <1>5, <1>6 DEF StreamInv

\* Steps of the other parts, and the end of the context.
LEMMA OthersKeepStream ==
  ASSUME StreamInv, kind' = kind, UNCHANGED streamVars, cancelled' = cancelled \/ cancelled'
  PROVE  StreamInv'
<1>1. /\ source' = source /\ reader' = reader /\ chan' = chan /\ caller' = caller /\ got' = got
      /\ Line' = Line /\ cancelled' \in BOOLEAN /\ (~cancelled' => ~cancelled)
  BY DEF streamVars, Line, StreamInv, StreamTyped
<1>2. StreamTyped'
  BY <1>1 DEF StreamTyped, StreamInv
<1>3. LineInv'
  BY <1>1 DEF LineInv, StreamInv
<1>4. HandInv'
  BY <1>1 DEF HandInv, StreamInv
<1>5. ScanInv'
  BY <1>1 DEF ScanInv, StreamInv
<1>6. SDKInv'
  BY <1>1 DEF SDKInv, StreamInv
<1>7. EdgeInv'
  BY <1>1 DEF EdgeInv, StreamInv
<1> QED BY <1>2, <1>3, <1>4, <1>5, <1>6, <1>7 DEF StreamInv

\* A stream is opened with nothing in the line.
LEMMA OpenStep ==
  ASSUME StreamInv, StreamOpens, cancelled' = cancelled
  PROVE  StreamInv'
<1>1. /\ source'.n = 0 /\ source'.over = "no" /\ source' = [n |-> 0, over |-> "no"]
      /\ reader'.pc = "read" /\ reader'.event = 0 /\ reader' = [pc |-> "read", event |-> 0]
      /\ chan'.buffer = <<>> /\ chan'.open = TRUE /\ chan' = [buffer |-> <<>>, open |-> TRUE]
      /\ caller' = "receiving" /\ got' = <<>>
  BY DEF StreamOpens, NoSource
<1>2. Len(Line') = 0
  BY <1>1 DEF Line
<1>3. StreamTyped'
  <2>1. Len(<<>>) = 0 /\ <<>> \in Seq(Int) /\ Capacity \in Nat /\ MaxEvents \in Nat
    BY EventStreamAssumption
  <2> QED BY <1>1, <2>1 DEF StreamTyped, StreamInv, ReaderPCs, CallerPCs
<1>4. LineInv'
  BY <1>2 DEF LineInv
<1>5. HandInv' /\ ScanInv' /\ SDKInv' /\ EdgeInv'
  BY <1>1, <1>2 DEF HandInv, ScanInv, SDKInv, EdgeInv
<1> QED BY <1>3, <1>4, <1>5 DEF StreamInv

\* A step of a handler leaves the call to the provider alone.
LEMMA HandlersLeaveCall ==
  ASSUME NEW i, CallStep(i)
  PROVE  http' = http
BY DEF CallStep, Enter, GiveUp, Return, StdioFrame, StdioFails, Posted, PostedEvents, PostFails

\* The tool loop runs in a call that is no stream, and stays with its kind.
LEMMA LoopStep ==
  ASSUME ModeInv, Loop
  PROVE  mode = "loop" /\ mode' = "loop" /\ kind' = kind /\ cancelled' = cancelled
<1>1. LoopNext /\ mode' = mode
  BY DEF Loop
<1>2. loop.pc # "off"
  BY <1>1 DEF LoopNext, CallFailed, FinalReply, ToolReply, Collect
<1>3. kind' = kind /\ cancelled' = cancelled
  BY <1>1 DEF LoopNext, CallFailed, FinalReply, ToolReply, Collect
<1> QED BY <1>1, <1>2, <1>3 DEF ModeInv

\* A request is on its way when the provider answers.
LEMMA CallStepUnderWay ==
  ASSUME Call
  PROVE  /\ http.pc # "idle" /\ kind' = kind /\ cancelled' = cancelled
         /\ UNCHANGED <<assemblyVars, loopVars, streamVars, mode>>
BY DEF Call, CallNext, Unsent, HTTPAnswer, WaitOver, WaitAbandoned,
       CodexAnswer, CopilotFails, CopilotAnswer, Answered

\* While a call streams, no run is being prepared.
LEMMA PassStep ==
  ASSUME ModeInv, Pass \/ Edit \/ StartRun \/ Preview
  PROVE  mode # "stream"
<1>1. CASE Pass
  <2>1. CASE PassNext
    BY <2>1 DEF PassNext, LoadNext, PassFails, Validated, TurnComes, WaitEnds, InPass, ModeInv
  <2> QED BY <1>1, <2>1 DEF Pass
<1>2. CASE Edit
  BY <1>2 DEF Edit, InPass, ModeInv
<1>3. CASE StartRun \/ Preview
  BY <1>3 DEF StartRun, Assembled, Preview, Previewed, ModeInv
<1> QED BY <1>1, <1>2, <1>3

\* A step of the stream is one of a stream that was opened.
LEMMA StreamUnderWay ==
  ASSUME IInv, Stream
  PROVE  /\ mode = "stream" /\ http.pc = "idle" /\ StreamNext
         /\ UNCHANGED <<assemblyVars, loopVars, http, mode, kind, cancelled>>
<1>1. StreamNext /\ UNCHANGED <<assemblyVars, loopVars, http, mode, kind, cancelled>>
  BY DEF Stream, callVars
<1>2. caller # "off"
  <2>1. CASE ReaderNext
    <3>1. reader.pc # "off"
      BY <2>1 DEF ReaderNext, EmitSSE, EmitLine, EmitSDK, EmitLate, Emits, OpenAIEnds,
        HTTPJSONEnds, CodexEnds, Breaks, SourceEnds, Send, SendAbandoned, SendPanics,
        Shut, SendLast
    <3> QED BY <3>1 DEF IInv, StreamInv, EdgeInv
  <2> QED BY <1>1, <2>1 DEF StreamNext, Recv, Close
<1> QED BY <1>1, <1>2 DEF IInv, ModeInv

\* Every step keeps a stream with its call.
LEMMA ModeStep ==
  ASSUME IInv, [Next]_vars
  PROVE  ModeInv'
<1> USE DEF IInv
<1>1. CASE Registry \/ Stop \/ Cancel
  BY <1>1 DEF Registry, Stop, Cancel, assemblyVars, callVars, loopVars, streamVars, ModeInv
<1>2. CASE Pass \/ Edit \/ Preview
  <2>1. mode # "stream"
    BY <1>2, PassStep
  <2>2. UNCHANGED <<mode, http, loop, reader, caller>>
    BY <1>2 DEF Pass, Edit, Preview, callVars, loopVars, streamVars
  <2> QED BY <2>1, <2>2 DEF ModeInv
<1>3. CASE StartRun
  <2>1. mode # "stream"
    BY <1>3, PassStep
  <2> QED BY <1>3, <2>1 DEF StartRun, streamVars, ModeInv
<1>4. ASSUME NEW name, Resolve(name) PROVE ModeInv'
  <2>1. /\ mode = "none" /\ job.pc = "none" /\ job' = job
        /\ reader' = reader /\ caller' = caller
    BY <1>4 DEF Resolve, assemblyVars, streamVars
  <2>2. mode' \in {"loop", "refused", "stream"} /\ (mode' # "loop" => loop' = loop)
    BY <1>4 DEF Resolve
  <2> QED BY <2>1, <2>2 DEF ModeInv
<1>5. CASE StreamAnswered
  BY <1>5 DEF StreamAnswered, Idle, assemblyVars, loopVars, ModeInv
<1>6. CASE Call
  BY <1>6, CallStepUnderWay DEF assemblyVars, loopVars, streamVars, ModeInv
<1>7. CASE Loop
  <2>1. mode = "loop" /\ mode' = "loop" /\ reader' = reader /\ caller' = caller
    BY <1>7, LoopStep DEF Loop, streamVars
  <2> QED BY <2>1 DEF ModeInv
<1>8. CASE Stream
  BY <1>8, StreamUnderWay DEF assemblyVars, loopVars, ModeInv
<1>9. CASE UNCHANGED vars
  BY <1>9 DEF vars, assemblyVars, callVars, loopVars, streamVars, ModeInv
<1> QED BY <1>1, <1>2, <1>3, <1>4, <1>5, <1>6, <1>7, <1>8, <1>9 DEF Next

\* Every step keeps what is known of the stream.
LEMMA NextKeepsStream ==
  ASSUME IInv, [Next]_vars
  PROVE  StreamInv'
<1> USE DEF IInv
<1>1. CASE Registry \/ Stop \/ Pass \/ Edit \/ UNCHANGED vars
  <2>1. kind' = kind /\ cancelled' = cancelled /\ UNCHANGED streamVars
    BY <1>1 DEF Registry, Stop, Pass, Edit, vars, callVars
  <2> QED BY <2>1, OthersKeepStream
<1>2. CASE Preview \/ Cancel \/ Call
  <2>1. kind' = kind /\ (cancelled' = cancelled \/ cancelled') /\ UNCHANGED streamVars
    BY <1>2, CallStepUnderWay DEF Preview, Cancel
  <2> QED BY <2>1, OthersKeepStream
<1>3. CASE StartRun
  <2>1. reader.pc = "off"
    BY <1>3, PassStep DEF ModeInv
  <2> QED BY <1>3, <2>1, OffKeepsStream DEF StartRun, StreamInv, StreamTyped
<1>4. ASSUME NEW name, Resolve(name) PROVE StreamInv'
  <2>1. reader.pc = "off" /\ cancelled' = cancelled /\ UNCHANGED streamVars
    BY <1>4 DEF Resolve, ModeInv
  <2> QED BY <2>1, OffKeepsStream DEF StreamInv, StreamTyped
<1>5. CASE StreamAnswered
  <2>1. http.pc = "done" /\ reader.pc = "off" /\ kind' = kind /\ cancelled' = cancelled
    BY <1>5 DEF StreamAnswered, ModeInv
  <2>2. CASE StreamOpens
    BY <2>1, <2>2, OpenStep
  <2>3. CASE caller' = "stopped" /\ UNCHANGED <<source, reader, chan, got>>
    <3>1. StreamTyped'
      BY <2>1, <2>3 DEF StreamTyped, StreamInv, CallerPCs
    <3>2. Line' = Line
      BY <2>3 DEF Line
    <3>3. LineInv'
      BY <2>1, <2>3, <3>2 DEF LineInv, StreamInv
    <3>4. HandInv' /\ ScanInv' /\ SDKInv' /\ EdgeInv'
      BY <2>1, <2>3 DEF HandInv, ScanInv, SDKInv, EdgeInv, StreamInv
    <3> QED BY <3>1, <3>3, <3>4 DEF StreamInv
  <2> QED BY <1>5, <2>2, <2>3 DEF StreamAnswered
<1>6. CASE Loop
  <2>1. kind' = kind /\ cancelled' = cancelled /\ UNCHANGED streamVars
    BY <1>6, LoopStep DEF Loop
  <2> QED BY <2>1, OthersKeepStream
<1>7. CASE Stream
  BY <1>7, StreamUnderWay, StreamStep
<1> QED BY <1>1, <1>2, <1>3, <1>4, <1>5, <1>6, <1>7 DEF Next

-----------------------------------------------------------------------------
(* What the caller has received                                             *)

\* The received events are the first ones of the line.
LEMMA GotBegins ==
  ASSUME StreamTyped
  PROVE  /\ Len(got) \in Nat /\ Len(got) <= Len(Line)
         /\ \A i \in 1..Len(got) : i \in 1..Len(Line) /\ got[i] = Line[i]
<1>1. got \in Seq(Int) /\ chan.buffer \in Seq(Int)
  BY DEF StreamTyped
<1>2. /\ Len(Line) = Len(got) + Len(chan.buffer)
      /\ \A i \in 1..Len(Line) :
           Line[i] = IF i <= Len(got) THEN got[i] ELSE chan.buffer[i - Len(got)]
  BY <1>1, ConcatProperties DEF Line
<1>3. Len(got) \in Nat /\ Len(chan.buffer) \in Nat
  BY <1>1
<1> HIDE DEF Line
<1> QED BY <1>2, <1>3

\* The events of the source among n + 1 that end with one of the reader, or
\* among n that do not.
LEMMA EmittedUpTo ==
  ASSUME StreamTyped, NEW n \in Nat, Len(got) \in {n, n + 1},
         \A i \in 1..n : got[i] = i, Len(got) = n + 1 => got[n + 1] \in {Completed, Failed}
  PROVE  Emitted(got) = 1..n
<1>1. ASSUME NEW x \in 1..n PROVE x \in Emitted(got)
  <2>1. x \in 1..Len(got) /\ got[x] = x /\ x \notin {Completed, Failed}
    BY OwnEvents
  <2> QED BY <2>1 DEF Emitted
<1>2. ASSUME NEW x \in Emitted(got) PROVE x \in 1..n
  <2>1. PICK i \in 1..Len(got) : got[i] = x
    BY DEF Emitted
  <2>2. x \notin {Completed, Failed}
    BY DEF Emitted
  <2>3. i \in 1..n \/ (Len(got) = n + 1 /\ i = n + 1)
    OBVIOUS
  <2> QED BY <2>1, <2>2, <2>3
<1> QED BY <1>1, <1>2

\* What is known of the line says that the stream is faithful.
LEMMA StreamSound ==
  ASSUME StreamInv
  PROVE  StreamIsFaithful
<1> DEFINE k == Len(Line)
<1>1. /\ StreamTyped /\ LineInv /\ ScanInv /\ SDKInv /\ EdgeInv
      /\ k \in Nat /\ Len(got) \in Nat /\ Len(got) <= k
      /\ \A i \in 1..Len(got) : i \in 1..k /\ got[i] = Line[i] /\ got[i] \in Int
  BY GotBegins, LineTyped DEF StreamInv
<1>2. \A i, j \in 1..Len(got) : j < i /\ got[i] > 0 => got[j] < got[i]
  BY <1>1 DEF LineInv
<1>3. (kind # "copilot" \/ ~cancelled) => \A i \in 1..Len(got) : got[i] > 0 => got[i] = i
  BY <1>1 DEF LineInv
<1>4. ASSUME NEW i \in 1..Len(got), got[i] < 0
      PROVE  /\ i = Len(got) /\ Len(got) = k /\ source.n = k - 1 /\ kind # "copilot"
             /\ source.over = IF got[i] = Completed THEN "clean" ELSE "broken"
             /\ got[i] \in {Completed, Failed} /\ Emitted(got) = 1..source.n
  <2>1. /\ i = k /\ source.n = k - 1 /\ kind # "copilot"
        /\ source.over = IF got[i] = Completed THEN "clean" ELSE "broken"
    BY <1>1, <1>4 DEF LineInv
  <2>2. Len(got) = k /\ k - 1 \in Nat /\ Len(got) = (k - 1) + 1
    BY <1>1, <2>1
  <2>3. \A j \in 1..k : got[j] \in {Completed, Failed} \cup 1..source.n
    BY <1>1, <2>2 DEF LineInv
  <2>4. ASSUME NEW j \in 1..(k - 1) PROVE got[j] = j
    <3>1. j \in 1..k /\ j # k /\ got[j] = Line[j]
      BY <1>1, <2>2
    <3>2. ~(Line[j] < 0)
      BY <1>1, <3>1 DEF LineInv
    <3>3. got[j] \in 1..source.n
      BY <2>3, <3>1, <3>2, OwnEvents
    <3>4. got[j] > 0
      BY <2>1, <2>2, <3>3
    <3> QED BY <1>3, <2>1, <2>2, <3>1, <3>4
  <2>5. got[(k - 1) + 1] \in {Completed, Failed}
    <3>1. source.n \in Nat
      BY <2>1, <2>2
    <3>2. got[i] \in {Completed, Failed}
      BY <1>4, <2>1, <2>3, <3>1
    <3> QED BY <1>1, <2>1, <3>2
  <2>6. Emitted(got) = 1..(k - 1)
    <3> HIDE DEF k
    <3> QED BY <1>1, <2>2, <2>4, <2>5, EmittedUpTo
  <2> QED BY <1>1, <2>1, <2>2, <2>5, <2>6
<1>5. ASSUME caller = "eof", ~cancelled
      PROVE  /\ source.over # "no" /\ Emitted(got) = 1..source.n
             /\ source.over = "broken" => got # <<>> /\ got[Len(got)] = Failed
  <2>1. chan.buffer = <<>> /\ ~chan.open /\ reader.pc # "off"
    BY <1>1, <1>5 DEF EdgeInv
  <2>2. Len(got) = k
    BY <2>1, LineTyped, <1>1
  <2>3. CASE source.over = "clean" /\ source.n = k
    <3>1. \A i \in 1..k : ~(got[i] < 0)
      BY <1>1, <1>4, <2>2, <2>3
    <3>2. \A i \in 1..k : got[i] \in {Completed, Failed} \cup 1..k
      BY <1>1, <2>2, <2>3 DEF LineInv
    <3>3. \A i \in 1..k : got[i] > 0
      BY <1>1, <3>1, <3>2, OwnEvents
    <3>4. \A i \in 1..k : got[i] = i
      BY <1>3, <1>5, <2>2, <3>3
    <3>5. Emitted(got) = 1..k
      <4> HIDE DEF k
      <4> QED BY <1>1, <2>2, <3>4, EmittedUpTo
    <3> QED BY <2>3, <3>5
  <2>4. CASE k > 0 /\ Line[k] < 0
    <3>1. k \in 1..Len(got) /\ got[k] < 0
      BY <1>1, <2>2, <2>4
    <3>2. /\ source.over = IF got[k] = Completed THEN "clean" ELSE "broken"
          /\ got[k] \in {Completed, Failed} /\ Emitted(got) = 1..source.n
      BY <1>4, <3>1
    <3>3. got # <<>>
      BY <2>2, <2>4
    <3> QED BY <2>2, <3>2, <3>3
  <2>5. CASE kind # "copilot"
    BY <1>1, <1>5, <2>1, <2>3, <2>4, <2>5 DEF ScanInv
  <2>6. CASE kind = "copilot"
    BY <1>1, <1>5, <2>1, <2>3, <2>6 DEF SDKInv
  <2> QED BY <2>5, <2>6
<1>6. \A i \in 1..Len(got) : got[i] = Completed => got[i] < 0
  BY OwnEvents
<1> QED BY <1>2, <1>3, <1>4, <1>5, <1>6 DEF StreamIsFaithful

\* Before any call there is no stream.
LEMMA InitHolds ==
  ASSUME Init
  PROVE  IInv
<1>1. /\ source = [n |-> 0, over |-> "no"] /\ source.n = 0 /\ source.over = "no"
      /\ reader = [pc |-> "off", event |-> 0] /\ reader.pc = "off"
      /\ chan = [buffer |-> <<>>, open |-> FALSE] /\ chan.buffer = <<>>
      /\ caller = "off" /\ got = <<>> /\ cancelled = FALSE
      /\ source = NoSource /\ chan = NoChan
  BY DEF Init, NoSource, NoReader, NoChan
<1>2. Len(Line) = 0
  BY <1>1 DEF Line
<1>3. StreamTyped
  <2>1. Len(<<>>) = 0 /\ <<>> \in Seq(Int) /\ Capacity \in Nat /\ MaxEvents \in Nat
    BY EventStreamAssumption
  <2>2. /\ source \in [n : 0..MaxEvents, over : {"no", "clean", "broken"}]
        /\ reader \in [pc : ReaderPCs, event : {Completed, Failed} \cup 0..(MaxEvents + 1)]
    BY <1>1, <2>1 DEF ReaderPCs
  <2>3. chan \in [buffer : Seq(Int), open : BOOLEAN] /\ Len(chan.buffer) <= Capacity
    BY <1>1, <2>1
  <2> QED BY <1>1, <2>1, <2>2, <2>3 DEF StreamTyped, CallerPCs
<1>4. LineInv
  BY <1>2 DEF LineInv
<1>5. HandInv /\ ScanInv /\ SDKInv /\ EdgeInv
  BY <1>1 DEF HandInv, ScanInv, SDKInv, EdgeInv
<1>6. ModeInv
  BY <1>1 DEF Init, ModeInv, NoLoop, NoJob
<1> QED BY <1>3, <1>4, <1>5, <1>6 DEF IInv, StreamInv

\* What the caller of Agent.Stream receives is what the source emitted, in
\* its order, and the end it is told is how the source ended: for every
\* capacity of the channel, every number of events and every provider.
THEOREM StreamFaithful == Spec => []StreamIsFaithful
<1>1. Init => IInv
  BY InitHolds
<1>2. IInv /\ [Next]_vars => IInv'
  BY NextKeepsStream, ModeStep DEF IInv
<1>3. IInv => StreamIsFaithful
  BY StreamSound DEF IInv
<1> QED BY <1>1, <1>2, <1>3, PTL DEF Spec

\* The stream keeps to its places: the channel never holds more than its
\* capacity.
THEOREM StreamKeepsType == Spec => []StreamTypeOK
<1>1. Init => IInv
  BY InitHolds
<1>2. IInv /\ [Next]_vars => IInv'
  BY NextKeepsStream, ModeStep DEF IInv
<1>3. IInv => StreamTypeOK
  BY DEF IInv, StreamInv, StreamTyped, StreamTypeOK, ReaderPCs, CallerPCs
<1> QED BY <1>1, <1>2, <1>3, PTL DEF Spec
=============================================================================

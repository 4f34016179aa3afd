--------------------------- MODULE AgentRunProofs ---------------------------
(***************************************************************************)
(* Theorems about AgentRun for every value of its constants.  Each part    *)
(* has its own invariant, and one lemma says that every step of the        *)
(* specification keeps it:                                                 *)
(*   - PolicyInv: retries follow the policy, whatever the limits, the      *)
(*     replies and the server's Retry-After;                               *)
(*   - RegistryInv: no name means two providers, the batch of the          *)
(*     environment is in or out as a whole, and a profile names an entry   *)
(*     before it, so that following profiles ends (ProfilesEnd);           *)
(*   - AssemblyInv: a pass has made the first m loads of its request and   *)
(*     has q loads of a subagent's servers before it goes on (PassAt), and *)
(*     a server is found at the last place its name is loaded from         *)
(*     (FoundInv), whatever is written to the table meanwhile;             *)
(*   - LoopInv: the request of the tool loop is that of the answered       *)
(*     replies with their outputs behind them (ToldInv), each output is    *)
(*     the one end of one handler (Reported), and the semaphore counts the *)
(*     handlers (PlacesInv).                                               *)
(* The last three speak of sequences built by loops and recursion, so what *)
(* Selected, Converter and FlattenSeq compute is shown first, by induction *)
(* over a set of numbers (UpTo).                                           *)
(***************************************************************************)
EXTENDS EventStreamProofs, FiniteSetTheorems, WellFoundedInduction

-----------------------------------------------------------------------------
(* Sequences                                                                *)

\* Induction up to N, for a set of numbers.
LEMMA UpTo ==
  ASSUME NEW N \in Nat, NEW T, 0 \in T,
         \A n \in 1..N : n - 1 \in T => n \in T
  PROVE  \A n \in 0..N : n \in T
<1> DEFINE U == {n \in Nat : n <= N /\ n \notin T}
<1> SUFFICES ASSUME U # {} PROVE FALSE
  BY DEF U
<1>1. U \subseteq Nat
  OBVIOUS
<1>2. PICK m \in U : \A n \in U : m <= n
  <2>1. PICK m \in U : \A n \in U : <<n, m>> \notin OpToRel(<, Nat)
    <3> HIDE DEF U
    <3> QED BY <1>1, NatLessThanWellFounded, WFMin
  <2>2. \A n \in U : ~(n < m)
    BY <2>1, <1>1 DEF OpToRel
  <2>3. m \in Nat /\ \A n \in U : n \in Nat
    BY <1>1, <2>1
  <2>4. \A n \in U : m <= n
    <3> HIDE DEF U
    <3> QED BY <2>2, <2>3
  <2> QED BY <2>1, <2>4
<1>3. m \in Nat /\ m <= N /\ m \notin T /\ m # 0
  OBVIOUS
<1>4. m \in 1..N /\ m - 1 \in Nat /\ m - 1 <= N /\ ~(m <= m - 1)
  BY <1>3
<1>5. m - 1 \in T
  BY <1>2, <1>4
<1> QED BY <1>3, <1>4, <1>5

\* The loop of Selected, one element at a time.
SelectedLoop(F, s, at) ==
  /\ F[0] = <<>>
  /\ \A n \in 1..Len(s) : F[n] = IF n \in at THEN Append(F[n - 1], s[n]) ELSE F[n - 1]

\* What the loop ends with is what Selected is.
LEMMA SelectedDef ==
  ASSUME NEW s, Len(s) \in Nat, NEW at
  PROVE  \E F : SelectedLoop(F, s, at) /\ Selected(s, at) = F[Len(s)]
<1> DEFINE N == Len(s)
           Next1(F, n) == IF n = 0 THEN <<>>
                          ELSE IF n \in at THEN Append(F[n - 1], s[n]) ELSE F[n - 1]
           Is(F, n) == F = [i \in 0..n |-> Next1(F, i)]
           T == {n \in 0..N : \E F : Is(F, n)}
<1>1. 0 \in T
  <2>1. Is([i \in 0..0 |-> <<>>], 0)
    OBVIOUS
  <2> HIDE DEF Is
  <2> QED BY <2>1
<1>2. ASSUME NEW n \in 1..N, n - 1 \in T PROVE n \in T
  <2>1. PICK F : Is(F, n - 1)
    BY <1>2
  <2> DEFINE G == [i \in 0..n |-> IF i = n THEN Next1(F, n) ELSE F[i]]
  <2>2. ASSUME NEW i \in 0..n PROVE G[i] = Next1(G, i)
    <3>1. CASE i = 0
      <4>1. 0 \in 0..(n - 1) /\ 0 # n
        OBVIOUS
      <4>2. F[0] = <<>>
        BY <2>1, <4>1
      <4> QED BY <3>1, <4>1, <4>2
    <3>2. CASE i # 0 /\ i # n
      <4>1. i \in 0..(n - 1) /\ i - 1 \in 0..n /\ i - 1 # n
        BY <3>2
      <4>2. F[i] = Next1(F, i)
        BY <2>1, <4>1
      <4> QED BY <3>2, <4>1, <4>2
    <3>3. CASE i = n
      <4>1. n - 1 \in 0..n /\ n - 1 # n /\ n # 0
        OBVIOUS
      <4>2. G[n - 1] = F[n - 1] /\ G[n] = Next1(F, n)
        BY <4>1
      <4> HIDE DEF G
      <4> QED BY <3>3, <4>1, <4>2
    <3> QED BY <3>1, <3>2, <3>3
  <2>3. Is(G, n)
    <3>1. G = [i \in 0..n |-> G[i]]
      OBVIOUS
    <3> HIDE DEF G
    <3> QED BY <2>2, <3>1
  <2> HIDE DEF G, Is
  <2> QED BY <2>3
<1>3. \A n \in 0..N : n \in T
  <2> HIDE DEF T
  <2> QED BY <1>1, <1>2, UpTo
<1>4. N \in 0..N
  OBVIOUS
<1>5. \E F : Is(F, N)
  <2>1. N \in T
    <3> HIDE DEF T
    <3> QED BY <1>3, <1>4
  <2> QED BY <2>1
<1> DEFINE H == CHOOSE F : Is(F, N)
<1>6. Is(H, N)
  <2> HIDE DEF Is
  <2> QED BY <1>5
<1>7. Selected(s, at) = H[N]
  BY DEF Selected
<1>8. SelectedLoop(H, s, at)
  <2> HIDE DEF H
  <2>1. 0 \in 0..N
    OBVIOUS
  <2>2. H[0] = <<>>
    BY <1>6, <2>1
  <2>3. ASSUME NEW n \in 1..N PROVE H[n] = IF n \in at THEN Append(H[n - 1], s[n]) ELSE H[n - 1]
    <3>1. n \in 0..N /\ n # 0
      OBVIOUS
    <3> QED BY <1>6, <3>1
  <2> QED BY <2>2, <2>3 DEF SelectedLoop
<1> HIDE DEF H
<1> QED BY <1>7, <1>8

\* What is kept are elements of the sequence ...
LEMMA SelectedType ==
  ASSUME NEW S, NEW s \in Seq(S), NEW at
  PROVE  Selected(s, at) \in Seq(S) /\ Len(Selected(s, at)) \in Nat
<1> DEFINE N == Len(s)
<1>1. N \in Nat /\ \A n \in 1..N : s[n] \in S
  OBVIOUS
<1>2. PICK F : SelectedLoop(F, s, at) /\ Selected(s, at) = F[N]
  BY <1>1, SelectedDef
<1> DEFINE T == {n \in 0..N : F[n] \in Seq(S)}
<1>3. 0 \in T
  <2>1. <<>> \in Seq(S)
    BY EmptySeq
  <2>2. F[0] \in Seq(S)
    BY <1>2, <2>1 DEF SelectedLoop
  <2>3. 0 \in 0..N
    BY <1>1
  <2> QED BY <2>2, <2>3
<1>4. ASSUME NEW n \in 1..N, n - 1 \in T PROVE n \in T
  <2>1. F[n - 1] \in Seq(S) /\ s[n] \in S /\ n \in 0..N
    BY <1>1, <1>4
  <2>2. Append(F[n - 1], s[n]) \in Seq(S)
    BY <2>1, AppendProperties
  <2> QED BY <1>2, <2>1, <2>2 DEF SelectedLoop
<1>5. \A n \in 0..N : n \in T
  <2> HIDE DEF T, N
  <2> QED BY <1>1, <1>3, <1>4, UpTo
<1>6. F[N] \in Seq(S)
  <2>1. N \in 0..N
    BY <1>1
  <2> QED BY <1>5, <2>1
<1> HIDE DEF N
<1> QED BY <1>2, <1>6

\* ... all of them, if every position is to be kept ...
LEMMA SelectedAll ==
  ASSUME NEW S, NEW s \in Seq(S), NEW at, 1..Len(s) \subseteq at
  PROVE  Selected(s, at) = s
<1> DEFINE N == Len(s)
           Head1(n) == [i \in 1..n |-> s[i]]
<1>1. N \in Nat /\ s = Head1(N)
  OBVIOUS
<1>2. PICK F : SelectedLoop(F, s, at) /\ Selected(s, at) = F[N]
  BY <1>1, SelectedDef
<1> DEFINE T == {n \in 0..N : F[n] = Head1(n)}
<1>3. 0 \in T
  <2>1. Head1(0) = <<>> /\ 0 \in 0..N
    BY <1>1
  <2>2. F[0] = <<>>
    BY <1>2 DEF SelectedLoop
  <2> HIDE DEF Head1
  <2> QED BY <2>1, <2>2
<1>4. ASSUME NEW n \in 1..N, n - 1 \in T PROVE n \in T
  <2>1. F[n - 1] = Head1(n - 1) /\ n \in at /\ n \in 0..N
    BY <1>4
  <2>2. F[n] = Append(F[n - 1], s[n])
    BY <1>2, <2>1 DEF SelectedLoop
  <2>3. Append(Head1(n - 1), s[n]) = Head1(n)
    OBVIOUS
  <2> HIDE DEF Head1
  <2> QED BY <2>1, <2>2, <2>3
<1>5. \A n \in 0..N : n \in T
  <2> HIDE DEF T, N
  <2> QED BY <1>1, <1>3, <1>4, UpTo
<1>6. F[N] = Head1(N)
  <2>1. N \in 0..N
    BY <1>1
  <2> HIDE DEF Head1
  <2> QED BY <1>5, <2>1
<1> HIDE DEF N, Head1
<1> QED BY <1>1, <1>2, <1>6 DEF N

\* ... and none twice, if each is kept where it first stands.
LEMMA UniqueIsDistinct ==
  ASSUME NEW S, NEW s \in Seq(S)
  PROVE  /\ Unique(s) \in Seq(S)
         /\ \A i, j \in 1..Len(Unique(s)) : Unique(s)[i] = Unique(s)[j] => i = j
<1> DEFINE N == Len(s)
           first == {i \in 1..N : \A j \in 1..(i - 1) : s[j] # s[i]}
           Distinct(q, n) ==
             /\ q \in Seq(S)
             /\ \A i \in 1..Len(q) : \E k \in 1..n : q[i] = s[k]
             /\ \A i, j \in 1..Len(q) : q[i] = q[j] => i = j
<1>1. N \in Nat /\ \A n \in 1..N : s[n] \in S
  OBVIOUS
<1>2. PICK F : SelectedLoop(F, s, first) /\ Selected(s, first) = F[N]
  <2> HIDE DEF first
  <2> QED BY <1>1, SelectedDef
<1> DEFINE T == {n \in 0..N : Distinct(F[n], n)}
<1>3. 0 \in T
  <2>1. Distinct(<<>>, 0) /\ 0 \in 0..N
    BY <1>1
  <2>2. F[0] = <<>>
    BY <1>2 DEF SelectedLoop
  <2> HIDE DEF Distinct
  <2> QED BY <2>1, <2>2
<1>4. ASSUME NEW n \in 1..N, n - 1 \in T PROVE n \in T
  <2> DEFINE q == F[n - 1]
  <2>1. Distinct(q, n - 1) /\ n \in 0..N /\ s[n] \in S /\ n \in Nat /\ n - 1 \in Nat
    <3>1. Distinct(F[n - 1], n - 1)
      <4> HIDE DEF Distinct
      <4> QED BY <1>4
    <3> HIDE DEF Distinct
    <3> QED BY <1>1, <3>1
  <2>2. F[n] = IF n \in first THEN Append(q, s[n]) ELSE q
    BY <1>2 DEF SelectedLoop
  <2> HIDE DEF q
  <2>3. CASE n \notin first
    <3>1. F[n] = q
      <4> HIDE DEF first
      <4> QED BY <2>2, <2>3
    <3>2. Distinct(q, n)
      BY <2>1
    <3> HIDE DEF Distinct
    <3> QED BY <2>1, <3>1, <3>2
  <2>4. CASE n \in first
    <3> DEFINE p == Append(q, s[n])
    <3>1. F[n] = p
      <4> HIDE DEF first
      <4> QED BY <2>2, <2>4
    <3>2. /\ p \in Seq(S) /\ Len(p) = Len(q) + 1 /\ Len(q) \in Nat
          /\ \A i \in 1..Len(q) : p[i] = q[i]
          /\ p[Len(q) + 1] = s[n]
      BY <2>1, AppendProperties
    <3> HIDE DEF p
    <3>3. \A i \in 1..Len(q) : q[i] # s[n]
      BY <2>1, <2>4
    <3>4. ASSUME NEW i \in 1..Len(p) PROVE \E k \in 1..n : p[i] = s[k]
      <4>1. CASE i = Len(q) + 1
        BY <3>2, <4>1
      <4>2. CASE i # Len(q) + 1
        <5>1. i \in 1..Len(q)
          BY <3>2, <4>2
        <5>2. PICK k \in 1..(n - 1) : q[i] = s[k]
          BY <2>1, <5>1
        <5> QED BY <3>2, <5>1, <5>2
      <4> QED BY <4>1, <4>2
    <3>5. ASSUME NEW i \in 1..Len(p), NEW j \in 1..Len(p), p[i] = p[j] PROVE i = j
      <4>1. \A k \in 1..Len(p) : k \in 1..Len(q) \/ k = Len(q) + 1
        BY <3>2
      <4>2. CASE i \in 1..Len(q) /\ j \in 1..Len(q)
        BY <2>1, <3>2, <3>5, <4>2
      <4> QED BY <3>2, <3>3, <3>5, <4>1, <4>2
    <3>6. Distinct(p, n)
      BY <3>2, <3>4, <3>5
    <3> HIDE DEF Distinct
    <3> QED BY <2>1, <3>1, <3>6
  <2> HIDE DEF T, first
  <2> QED BY <2>3, <2>4
<1>5. \A n \in 0..N : n \in T
  <2> HIDE DEF T, N
  <2> QED BY <1>1, <1>3, <1>4, UpTo
<1>6. Distinct(F[N], N)
  <2>1. N \in 0..N
    BY <1>1
  <2> HIDE DEF Distinct
  <2> QED BY <1>5, <2>1
<1>7. Unique(s) = F[N]
  BY <1>2 DEF Unique
<1> QED BY <1>6, <1>7

\* A list without duplicates is left alone.
LEMMA UniqueTwice ==
  ASSUME NEW S, NEW s \in Seq(S)
  PROVE  Unique(Unique(s)) = Unique(s)
<1> DEFINE u == Unique(s)
<1>1. u \in Seq(S) /\ \A i, j \in 1..Len(u) : u[i] = u[j] => i = j
  BY UniqueIsDistinct
<1> HIDE DEF u
<1>2. 1..Len(u) \subseteq {i \in 1..Len(u) : \A j \in 1..(i - 1) : u[j] # u[i]}
  <2> SUFFICES ASSUME NEW i \in 1..Len(u), NEW j \in 1..(i - 1) PROVE u[j] # u[i]
    OBVIOUS
  <2>1. j \in 1..Len(u) /\ j # i
    BY <1>1
  <2> QED BY <1>1, <2>1
<1>3. Unique(u) = u
  BY <1>1, <1>2, SelectedAll DEF Unique
<1> QED BY <1>3 DEF u

-----------------------------------------------------------------------------

(* The call                                                                 *)

HttpRecord ==
  [pc : {"idle", "sent", "wait", "done"}, live : BOOLEAN, tries : Seq(Outcomes),
   after : RetryAfters \cup {NoHeader}, end : Outcomes \cup {"none", "cancelled", "unsent"},
   reply : Replies]

PolicyInv ==
  /\ http \in HttpRecord /\ cancelled \in BOOLEAN
  /\ http.pc = "sent" => Len(http.tries) < Attempts
  /\ RetriesFollowPolicy

CallEffect ==
  /\ http' = http \/ http' = Idle \/ http' = Sent \/ CallNext
  /\ cancelled' = cancelled \/ cancelled' = TRUE

\* There is always one attempt.
LEMMA OneAttempt == Attempts \in Nat \ {0}
BY ProviderCallAssumption DEF Attempts

\* No wait is longer than the maximum, whatever the header says and whatever
\* the shift has overflowed to.
LEMMA WaitIsBounded ==
  ASSUME NEW i, NEW after \in RetryAfters \cup {NoHeader}
  PROVE  ~(Backoff(i, after) > MaxBackoff)
<1>1. MaxBackoff \in Nat \ {0}
  BY ProviderCallAssumption
<1> DEFINE delay == IF after # NoHeader THEN after ELSE Wrapped(MinBackoff * 2^(i - 1))
<1> HIDE DEF delay
<1>2. Backoff(i, after) = IF delay > MaxBackoff THEN MaxBackoff
                          ELSE IF after # NoHeader /\ delay < 0 THEN 0 ELSE delay
  BY DEF Backoff, delay
<1> QED BY <1>1, <1>2

\* Every step of the specification leaves the call alone, clears it, begins
\* it or is one of its own, and a context that is done stays done.
LEMMA StepOnCall ==
  ASSUME [Next]_vars
  PROVE  CallEffect
<1>1. CASE Registry \/ Stop \/ Pass \/ Edit \/ Stream
  BY <1>1 DEF Registry, Stop, Pass, Edit, Stream, callVars, CallEffect
<1>2. CASE StartRun
  BY <1>2 DEF StartRun, LoopStarts, CallEffect
<1>3. CASE Preview \/ Cancel
  BY <1>3 DEF Preview, Cancel, CallEffect
<1>4. CASE \E name \in Asked : Resolve(name)
  BY <1>4 DEF Resolve, LoopStarts, CallEffect
<1>5. CASE StreamAnswered
  BY <1>5 DEF StreamAnswered, CallEffect
<1>6. CASE Call
  <2>1. CallNext
    BY <1>6 DEF Call
  <2>2. cancelled' = cancelled
    BY <2>1 DEF CallNext, Unsent, HTTPAnswer, WaitOver, WaitAbandoned,
                CodexAnswer, CopilotFails, CopilotAnswer, Answered
  <2> QED BY <2>1, <2>2 DEF CallEffect
<1>7. CASE Loop
  <2>1. LoopNext
    BY <1>7 DEF Loop
  <2>2. CASE CallFailed \/ FinalReply \/ ToolReply
    BY <2>2 DEF CallFailed, FinalReply, ToolReply, CallEffect
  <2>3. CASE Collect
    BY <2>3 DEF Collect, CallEffect
  <2>4. ASSUME NEW i, CallStep(i)
        PROVE  http' = http
    BY <2>4 DEF CallStep, Enter, GiveUp, Return, StdioFrame, StdioFails,
                Posted, PostedEvents, PostFails
  <2> QED BY <2>1, <2>2, <2>3, <2>4 DEF LoopNext, CallEffect
<1>8. CASE UNCHANGED vars
  BY <1>8 DEF vars, callVars, CallEffect
<1> QED BY <1>1, <1>2, <1>3, <1>4, <1>5, <1>6, <1>7, <1>8 DEF Next

\* One more attempt that ended with o.
LEMMA AttemptEnds ==
  ASSUME PolicyInv, http.pc = "sent", NEW o \in Outcomes
  PROVE  LET tries == Append(http.tries, o)
         IN  /\ tries \in Seq(Outcomes)
             /\ Len(tries) = Len(http.tries) + 1 /\ Len(tries) <= Attempts
             /\ \A i \in 1..Len(http.tries) : tries[i] \in {"refused", "lost", "busy"}
             /\ tries[Len(tries)] = o
<1>1. http.tries \in Seq(Outcomes) /\ Len(http.tries) \in Nat
  BY DEF PolicyInv, HttpRecord
<1>2. /\ Len(http.tries) < Attempts
      /\ \A i \in 1..Len(http.tries) : http.tries[i] \in {"refused", "lost", "busy"}
  BY DEF PolicyInv, RetriesFollowPolicy
<1> QED BY <1>1, <1>2, OneAttempt, AppendProperties

\* DoWithRetry after an attempt, with the header it keeps for the wait.
LEMMA EndedKeepsPolicy ==
  ASSUME PolicyInv, http.pc = "sent", cancelled' = cancelled,
         NEW o \in Outcomes, NEW after \in RetryAfters \cup {NoHeader}, NEW reply \in Replies,
         http' = Ended(o, after, reply)
  PROVE  PolicyInv'
<1> DEFINE tries == Append(http.tries, o)
<1>1. /\ tries \in Seq(Outcomes)
      /\ Len(tries) = Len(http.tries) + 1 /\ Len(tries) <= Attempts
      /\ \A i \in 1..Len(http.tries) : tries[i] \in {"refused", "lost", "busy"}
      /\ tries[Len(tries)] = o
      /\ Len(http.tries) \in Nat
  BY AttemptEnds DEF PolicyInv, HttpRecord
<1> HIDE DEF tries
<1>2. http \in HttpRecord /\ cancelled \in BOOLEAN
  BY DEF PolicyInv
<1>3. CASE Retryable(o) /\ Len(tries) < Attempts
  <2>1. http' = [http EXCEPT !.pc = "wait", !.tries = tries, !.after = after]
    BY <1>3 DEF Ended, tries
  <2>2. /\ http' \in HttpRecord /\ http'.pc = "wait"
        /\ http'.tries = tries /\ http'.after = after
    BY <1>1, <1>2, <2>1 DEF HttpRecord
  <2>3. \A i \in 1..Len(tries) : tries[i] \in {"refused", "lost", "busy"}
    BY <1>1, <1>3 DEF Retryable, Transport
  <2> QED BY <1>2, <1>3, <2>2, <2>3, WaitIsBounded, OneAttempt
      DEF PolicyInv, RetriesFollowPolicy
<1>4. CASE ~(Retryable(o) /\ Len(tries) < Attempts)
  <2>1. http' = [http EXCEPT !.pc = "done", !.tries = tries, !.after = NoHeader,
                             !.end = o, !.reply = reply]
    BY <1>4 DEF Ended, tries
  <2>2. /\ http' \in HttpRecord /\ http'.pc = "done"
        /\ http'.tries = tries /\ http'.end = o
    BY <1>1, <1>2, <2>1 DEF HttpRecord
  <2>3. o \in {"refused", "lost", "busy"} => Len(tries) = Attempts
    BY <1>1, <1>4, OneAttempt DEF Retryable, Transport
  <2>4. o # "cancelled"
    BY DEF Outcomes, Transport
  <2> QED BY <1>1, <1>2, <2>2, <2>3, <2>4, OneAttempt DEF PolicyInv, RetriesFollowPolicy
<1> QED BY <1>3, <1>4

\* No attempt yet.
LEMMA NoTries ==
  /\ <<>> \in Seq(Outcomes) /\ Len(<<>>) = 0
BY EmptySeq

\* Before the call.
LEMMA IdleKeepsPolicy ==
  ASSUME http = Idle, cancelled \in BOOLEAN
  PROVE  PolicyInv
<1>1. /\ http \in HttpRecord /\ http.pc = "idle" /\ http.tries = <<>> /\ http.end = "none"
  BY ProviderCallAssumption, NoTries DEF Idle, HttpRecord
<1> QED BY <1>1, OneAttempt, NoTries DEF PolicyInv, RetriesFollowPolicy

\* A step of the call itself.
LEMMA CallKeepsPolicy ==
  ASSUME PolicyInv, CallNext
  PROVE  PolicyInv'
<1>1. /\ http \in HttpRecord /\ cancelled \in BOOLEAN /\ cancelled' = cancelled
      /\ Len(http.tries) \in Nat
  BY DEF PolicyInv, HttpRecord, CallNext, Unsent, HTTPAnswer, WaitOver, WaitAbandoned,
         CodexAnswer, CopilotFails, CopilotAnswer, Answered
<1>2. ASSUME NEW o \in Outcomes, http.pc = "sent", Answered(o), o \in {"broken", "ok"}
      PROVE  PolicyInv'
  <2>1. /\ http' \in HttpRecord /\ http'.pc = "done"
        /\ http'.tries = Append(http.tries, o) /\ http'.end = o
    BY <1>1, <1>2, AttemptEnds DEF Answered, HttpRecord
  <2> DEFINE tries == Append(http.tries, o)
  <2>2. /\ Len(tries) = Len(http.tries) + 1 /\ Len(tries) <= Attempts
        /\ \A i \in 1..Len(http.tries) : tries[i] \in {"refused", "lost", "busy"}
    BY <1>2, AttemptEnds
  <2> HIDE DEF tries
  <2>3. http'.tries = tries
    BY <2>1 DEF tries
  <2> QED BY <1>1, <1>2, <2>1, <2>2, <2>3, OneAttempt DEF PolicyInv, RetriesFollowPolicy
<1>3. CASE Unsent
  <2>1. /\ http' \in HttpRecord /\ http'.pc = "done"
        /\ http'.tries = <<>> /\ http'.end = "unsent"
    BY <1>1, <1>3 DEF Unsent, HttpRecord
  <2> QED BY <1>1, <2>1, OneAttempt, NoTries DEF PolicyInv, RetriesFollowPolicy
<1>4. CASE HTTPAnswer
  <2>1. PICK o \in Outcomes, after \in RetryAfters \cup {NoHeader}, reply \in Replies :
          http' = Ended(o, after, reply)
    BY <1>4, ProviderCallAssumption DEF HTTPAnswer, Outcomes, Transport
  <2> QED BY <1>1, <1>4, <2>1, EndedKeepsPolicy DEF HTTPAnswer
<1>5. CASE WaitOver
  <2>1. /\ http' \in HttpRecord /\ http'.pc = "sent" /\ http'.tries = http.tries
    BY <1>1, <1>5 DEF WaitOver, HttpRecord
  <2> QED BY <1>1, <1>5, <2>1 DEF WaitOver, PolicyInv, RetriesFollowPolicy
<1>6. CASE WaitAbandoned
  <2>1. /\ http' \in HttpRecord /\ http'.pc = "done" /\ http'.tries = http.tries
        /\ http'.end = "cancelled"
    BY <1>1, <1>6 DEF WaitAbandoned, HttpRecord
  <2> QED BY <1>1, <1>6, <2>1 DEF WaitAbandoned, PolicyInv, RetriesFollowPolicy
<1>7. CASE CodexAnswer \/ CopilotFails \/ CopilotAnswer
  BY <1>2, <1>7 DEF CodexAnswer, CopilotFails, CopilotAnswer, Outcomes
<1> QED BY <1>3, <1>4, <1>5, <1>6, <1>7 DEF CallNext

\* Every step of the specification.
LEMMA PolicyStep ==
  ASSUME PolicyInv, [Next]_vars
  PROVE  PolicyInv'
<1>1. CallEffect
  BY StepOnCall
<1>2. cancelled \in BOOLEAN /\ cancelled' \in BOOLEAN
  BY <1>1 DEF CallEffect, PolicyInv
<1>3. CASE http' = http
  <2>1. cancelled => cancelled'
    BY <1>1 DEF CallEffect
  <2>2. RetriesFollowPolicy'
    <3>1. RetriesFollowPolicy
      BY DEF PolicyInv
    <3>2. Backoff(Len(http.tries), http.after)' = Backoff(Len(http.tries), http.after)
      BY <1>3 DEF Backoff
    <3> QED BY <1>3, <2>1, <3>1, <3>2 DEF RetriesFollowPolicy
  <2> QED BY <1>2, <1>3, <2>2 DEF PolicyInv
<1>4. CASE http' = Idle
  <2>1. /\ http' \in HttpRecord /\ http'.pc = "idle" /\ http'.tries = <<>>
    BY <1>4, ProviderCallAssumption, NoTries DEF Idle, HttpRecord
  <2> QED BY <1>2, <2>1, OneAttempt, NoTries DEF PolicyInv, RetriesFollowPolicy
<1>5. CASE http' = Sent
  <2>1. /\ http' \in HttpRecord /\ http'.pc = "sent" /\ http'.tries = <<>>
    BY <1>2, <1>5, ProviderCallAssumption, NoTries DEF Sent, Idle, HttpRecord
  <2> QED BY <1>2, <2>1, OneAttempt, NoTries DEF PolicyInv, RetriesFollowPolicy
<1>6. CASE CallNext
  BY <1>6, CallKeepsPolicy
<1> QED BY <1>1, <1>3, <1>4, <1>5, <1>6 DEF CallEffect

\* A request is sent again only after a refused, lost or busy attempt, at
\* most Attempts times, never after a longer wait than the maximum, and a
\* call that gives up has used them all or was cancelled (DoWithRetry and
\* retryBackoff of httptransport), for every limit and every reply.
THEOREM RetriesAreBounded == Spec => []RetriesFollowPolicy
<1>1. Init => PolicyInv
  BY IdleKeepsPolicy DEF Init
<1>2. PolicyInv /\ [Next]_vars => PolicyInv'
  BY PolicyStep
<1>3. PolicyInv => RetriesFollowPolicy
  BY DEF PolicyInv
<1> QED BY <1>1, <1>2, <1>3, PTL DEF Spec

-----------------------------------------------------------------------------
(* The registry                                                             *)

\* What an entry is known by.
SameNames(e, f) == e.name = f.name /\ e.aliases = f.aliases

\* An entry has converters of its own or its profile names one before it.
ProfileBefore(r, i) ==
  \/ r[i].profile = "own"
  \/ \E j \in 1..(i - 1) : Key[r[i].profile] \in Answers(r[j])

RegistryInv ==
  /\ RegistryTypeOK
  /\ \A i \in 1..Len(Builtins) : registry[i] = Builtins[i]
  /\ \A k \in 1..added : SameNames(registry[Len(Builtins) + k], batch[k])
  /\ NamesAreDistinct
  /\ \A i \in 1..Len(registry) : ProfileBefore(registry, i)
  /\ boot \in {"refused", "down"} => added = 0
  /\ boot = "up" => added = Len(batch)

StopsServing ==
  boot = "up" /\ boot' = "stopping" /\ UNCHANGED <<registry, batch, added>>

\* The least of a set of numbers that is not empty is one of them.
LEMMA Smallest ==
  ASSUME NEW T, T \subseteq Nat, T # {}
  PROVE  LET m == CHOOSE i \in T : \A j \in T : i <= j
         IN  m \in T /\ \A j \in T : m <= j
<1>1. PICK i \in T : \A j \in T : <<j, i>> \notin OpToRel(<, Nat)
  BY NatLessThanWellFounded, WFMin
<1>2. \A j \in T : ~(j < i)
  BY <1>1 DEF OpToRel
<1>3. \A j \in T : i <= j
  BY <1>2
<1> QED BY <1>3

\* A lookup that fails has looked at every entry; one that succeeds gives
\* one of them.
LEMMA Lookup ==
  ASSUME NEW r \in Seq(Entries), NEW n
  PROVE  /\ Find(r, n) = 0 => \A i \in 1..Len(r) : Key[n] \notin Answers(r[i])
         /\ Find(r, n) # 0 => /\ Find(r, n) \in 1..Len(r)
                              /\ Key[n] \in Answers(r[Find(r, n)])
         /\ \A i \in 1..Len(r) : Key[n] \in Answers(r[i]) => Find(r, n) \in 1..i
<1> DEFINE hits == {i \in 1..Len(r) : Key[n] \in Answers(r[i])}
<1>1. hits \subseteq 1..Len(r) /\ hits \subseteq Nat /\ Len(r) \in Nat
  OBVIOUS
<1>2. CASE hits = {}
  BY <1>2 DEF Find
<1>3. CASE hits # {}
  <2> DEFINE m == CHOOSE i \in hits : \A j \in hits : i <= j
  <2>1. m \in hits /\ \A j \in hits : m <= j
    <3> HIDE DEF hits
    <3> QED BY <1>1, <1>3, Smallest
  <2>2. Find(r, n) = m
    BY <1>3 DEF Find
  <2> HIDE DEF m
  <2>3. Find(r, n) \in 1..Len(r) /\ Find(r, n) # 0 /\ Key[n] \in Answers(r[Find(r, n)])
    BY <1>1, <2>1, <2>2
  <2>4. ASSUME NEW i \in 1..Len(r), Key[n] \in Answers(r[i]) PROVE Find(r, n) \in 1..i
    <3>1. i \in hits
      BY <2>4
    <3>2. m <= i /\ i \in Nat
      <4> HIDE DEF hits
      <4> QED BY <1>1, <2>1, <3>1
    <3> QED BY <2>2, <2>3, <3>2
  <2> QED BY <2>3, <2>4
<1> QED BY <1>2, <1>3

\* Entries known by the same names answer to the same names.
LEMMA SameAnswers ==
  ASSUME NEW e, NEW f, SameNames(e, f)
  PROVE  Answers(e) = Answers(f)
BY DEF SameNames, Answers

\* An accepted registration answers to no name that is taken.
LEMMA AcceptedIsNew ==
  ASSUME NEW r \in Seq(Entries), NEW e \in Entries, Accepts(r, e)
  PROVE  /\ \A i \in 1..Len(r) : Answers(e) \cap Answers(r[i]) = {}
         /\ Specified(r, e) \in Entries /\ SameNames(Specified(r, e), e)
         /\ Specified(r, e).profile = e.profile
         /\ \E j \in 1..Len(r) : Key[e.profile] \in Answers(r[j])
<1>1. /\ Find(r, e.name) = 0
      /\ \A k \in 1..Len(e.aliases) : Find(r, e.aliases[k]) = 0
      /\ Find(r, e.profile) # 0
  BY DEF Accepts, Taken
<1>2. ASSUME NEW i \in 1..Len(r)
      PROVE  Answers(e) \cap Answers(r[i]) = {}
  <2>1. Key[e.name] \notin Answers(r[i])
    BY <1>1, Lookup
  <2>2. \A k \in 1..Len(e.aliases) : Key[e.aliases[k]] \notin Answers(r[i])
    BY <1>1, Lookup
  <2>3. Answers(e) = {Key[e.name]} \cup {Key[e.aliases[k]] : k \in 1..Len(e.aliases)}
    BY DEF Answers
  <2> QED BY <2>1, <2>2, <2>3
<1>3. r[Find(r, e.profile)].routes \in BOOLEAN
  <2>1. r[Find(r, e.profile)] \in Entries
    BY <1>1, Lookup, ElementOfSeq
  <2> QED BY <2>1 DEF Entries
<1>4. (e.routes \/ r[Find(r, e.profile)].routes) \in BOOLEAN
  BY <1>3 DEF Entries
<1>5. Specified(r, e) = [e EXCEPT !.routes = e.routes \/ r[Find(r, e.profile)].routes]
  BY DEF Specified
<1>6. ASSUME NEW b \in BOOLEAN
      PROVE  /\ [e EXCEPT !.routes = b] \in Entries /\ SameNames([e EXCEPT !.routes = b], e)
             /\ [e EXCEPT !.routes = b].profile = e.profile
  BY <1>6 DEF Entries, SameNames
<1>7. \E j \in 1..Len(r) : Key[e.profile] \in Answers(r[j])
  BY <1>1, Lookup
<1> QED BY <1>2, <1>4, <1>5, <1>6, <1>7

\* Every step of the specification leaves the registry alone, is one of its
\* own or is the end of the process.
LEMMA StepOnRegistry ==
  ASSUME [Next]_vars
  PROVE  RegistryNext \/ StopsServing \/ UNCHANGED registryVars
<1>1. CASE Registry \/ Stop
  BY <1>1 DEF Registry, Stop, StopsServing
<1>2. CASE Pass \/ Edit \/ StartRun \/ Preview \/ Cancel
  BY <1>2 DEF Pass, Edit, StartRun, Preview, Cancel, registryVars
<1>3. CASE \E name \in Asked : Resolve(name)
  BY <1>3 DEF Resolve, registryVars
<1>4. CASE StreamAnswered \/ Call \/ Loop \/ Stream
  BY <1>4 DEF StreamAnswered, Call, Loop, Stream, registryVars
<1>5. CASE UNCHANGED vars
  BY <1>5 DEF vars, registryVars
<1> QED BY <1>1, <1>2, <1>3, <1>4, <1>5 DEF Next

\* A step that leaves the table as it is.
LEMMA SameRegistry ==
  ASSUME RegistryInv, UNCHANGED <<registry, batch, added>>,
         boot' \in {"registering", "undoing", "refused", "up", "stopping", "down"},
         boot' \in {"refused", "down"} => added = 0,
         boot' = "up" => added = Len(batch)
  PROVE  RegistryInv'
<1>1. RegistryTypeOK'
  BY DEF RegistryInv, RegistryTypeOK
<1>2. \A i \in 1..Len(Builtins) : registry'[i] = Builtins[i]
  BY DEF RegistryInv
<1>3. \A k \in 1..added' : SameNames(registry'[Len(Builtins) + k], batch'[k])
  BY DEF RegistryInv
<1>4. NamesAreDistinct'
  <2>1. NamesAreDistinct /\ registry' = registry
    BY DEF RegistryInv
  <2>2. ASSUME NEW i \in 1..Len(registry'), NEW j \in 1..Len(registry'), i # j
        PROVE  Answers(registry'[i]) \cap Answers(registry'[j]) = {}
    BY <2>1, <2>2 DEF NamesAreDistinct
  <2> QED BY <2>2 DEF NamesAreDistinct, Answers
<1>5. \A i \in 1..Len(registry') : ProfileBefore(registry', i)
  BY DEF RegistryInv
<1>6. (\A i \in 1..Len(registry) : ProfileBefore(registry, i))'
  BY <1>5 DEF ProfileBefore, Answers
<1> QED BY <1>1, <1>2, <1>3, <1>4, <1>6 DEF RegistryInv

\* RegisterProvider appends an entry whose names are new.
LEMMA RegisterKeeps ==
  ASSUME RegistryInv, RegisterNext
  PROVE  RegistryInv'
<1> DEFINE e == batch[added + 1]
<1>1. /\ batch \in Batches /\ batch \in Seq(Entries) /\ Len(batch) \in Nat
      /\ added \in Nat /\ added < Len(batch) /\ batch' = batch
      /\ registry \in Seq(Entries) /\ Len(registry) = Len(Builtins) + added
      /\ Builtins \in Seq(Entries) /\ Len(Builtins) \in Nat
      /\ boot = "registering"
  BY RegistryAssumption DEF RegistryInv, RegistryTypeOK, RegisterNext
<1>2. e \in Entries
  BY <1>1, ElementOfSeq
<1>3. CASE Accepts(registry, e)
  <2> DEFINE s == Specified(registry, e)
  <2>1. registry' = Append(registry, s) /\ added' = added + 1 /\ boot' = boot
    BY <1>3 DEF RegisterNext
  <2>2. /\ \A i \in 1..Len(registry) : Answers(s) \cap Answers(registry[i]) = {}
        /\ s \in Entries /\ SameNames(s, e)
        /\ \E j \in 1..Len(registry) : Key[s.profile] \in Answers(registry[j])
    <3>1. /\ \A i \in 1..Len(registry) : Answers(e) \cap Answers(registry[i]) = {}
          /\ s \in Entries /\ SameNames(s, e) /\ s.profile = e.profile
          /\ \E j \in 1..Len(registry) : Key[e.profile] \in Answers(registry[j])
      <4> HIDE DEF e
      <4> QED BY <1>1, <1>2, <1>3, AcceptedIsNew
    <3> HIDE DEF e, s
    <3>2. Answers(s) = Answers(e)
      BY <3>1, SameAnswers
    <3> QED BY <3>1, <3>2
  <2> HIDE DEF s
  <2>3. /\ registry' \in Seq(Entries) /\ Len(registry') = Len(registry) + 1
        /\ \A i \in 1..Len(registry) : registry'[i] = registry[i]
        /\ registry'[Len(registry) + 1] = s
    <3>1. registry \in Seq(Entries) /\ s \in Entries /\ registry' = Append(registry, s)
      BY <1>1, <2>1, <2>2
    <3> QED BY <3>1, AppendProperties
  <2>4. RegistryTypeOK'
    BY <1>1, <2>1, <2>3 DEF RegistryTypeOK
  <2>5. \A i \in 1..Len(Builtins) : registry'[i] = Builtins[i]
    BY <1>1, <2>3 DEF RegistryInv
  <2>6. ASSUME NEW k \in 1..added'
        PROVE  SameNames(registry'[Len(Builtins) + k], batch'[k])
    <3>1. CASE k \in 1..added
      <4>1. Len(Builtins) + k \in 1..Len(registry)
        BY <1>1, <3>1
      <4>2. SameNames(registry[Len(Builtins) + k], batch[k])
        BY <3>1 DEF RegistryInv
      <4> QED BY <1>1, <2>3, <4>1, <4>2
    <3>2. CASE k = added + 1
      <4>1. Len(Builtins) + k = Len(registry) + 1
        BY <1>1, <3>2
      <4>2. registry'[Len(Builtins) + k] = s
        BY <2>3, <4>1
      <4> QED BY <1>1, <2>2, <3>2, <4>2
    <3> QED BY <1>1, <2>1, <3>1, <3>2
  <2>7. NamesAreDistinct'
    <3> SUFFICES ASSUME NEW i \in 1..Len(registry'), NEW j \in 1..Len(registry'), i # j
                 PROVE  Answers(registry'[i]) \cap Answers(registry'[j]) = {}
      BY DEF NamesAreDistinct, Answers
    <3>1. \A k, l \in 1..Len(registry) :
            k # l => Answers(registry[k]) \cap Answers(registry[l]) = {}
      BY DEF RegistryInv, NamesAreDistinct
    <3>2. Len(registry) \in Nat /\ Len(registry') = Len(registry) + 1
      BY <1>1, <2>3
    <3>3. i \in 1..Len(registry) \/ i = Len(registry) + 1
      BY <3>2
    <3>4. j \in 1..Len(registry) \/ j = Len(registry) + 1
      BY <3>2
    <3> QED BY <2>2, <2>3, <3>1, <3>3, <3>4
  <2>8. (\A i \in 1..Len(registry) : ProfileBefore(registry, i))'
    <3> SUFFICES ASSUME NEW i \in 1..Len(registry') PROVE ProfileBefore(registry', i)
      BY DEF ProfileBefore, Answers
    <3>1. Len(registry) \in Nat /\ Len(registry') = Len(registry) + 1
      BY <1>1, <2>3
    <3>2. CASE i \in 1..Len(registry)
      <4>1. ProfileBefore(registry, i)
        BY <3>2 DEF RegistryInv
      <4>2. \A j \in 1..(i - 1) : j \in 1..Len(registry) /\ registry'[j] = registry[j]
        BY <2>3, <3>1, <3>2
      <4>3. registry'[i] = registry[i]
        BY <2>3, <3>2
      <4> QED BY <4>1, <4>2, <4>3 DEF ProfileBefore
    <3>3. CASE i = Len(registry) + 1
      <4>1. PICK j \in 1..Len(registry) : Key[s.profile] \in Answers(registry[j])
        BY <2>2
      <4>2. j \in 1..(i - 1) /\ registry'[j] = registry[j] /\ registry'[i] = s
        BY <2>3, <3>1, <3>3
      <4> QED BY <4>1, <4>2 DEF ProfileBefore
    <3> QED BY <3>1, <3>2, <3>3
  <2> QED BY <1>1, <2>1, <2>4, <2>5, <2>6, <2>7, <2>8 DEF RegistryInv
<1>4. CASE ~Accepts(registry, e)
  <2>1. boot' = "undoing" /\ UNCHANGED <<registry, added, batch>>
    BY <1>4 DEF RegisterNext
  <2> QED BY <2>1, SameRegistry
<1> QED BY <1>3, <1>4

\* The entry an unregister function removes is the last one.
LEMMA UnregisterTakesLast ==
  ASSUME RegistryInv, added > 0
  PROVE  Unregistered(registry, batch[added]) = RemoveAt(registry, Len(registry))
<1> DEFINE n == Len(registry)
           e == batch[added]
           hits == {i \in 1..n : Key[registry[i].name] = Key[e.name]}
<1>1. /\ n \in Nat /\ n = Len(Builtins) + added /\ added \in 1..added /\ n \in 1..n
  BY RegistryAssumption DEF RegistryInv, RegistryTypeOK
<1>2. registry[n].name = e.name
  BY <1>1 DEF RegistryInv, SameNames
<1>3. ASSUME NEW i \in hits
      PROVE  i = n
  <2>1. Key[e.name] \in Answers(registry[i]) /\ Key[e.name] \in Answers(registry[n])
    BY <1>2, <1>3 DEF Answers
  <2> QED BY <1>1, <2>1 DEF RegistryInv, NamesAreDistinct
<1>4. hits = {n}
  BY <1>1, <1>2, <1>3
<1>5. (CHOOSE i \in hits : \A j \in hits : i <= j) = n
  BY <1>1, <1>4
<1>6. hits # {}
  BY <1>4
<1> HIDE DEF hits, n, e
<1>7. Unregistered(registry, e) =
        IF hits = {} THEN registry
        ELSE RemoveAt(registry, CHOOSE i \in hits : \A j \in hits : i <= j)
  BY DEF Unregistered, hits, n
<1>8. Unregistered(registry, e) = RemoveAt(registry, n)
  BY <1>5, <1>6, <1>7
<1> QED BY <1>8 DEF n, e

\* A sequence without its last element.
LEMMA WithoutLast ==
  ASSUME NEW r \in Seq(Entries), Len(r) > 0
  PROVE  /\ RemoveAt(r, Len(r)) \in Seq(Entries)
         /\ Len(RemoveAt(r, Len(r))) = Len(r) - 1
         /\ \A i \in 1..(Len(r) - 1) : RemoveAt(r, Len(r))[i] = r[i]
<1> DEFINE n == Len(r)
           front == SubSeq(r, 1, n - 1)
<1>1. n \in Nat /\ \A i \in 1..(n - 1) : r[i] \in Entries
  BY ElementOfSeq
<1>2. /\ front \in Seq(Entries) /\ Len(front) = n - 1
      /\ \A i \in 1..(n - 1) : front[i] = r[i]
  <2>1. n - 1 \in Int /\ 1 \in Int /\ n >= 1
    BY <1>1
  <2> HIDE DEF n
  <2>2. /\ SubSeq(r, 1, n - 1) \in Seq(Entries)
        /\ Len(SubSeq(r, 1, n - 1)) = IF 1 <= n - 1 THEN (n - 1) - 1 + 1 ELSE 0
        /\ \A i \in 1..((n - 1) - 1 + 1) : SubSeq(r, 1, n - 1)[i] = r[1 + i - 1]
    BY <1>1, <2>1, SubSeqProperties
  <2>3. (n - 1) - 1 + 1 = n - 1 /\ \A i \in Int : 1 + i - 1 = i
    BY <2>1
  <2>4. ASSUME NEW i \in 1..(n - 1) PROVE SubSeq(r, 1, n - 1)[i] = r[i]
    BY <2>2, <2>3
  <2> QED BY <1>1, <2>1, <2>2, <2>4
<1>3. SubSeq(r, n + 1, n) = <<>>
  BY <1>1, SubSeqEmpty
<1>4. RemoveAt(r, n) = front \o <<>>
  BY <1>3 DEF RemoveAt
<1>5. RemoveAt(r, n) = front
  BY <1>2, <1>4, ConcatEmptySeq
<1> QED BY <1>2, <1>5

\* The functions that undo a registration take it back, last first.
LEMMA UnregisterKeeps ==
  ASSUME RegistryInv, UnregisterNext
  PROVE  RegistryInv'
<1>1. /\ batch \in Batches /\ Len(batch) \in Nat /\ added \in 1..Len(batch)
      /\ registry \in Seq(Entries) /\ Len(registry) = Len(Builtins) + added
      /\ Len(Builtins) \in Nat
      /\ added' = added - 1 /\ batch' = batch /\ boot' = boot
      /\ boot \in {"undoing", "stopping"}
      /\ registry' = Unregistered(registry, batch[added])
  BY RegistryAssumption DEF RegistryInv, RegistryTypeOK, UnregisterNext
<1>2. /\ registry' \in Seq(Entries) /\ Len(registry') = Len(registry) - 1
      /\ \A i \in 1..(Len(registry) - 1) : registry'[i] = registry[i]
  <2>1. added > 0 /\ Len(registry) > 0
    BY <1>1
  <2> QED BY <1>1, <2>1, UnregisterTakesLast, WithoutLast
<1>3. RegistryTypeOK'
  BY <1>1, <1>2 DEF RegistryTypeOK
<1>4. \A i \in 1..Len(Builtins) : registry'[i] = Builtins[i]
  BY <1>1, <1>2 DEF RegistryInv
<1>5. ASSUME NEW k \in 1..added'
      PROVE  SameNames(registry'[Len(Builtins) + k], batch'[k])
  <2>1. k \in 1..added /\ Len(Builtins) + k \in 1..(Len(registry) - 1)
    BY <1>1
  <2>2. SameNames(registry[Len(Builtins) + k], batch[k])
    BY <2>1 DEF RegistryInv
  <2> QED BY <1>1, <1>2, <2>1, <2>2
<1>6. NamesAreDistinct'
  <2> SUFFICES ASSUME NEW i \in 1..Len(registry'), NEW j \in 1..Len(registry'), i # j
               PROVE  Answers(registry'[i]) \cap Answers(registry'[j]) = {}
    BY DEF NamesAreDistinct, Answers
  <2>1. i \in 1..Len(registry) /\ j \in 1..Len(registry)
        /\ registry'[i] = registry[i] /\ registry'[j] = registry[j]
    <3>1. /\ Len(registry) \in Nat /\ Len(registry') = Len(registry) - 1
      BY <1>1, <1>2
    <3>2. i \in 1..(Len(registry) - 1) /\ j \in 1..(Len(registry) - 1)
      BY <3>1
    <3> QED BY <1>2, <3>1, <3>2
  <2> QED BY <2>1 DEF RegistryInv, NamesAreDistinct
<1>7. (\A i \in 1..Len(registry) : ProfileBefore(registry, i))'
  <2> SUFFICES ASSUME NEW i \in 1..Len(registry') PROVE ProfileBefore(registry', i)
    BY DEF ProfileBefore, Answers
  <2>1. Len(registry) \in Nat /\ Len(registry') = Len(registry) - 1
    BY <1>1, <1>2
  <2>2. i \in 1..Len(registry) /\ \A j \in 1..i : j \in 1..(Len(registry) - 1)
    BY <2>1
  <2>3. ProfileBefore(registry, i)
    BY <2>2 DEF RegistryInv
  <2>4. registry'[i] = registry[i] /\ \A j \in 1..(i - 1) : registry'[j] = registry[j]
    <3>1. i \in 1..i /\ \A j \in 1..(i - 1) : j \in 1..i
      BY <2>2
    <3> QED BY <1>2, <2>2, <3>1
  <2> QED BY <2>3, <2>4 DEF ProfileBefore
<1> QED BY <1>1, <1>3, <1>4, <1>5, <1>6, <1>7 DEF RegistryInv

\* Every step of the specification.
LEMMA RegistryStep ==
  ASSUME RegistryInv, [Next]_vars
  PROVE  RegistryInv'
<1>1. CASE BootDone \/ UnregisterDone \/ StopsServing
  BY <1>1, SameRegistry DEF BootDone, UnregisterDone, StopsServing, RegistryInv
<1>2. CASE UNCHANGED registryVars
  BY <1>2, SameRegistry DEF registryVars, RegistryInv, RegistryTypeOK
<1> QED BY <1>1, <1>2, StepOnRegistry, RegisterKeeps, UnregisterKeeps DEF RegistryNext

\* The program starts with its built-in entries only.
LEMMA RegistryStarts == Init => RegistryInv
<1> SUFFICES ASSUME RegistryInit PROVE RegistryInv
  BY DEF Init
<1>1. /\ registry = Builtins /\ batch \in Batches /\ added = 0 /\ boot = "registering"
      /\ Len(batch) \in Nat /\ Len(Builtins) \in Nat
  BY RegistryAssumption DEF RegistryInit
<1>2. NamesAreDistinct
  BY <1>1, BuiltinsAreDistinct DEF NamesAreDistinct
<1>3. \A i \in 1..Len(registry) : ProfileBefore(registry, i)
  BY <1>1, RegistryAssumption DEF ProfileBefore
<1> QED BY <1>1, <1>2, <1>3, RegistryAssumption DEF RegistryInv, RegistryTypeOK

\* Between two steps the batch is in or out as a whole.
LEMMA BatchInOrOut ==
  ASSUME RegistryInv
  PROVE  BatchIsWhole
<1>1. /\ batch \in Seq(Entries) /\ Len(batch) \in Nat
      /\ registry \in Seq(Entries) /\ Len(registry) = Len(Builtins) + added
      /\ Builtins \in Seq(Entries) /\ Len(Builtins) \in Nat
  BY RegistryAssumption DEF RegistryInv, RegistryTypeOK
<1>2. CASE boot \in {"refused", "down"}
  <2>1. Len(registry) = Len(Builtins) /\ \A i \in 1..Len(registry) : registry[i] = Builtins[i]
    BY <1>1, <1>2 DEF RegistryInv
  <2>2. registry = Builtins
    BY <1>1, <2>1, SeqEqual
  <2> QED BY <1>2, <2>2 DEF BatchIsWhole
<1>3. CASE boot = "up"
  <2>1. added = Len(batch) /\ Len(registry) = Len(Builtins) + Len(batch)
    BY <1>1, <1>3 DEF RegistryInv
  <2>2. ASSUME NEW i \in 1..Len(registry)
        PROVE  Answers(registry[i]) = Answers((Builtins \o batch)[i])
    <3>1. (Builtins \o batch)[i] = IF i <= Len(Builtins) THEN Builtins[i]
                                   ELSE batch[i - Len(Builtins)]
      BY <1>1, <2>1, ConcatProperties
    <3>2. CASE i <= Len(Builtins)
      BY <1>1, <3>1, <3>2 DEF RegistryInv
    <3>3. CASE i > Len(Builtins)
      <4>1. /\ i - Len(Builtins) \in 1..added
            /\ Len(Builtins) + (i - Len(Builtins)) = i
        BY <1>1, <2>1, <3>3
      <4>2. SameNames(registry[i], batch[i - Len(Builtins)])
        BY <4>1 DEF RegistryInv
      <4> QED BY <1>1, <3>1, <3>3, <4>2, SameAnswers
    <3>4. i <= Len(Builtins) \/ i > Len(Builtins)
      BY <1>1, <2>1
    <3> QED BY <3>2, <3>3, <3>4
  <2> QED BY <1>3, <2>1, <2>2 DEF BatchIsWhole
<1>4. CASE boot \notin {"refused", "down", "up"}
  BY <1>4 DEF BatchIsWhole
<1> QED BY <1>2, <1>3, <1>4

\* resolveProviderConversion, one profile after the other.
FollowLoop(F, r, i) ==
  F[0] = i /\ \A n \in 1..Len(r) : F[n] = Follow(r, F[n - 1])

\* Where the profiles of an entry lead to is where the loop ends.
LEMMA ConverterDef ==
  ASSUME NEW r, Len(r) \in Nat, NEW i
  PROVE  \E F : FollowLoop(F, r, i) /\ Converter(r, i) = F[Len(r)]
<1> DEFINE N == Len(r)
           Next1(F, n) == IF n = 0 THEN i ELSE Follow(r, F[n - 1])
           Is(F, n) == F = [k \in 0..n |-> Next1(F, k)]
           T == {n \in 0..N : \E F : Is(F, n)}
<1>1. 0 \in T
  <2>1. Is([k \in 0..0 |-> i], 0)
    OBVIOUS
  <2> HIDE DEF Is
  <2> QED BY <2>1
<1>2. ASSUME NEW n \in 1..N, n - 1 \in T PROVE n \in T
  <2>1. PICK F : Is(F, n - 1)
    BY <1>2
  <2> DEFINE G == [k \in 0..n |-> IF k = n THEN Next1(F, n) ELSE F[k]]
  <2>2. ASSUME NEW k \in 0..n PROVE G[k] = Next1(G, k)
    <3>1. CASE k = 0
      <4>1. 0 \in 0..(n - 1) /\ 0 # n
        OBVIOUS
      <4>2. F[0] = i
        BY <2>1, <4>1
      <4> QED BY <3>1, <4>1, <4>2
    <3>2. CASE k # 0 /\ k # n
      <4>1. k \in 0..(n - 1) /\ k - 1 \in 0..n /\ k - 1 # n
        BY <3>2
      <4>2. F[k] = Next1(F, k)
        BY <2>1, <4>1
      <4> QED BY <3>2, <4>1, <4>2
    <3>3. CASE k = n
      <4>1. n - 1 \in 0..n /\ n - 1 # n /\ n # 0
        OBVIOUS
      <4>2. G[n - 1] = F[n - 1] /\ G[n] = Next1(F, n)
        BY <4>1
      <4> HIDE DEF G
      <4> QED BY <3>3, <4>1, <4>2
    <3> QED BY <3>1, <3>2, <3>3
  <2>3. Is(G, n)
    <3>1. G = [k \in 0..n |-> G[k]]
      OBVIOUS
    <3> HIDE DEF G
    <3> QED BY <2>2, <3>1
  <2> HIDE DEF G, Is
  <2> QED BY <2>3
<1>3. \A n \in 0..N : n \in T
  <2> HIDE DEF T
  <2> QED BY <1>1, <1>2, UpTo
<1>4. N \in 0..N
  OBVIOUS
<1>5. \E F : Is(F, N)
  <2>1. N \in T
    <3> HIDE DEF T
    <3> QED BY <1>3, <1>4
  <2> QED BY <2>1
<1> DEFINE H == CHOOSE F : Is(F, N)
<1>6. Is(H, N)
  <2> HIDE DEF Is
  <2> QED BY <1>5
<1>7. Converter(r, i) = H[N]
  BY DEF Converter
<1>8. FollowLoop(H, r, i)
  <2> HIDE DEF H
  <2>1. 0 \in 0..N
    BY <1>4
  <2>2. H[0] = i
    BY <1>6, <2>1
  <2>3. ASSUME NEW n \in 1..N PROVE H[n] = Follow(r, H[n - 1])
    <3>1. n \in 0..N /\ n # 0
      OBVIOUS
    <3> QED BY <1>6, <3>1
  <2> QED BY <2>2, <2>3 DEF FollowLoop
<1> HIDE DEF H
<1> QED BY <1>7, <1>8

\* Each profile is looked up before the entry that names it, so the lookups
\* end at converters of their own.
LEMMA ProfilesEnd ==
  ASSUME NEW r \in Seq(Entries), \A i \in 1..Len(r) : ProfileBefore(r, i),
         NEW i \in 1..Len(r)
  PROVE  Converter(r, i) \in 1..Len(r) /\ r[Converter(r, i)].profile = "own"
<1> DEFINE N == Len(r)
<1>1. N \in Nat /\ i \in Nat /\ i <= N
  OBVIOUS
<1>2. PICK F : FollowLoop(F, r, i) /\ Converter(r, i) = F[N]
  BY <1>1, ConverterDef
<1> DEFINE Near(c, n) == c \in 1..N /\ (r[c].profile = "own" \/ c + n <= i)
           T == {n \in 0..N : Near(F[n], n)}
<1>3. 0 \in T
  <2>1. F[0] = i
    BY <1>2 DEF FollowLoop
  <2> QED BY <1>1, <2>1
<1>4. ASSUME NEW n \in 1..N, n - 1 \in T PROVE n \in T
  <2> DEFINE c == F[n - 1]
  <2>1. c \in 1..N /\ (r[c].profile = "own" \/ c + (n - 1) <= i)
    BY <1>4
  <2>2. F[n] = Follow(r, c)
    BY <1>2 DEF FollowLoop
  <2> HIDE DEF c
  <2>3. n \in 0..N /\ n \in Nat /\ c \in Nat /\ c # 0
    BY <1>1, <2>1
  <2>4. CASE r[c].profile = "own"
    <3>1. F[n] = c
      BY <2>2, <2>4 DEF Follow
    <3> QED BY <2>1, <2>3, <2>4, <3>1
  <2>5. CASE r[c].profile # "own"
    <3>1. F[n] = Find(r, r[c].profile)
      BY <2>2, <2>3, <2>5 DEF Follow
    <3>2. ProfileBefore(r, c)
      BY <2>1
    <3>3. PICK j \in 1..(c - 1) : Key[r[c].profile] \in Answers(r[j])
      BY <2>5, <3>2 DEF ProfileBefore
    <3>4. j \in 1..N /\ j \in Nat /\ j <= c - 1
      BY <1>1, <2>1, <2>3
    <3> HIDE DEF N
    <3>5. F[n] \in 1..j
      BY <3>1, <3>3, <3>4, Lookup DEF N
    <3>6. c + (n - 1) <= i /\ c \in 1..N
      BY <2>1, <2>5
    <3> DEFINE g == F[n]
    <3>7. g \in 1..j
      BY <3>5
    <3> HIDE DEF g, c
    <3>8. g \in 1..N /\ g + n <= i
      BY <1>1, <2>3, <3>4, <3>6, <3>7
    <3> QED BY <2>3, <3>8 DEF g
  <2> HIDE DEF T
  <2> QED BY <2>4, <2>5
<1>5. \A n \in 0..N : n \in T
  <2> HIDE DEF T, N
  <2> QED BY <1>1, <1>3, <1>4, UpTo
<1>6. Near(F[N], N)
  <2>1. N \in 0..N
    BY <1>1
  <2> HIDE DEF Near
  <2> QED BY <1>5, <2>1
<1>7. F[N] \in 1..N /\ r[F[N]].profile = "own"
  <2> HIDE DEF N
  <2> QED BY <1>1, <1>6
<1> HIDE DEF N
<1> QED BY <1>2, <1>7 DEF N

\* No name means two providers, RegisterHTTPJSONProvidersFromJSON leaves all
\* of its batch or nothing of it, and a lookup of converters by profile ends
\* (resolveProviderConversion), whatever entries the program is built with
\* and whatever its environment asks for.
THEOREM RegistryStaysSound == Spec => []RegistryIsSound
<1>1. Init => RegistryInv
  BY RegistryStarts
<1>2. RegistryInv /\ [Next]_vars => RegistryInv'
  BY RegistryStep
<1>3. ASSUME RegistryInv PROVE RegistryIsSound
  <2>1. NamesAreDistinct /\ BatchIsWhole
    BY <1>3, BatchInOrOut DEF RegistryInv
  <2>2. registry \in Seq(Entries) /\ Len(registry) \in Nat
    BY <1>3 DEF RegistryInv, RegistryTypeOK
  <2>3. ASSUME NEW i \in 1..Len(registry)
        PROVE  Converter(registry, i) # 0 /\ registry[Converter(registry, i)].profile = "own"
    <3>1. /\ Converter(registry, i) \in 1..Len(registry)
          /\ registry[Converter(registry, i)].profile = "own"
      BY <1>3, <2>2, ProfilesEnd DEF RegistryInv
    <3> QED BY <2>2, <3>1
  <2> QED BY <2>1, <2>3 DEF RegistryIsSound
<1> QED BY <1>1, <1>2, <1>3, PTL DEF Spec

-----------------------------------------------------------------------------
(* The agent of a run                                                       *)

JobPCs == {"none", "validating", "previewing", "queued", "assembling",
           "ready", "answered", "refused", "failed"}
LoadItems == [id : Ids, part : Parts \cup {"link"}]

\* A request whose lists name each resource once, as sanitizeRunStartRequest
\* leaves it.
GoodRequest(r) ==
  /\ Sanitized(r) = r
  /\ \A p \in Parts : /\ r[p] \in Seq(Ids)
                      /\ \A i, j \in 1..Len(r[p]) : r[p][i] = r[p][j] => i = j

AssemblyTyped ==
  /\ DOMAIN resources = Ids
  /\ \A id \in Ids : resources[id] # None => IsVersion(resources[id])
  /\ edits \in 0..MaxEdits
  /\ job = [pc |-> job.pc, req |-> job.req, left |-> job.left, found |-> job.found,
            used |-> job.used, blocks |-> job.blocks]
  /\ job.pc \in JobPCs
  /\ InPass \/ job.pc = "queued" => GoodRequest(job.req)
  /\ ~InPass => job.used = {}

\* What a pass has loaded was a row of the table while it lasted.
UsedInv(j, s) ==
  \A x \in j.used :
    /\ x.part \in Parts \cup {"link"} /\ <<x.id, x.version>> \in s
    /\ IsVersion(x.version) /\ x.version.enabled

\* x is what came of the load at i: a server is known by its name, so the
\* last one of a name is the one that is found.
Loaded(j, i, x) == x.part = "mcp_server" /\ x.id = j.req.mcp_server[i]
FoundInv(j) ==
  /\ DOMAIN j.found = {x.version.label : x \in {x \in j.used : x.part = "mcp_server"}}
  /\ \A n \in DOMAIN j.found :
       \E i \in 1..Len(j.req.mcp_server) :
         /\ \E x \in j.used : /\ Loaded(j, i, x) /\ x.version.label = n
                              /\ j.found[n] = x.version.config
         /\ \A k \in 1..Len(j.req.mcp_server) :
              (\E x \in j.used : Loaded(j, k, x) /\ x.version.label = n) => k <= i

\* What the context is made of: the blocks of resources, and of a blank file.
Blocks == Ids \cup {None}

\* A pass that has made the first m loads of its request, and has q loads
\* of a subagent's servers before it goes on with the others.
PassAt(j, m, q) ==
  LET load == Loads(j.req)
      first == Len(j.req.mcp_server)
  IN  /\ m \in 0..Len(load) /\ q \in Nat
      /\ j.left \in Seq(LoadItems) /\ Len(j.left) = q + (Len(load) - m)
      /\ \A i \in 1..q : j.left[i].part = "link"
      /\ \A i \in 1..(Len(load) - m) : j.left[q + i] = load[m + i]
      /\ \A i \in 1..m : \E x \in j.used : x.id = load[i].id /\ x.part = load[i].part
      /\ \A x \in j.used :
           x.part # "link" => \E i \in 1..m : x.id = load[i].id /\ x.part = load[i].part
      /\ \A x \in j.used : x.part = "subagent" =>
           \A i \in 1..Len(x.version.links) :
             \/ \E y \in j.used : y.part = "link" /\ y.id = x.version.links[i]
             \/ \E k \in 1..q : j.left[k].id = x.version.links[i]
      /\ j.blocks \in Seq(Blocks) /\ Len(j.blocks) = IF m <= first THEN 0 ELSE m - first
      /\ \A i \in 1..Len(j.blocks) : j.blocks[i] \in Given(load[first + i])

PassInv ==
  InPass =>
    /\ \A id \in Ids : resources[id] # None => <<id, resources[id]>> \in since
    /\ UsedInv(job, since) /\ FoundInv(job)
    /\ \E m \in 0..Len(Loads(job.req)), q \in 0..Len(job.left) : PassAt(job, m, q)

AssemblyInv == AssemblyTyped /\ PassInv

\* A cleaned request names each resource once, and is clean.
LEMMA SanitizedIsGood ==
  ASSUME NEW r \in Requests
  PROVE  GoodRequest(Sanitized(r))
<1> DEFINE s == Sanitized(r)
<1>1. /\ Parts \subseteq DOMAIN r
      /\ \A p \in Parts : r[p] \in Seq(Ids)
  BY AssemblyAssumption DEF IsRequest, Parts
<1>2. DOMAIN s = DOMAIN r /\ \A p \in DOMAIN r : s[p] = IF p \in Parts THEN Unique(r[p]) ELSE r[p]
  BY DEF Sanitized
<1>3. ASSUME NEW p \in Parts
      PROVE  /\ s[p] = Unique(r[p]) /\ s[p] \in Seq(Ids)
             /\ \A i, j \in 1..Len(s[p]) : s[p][i] = s[p][j] => i = j
  <2>1. s[p] = Unique(r[p]) /\ r[p] \in Seq(Ids)
    BY <1>1, <1>2
  <2> HIDE DEF s
  <2> QED BY <2>1, UniqueIsDistinct
<1>4. \A p \in Parts : Unique(s[p]) = s[p]
  <2> SUFFICES ASSUME NEW p \in Parts PROVE Unique(s[p]) = s[p]
    OBVIOUS
  <2>1. s[p] = Unique(r[p]) /\ r[p] \in Seq(Ids)
    BY <1>1, <1>3
  <2> HIDE DEF s
  <2> QED BY <2>1, UniqueTwice
<1>5. Sanitized(s) = s
  <2>1. Sanitized(s) = [p \in DOMAIN s |-> IF p \in Parts THEN Unique(s[p]) ELSE s[p]]
    BY DEF Sanitized
  <2>2. s = [p \in DOMAIN s |-> s[p]]
    BY DEF Sanitized
  <2> HIDE DEF s
  <2> QED BY <1>4, <2>1, <2>2
<1> HIDE DEF s
<1>6. GoodRequest(s)
  BY <1>3, <1>5 DEF GoodRequest
<1> QED BY <1>6 DEF s

\* The loads of a request: its servers, then its skills, then its subagents.
LEMMA LoadsAre ==
  ASSUME NEW r, GoodRequest(r)
  PROVE  /\ r.mcp_server \in Seq(Ids) /\ r.skill \in Seq(Ids) /\ r.subagent \in Seq(Ids)
         /\ Len(r.mcp_server) \in Nat /\ Len(r.skill) \in Nat /\ Len(r.subagent) \in Nat
         /\ Loads(r) \in Seq(LoadItems)
         /\ Len(Loads(r)) = Len(r.mcp_server) + Len(r.skill) + Len(r.subagent)
         /\ \A i \in 1..Len(r.mcp_server) :
              Loads(r)[i] = [id |-> r.mcp_server[i], part |-> "mcp_server"]
         /\ \A i \in 1..Len(r.skill) :
              Loads(r)[Len(r.mcp_server) + i] = [id |-> r.skill[i], part |-> "skill"]
         /\ \A i \in 1..Len(r.subagent) :
              Loads(r)[Len(r.mcp_server) + Len(r.skill) + i]
                = [id |-> r.subagent[i], part |-> "subagent"]
<1> DEFINE Of(p) == [i \in 1..Len(r[p]) |-> [id |-> r[p][i], part |-> p]]
           a == Of("mcp_server")
           b == Of("skill")
           c == Of("subagent")
<1>1. r.mcp_server \in Seq(Ids) /\ r.skill \in Seq(Ids) /\ r.subagent \in Seq(Ids)
  BY DEF GoodRequest, Parts
<1>2. Len(r.mcp_server) \in Nat /\ Len(r.skill) \in Nat /\ Len(r.subagent) \in Nat
  BY <1>1
<1>3. /\ a \in Seq(LoadItems) /\ Len(a) = Len(r.mcp_server)
      /\ \A i \in 1..Len(r.mcp_server) : a[i] = [id |-> r.mcp_server[i], part |-> "mcp_server"]
  BY <1>1, <1>2 DEF LoadItems, Parts
<1>4. /\ b \in Seq(LoadItems) /\ Len(b) = Len(r.skill)
      /\ \A i \in 1..Len(r.skill) : b[i] = [id |-> r.skill[i], part |-> "skill"]
  BY <1>1, <1>2 DEF LoadItems, Parts
<1>5. /\ c \in Seq(LoadItems) /\ Len(c) = Len(r.subagent)
      /\ \A i \in 1..Len(r.subagent) : c[i] = [id |-> r.subagent[i], part |-> "subagent"]
  BY <1>1, <1>2 DEF LoadItems, Parts
<1>6. Loads(r) = a \o b \o c
  BY DEF Loads
<1> HIDE DEF a, b, c
<1>7. /\ a \o b \in Seq(LoadItems) /\ Len(a \o b) = Len(a) + Len(b)
      /\ \A i \in 1..(Len(a) + Len(b)) : (a \o b)[i] = IF i <= Len(a) THEN a[i] ELSE b[i - Len(a)]
  <2>1. a \in Seq(LoadItems) /\ b \in Seq(LoadItems)
    BY <1>3, <1>4
  <2> QED BY <2>1, ConcatProperties
<1> DEFINE ab == a \o b
<1> HIDE DEF ab
<1>8. /\ ab \in Seq(LoadItems) /\ Len(ab) = Len(a) + Len(b)
      /\ \A i \in 1..(Len(a) + Len(b)) : ab[i] = IF i <= Len(a) THEN a[i] ELSE b[i - Len(a)]
  BY <1>7 DEF ab
<1>9. /\ ab \o c \in Seq(LoadItems) /\ Len(ab \o c) = Len(ab) + Len(c)
      /\ \A i \in 1..(Len(ab) + Len(c)) :
           (ab \o c)[i] = IF i <= Len(ab) THEN ab[i] ELSE c[i - Len(ab)]
  <2>1. ab \in Seq(LoadItems) /\ c \in Seq(LoadItems)
    BY <1>5, <1>8
  <2> QED BY <2>1, ConcatProperties
<1>10. Loads(r) = ab \o c
  BY <1>6 DEF ab
<1> DEFINE LA == Len(r.mcp_server)
           LB == Len(r.skill)
           LC == Len(r.subagent)
<1>11. LA \in Nat /\ LB \in Nat /\ LC \in Nat
  BY <1>2
<1> HIDE DEF LA, LB, LC
<1>12. Len(a) = LA /\ Len(b) = LB /\ Len(c) = LC /\ Len(ab) = LA + LB
  BY <1>3, <1>4, <1>5, <1>8 DEF LA, LB, LC
<1>13. ASSUME NEW i \in 1..LA PROVE Loads(r)[i] = a[i]
  <2>1. i \in 1..(LA + LB) /\ i \in 1..(LA + LB + LC) /\ i <= LA /\ i <= LA + LB
    BY <1>11
  <2> QED BY <1>8, <1>9, <1>10, <1>12, <2>1
<1>14. ASSUME NEW i \in 1..LB PROVE Loads(r)[LA + i] = b[i]
  <2>1. /\ LA + i \in 1..(LA + LB) /\ LA + i \in 1..(LA + LB + LC) /\ ~(LA + i <= LA)
        /\ LA + i <= LA + LB /\ (LA + i) - LA = i
    BY <1>11
  <2> QED BY <1>8, <1>9, <1>10, <1>12, <2>1
<1>15. ASSUME NEW i \in 1..LC PROVE Loads(r)[LA + LB + i] = c[i]
  <2>1. /\ LA + LB + i \in 1..(LA + LB + LC) /\ ~(LA + LB + i <= LA + LB)
        /\ (LA + LB + i) - (LA + LB) = i
    BY <1>11
  <2> QED BY <1>9, <1>10, <1>12, <2>1
<1>16. Loads(r) \in Seq(LoadItems) /\ Len(Loads(r)) = LA + LB + LC
  BY <1>9, <1>10, <1>12
<1>17. /\ \A i \in 1..LA : Loads(r)[i] = [id |-> r.mcp_server[i], part |-> "mcp_server"]
       /\ \A i \in 1..LB : Loads(r)[LA + i] = [id |-> r.skill[i], part |-> "skill"]
       /\ \A i \in 1..LC : Loads(r)[LA + LB + i] = [id |-> r.subagent[i], part |-> "subagent"]
  <2>1. /\ \A i \in 1..LA : a[i] = [id |-> r.mcp_server[i], part |-> "mcp_server"]
        /\ \A i \in 1..LB : b[i] = [id |-> r.skill[i], part |-> "skill"]
        /\ \A i \in 1..LC : c[i] = [id |-> r.subagent[i], part |-> "subagent"]
    BY <1>3, <1>4, <1>5 DEF LA, LB, LC
  <2> QED BY <2>1, <1>13, <1>14, <1>15
<1> QED BY <1>1, <1>2, <1>16, <1>17 DEF LA, LB, LC

\* The load at i is of the part the request lists it under.
LEMMA LoadAt ==
  ASSUME NEW r, GoodRequest(r), NEW i \in 1..Len(Loads(r))
  PROVE  /\ Loads(r)[i] \in LoadItems /\ Loads(r)[i].part \in Parts
         /\ i <= Len(r.mcp_server) <=> Loads(r)[i].part = "mcp_server"
         /\ i <= Len(r.mcp_server) => Loads(r)[i].id = r.mcp_server[i]
<1> DEFINE LA == Len(r.mcp_server)
           LB == Len(r.skill)
           LC == Len(r.subagent)
           F == Loads(r)
<1>1. /\ LA \in Nat /\ LB \in Nat /\ LC \in Nat /\ Len(F) = LA + LB + LC
      /\ F \in Seq(LoadItems)
      /\ \A k \in 1..LA : F[k] = [id |-> r.mcp_server[k], part |-> "mcp_server"]
      /\ \A k \in 1..LB : F[LA + k] = [id |-> r.skill[k], part |-> "skill"]
      /\ \A k \in 1..LC : F[LA + LB + k] = [id |-> r.subagent[k], part |-> "subagent"]
  <2> HIDE DEF LA, LB, LC, F
  <2> QED BY LoadsAre DEF LA, LB, LC, F
<1>2. i \in 1..Len(F)
  OBVIOUS
<1> HIDE DEF LA, LB, LC, F
<1>3. F[i] \in LoadItems
  BY <1>1, <1>2
<1>4. CASE i <= LA
  <2>1. i \in 1..LA
    BY <1>1, <1>2, <1>4
  <2>2. F[i] = [id |-> r.mcp_server[i], part |-> "mcp_server"]
    BY <1>1, <2>1
  <2> QED BY <1>3, <1>4, <2>2 DEF F, LA, Parts
<1>5. CASE i > LA /\ i <= LA + LB
  <2>1. i - LA \in 1..LB /\ i = LA + (i - LA)
    BY <1>1, <1>2, <1>5
  <2>2. PICK k \in 1..LB : i = LA + k
    BY <2>1
  <2>3. F[i] = [id |-> r.skill[k], part |-> "skill"]
    BY <1>1, <2>2
  <2>4. ~(i <= LA)
    BY <1>1, <1>2, <1>5
  <2> QED BY <1>3, <2>3, <2>4 DEF F, LA, Parts
<1>6. CASE i > LA + LB
  <2>1. i - (LA + LB) \in 1..LC /\ i = LA + LB + (i - (LA + LB)) /\ ~(i <= LA)
    BY <1>1, <1>2, <1>6
  <2>2. PICK k \in 1..LC : i = LA + LB + k
    BY <2>1
  <2>3. F[i] = [id |-> r.subagent[k], part |-> "subagent"]
    BY <1>1, <2>2
  <2> QED BY <1>3, <2>3, <2>1 DEF F, LA, Parts
<1> QED BY <1>1, <1>2, <1>4, <1>5, <1>6

\* What a pass keeps is said of one job, so it can be said of the next one.
LEMMA AssemblyNext ==
  ASSUME DOMAIN resources' = Ids,
         \A id \in Ids : resources'[id] # None => IsVersion(resources'[id]),
         edits' \in 0..MaxEdits,
         job' = [pc |-> job'.pc, req |-> job'.req, left |-> job'.left, found |-> job'.found,
                 used |-> job'.used, blocks |-> job'.blocks],
         job'.pc \in JobPCs,
         InPass' \/ job'.pc = "queued" => GoodRequest(job'.req),
         ~InPass' => job'.used = {},
         InPass' =>
           /\ \A id \in Ids : resources'[id] # None => <<id, resources'[id]>> \in since'
           /\ UsedInv(job', since') /\ FoundInv(job')
           /\ \E m \in 0..Len(Loads(job'.req)), q \in 0..Len(job'.left) : PassAt(job', m, q)
  PROVE  AssemblyInv'
<1>1. AssemblyTyped'
  BY DEF AssemblyTyped, JobPCs, GoodRequest, Sanitized, Unique, Selected, Parts, IsVersion
<1>2. PassInv'
  BY DEF PassInv, UsedInv, FoundInv, Loaded, PassAt, Loads, LoadItems, Parts, IsVersion
<1> QED BY <1>1, <1>2 DEF AssemblyInv

\* A pass begins with nothing loaded.
LEMMA PassBegins ==
  ASSUME AssemblyInv, NEW r, GoodRequest(r),
         NEW pc \in {"validating", "previewing", "assembling"}, Begin(pc, r)
  PROVE  AssemblyInv'
<1>1. /\ job' = [pc |-> pc, req |-> r, left |-> Loads(r), found |-> <<>>,
                 used |-> {}, blocks |-> <<>>]
      /\ since' = {<<id, resources[id]>> : id \in {id \in Ids : resources[id] # None}}
      /\ UNCHANGED <<resources, edits>>
  BY DEF Begin, NoJob
<1>2. AssemblyTyped
  BY DEF AssemblyInv
<1>3. /\ Loads(r) \in Seq(LoadItems) /\ Len(Loads(r)) \in Nat /\ Len(r.mcp_server) \in Nat
  <2>1. Loads(r) \in Seq(LoadItems) /\ Len(r.mcp_server) \in Nat
    BY LoadsAre
  <2> QED BY <2>1
<1>4. UsedInv(job', since') /\ FoundInv(job')
  BY <1>1 DEF UsedInv, FoundInv, Loaded
<1>5. PassAt(job', 0, 0)
  <2>1. job'.req = r /\ job'.left = Loads(r) /\ job'.used = {} /\ job'.blocks = <<>>
    BY <1>1
  <2>2. job'.blocks \in Seq(Blocks) /\ Len(job'.blocks) = 0
    BY <2>1, EmptySeq
  <2> DEFINE N == Len(Loads(r))
  <2>3. N \in Nat /\ \A i \in 1..(N - 0) : 0 + i = i
    BY <1>3
  <2>4. 0 \in 0..N /\ N = 0 + (N - 0)
    BY <2>3
  <2> QED BY <1>3, <2>1, <2>2, <2>3, <2>4 DEF PassAt
<1>6. \E m \in 0..Len(Loads(job'.req)), q \in 0..Len(job'.left) : PassAt(job', m, q)
  <2>1. 0 \in 0..Len(Loads(job'.req)) /\ 0 \in 0..Len(job'.left)
    BY <1>1, <1>3
  <2> QED BY <1>5, <2>1
<1>7. job'.pc \in JobPCs /\ job'.req = r /\ InPass'
  BY <1>1 DEF JobPCs, InPass
<1>8. job' = [pc |-> job'.pc, req |-> job'.req, left |-> job'.left, found |-> job'.found,
              used |-> job'.used, blocks |-> job'.blocks]
  BY <1>1
<1>9. \A id \in Ids : resources'[id] # None => <<id, resources'[id]>> \in since'
  BY <1>1
<1>10. /\ DOMAIN resources' = Ids /\ edits' \in 0..MaxEdits
       /\ \A id \in Ids : resources'[id] # None => IsVersion(resources'[id])
  BY <1>1, <1>2 DEF AssemblyTyped
<1> QED BY <1>4, <1>6, <1>7, <1>8, <1>9, <1>10, AssemblyNext

\* A pass ends and what it has loaded is dropped.
LEMMA PassEnds ==
  ASSUME AssemblyInv, UNCHANGED <<resources, edits>>,
         NEW pc \in {"queued", "ready", "answered", "refused", "failed"}, NEW r,
         pc = "queued" => GoodRequest(r),
         job' = [pc |-> pc, req |-> r, left |-> <<>>, found |-> <<>>,
                 used |-> {}, blocks |-> <<>>]
  PROVE  AssemblyInv'
<1>1. job'.pc = pc /\ job'.req = r /\ job'.used = {}
  OBVIOUS
<1>2. job'.pc \in JobPCs /\ job'.req = r /\ ~InPass' /\ job'.used = {} /\ job'.pc = pc
  <2>1. pc \in JobPCs /\ pc \notin {"validating", "assembling", "previewing"}
    BY DEF JobPCs
  <2> QED BY <1>1, <2>1 DEF InPass
<1>3. job' = [pc |-> job'.pc, req |-> job'.req, left |-> job'.left, found |-> job'.found,
              used |-> job'.used, blocks |-> job'.blocks]
  OBVIOUS
<1>4. /\ DOMAIN resources' = Ids /\ edits' \in 0..MaxEdits
      /\ \A id \in Ids : resources'[id] # None => IsVersion(resources'[id])
  BY DEF AssemblyInv, AssemblyTyped
<1> QED BY <1>2, <1>3, <1>4, AssemblyNext

\* The rows of a pass are remembered while others write to the table.
LEMMA EditKeeps ==
  ASSUME AssemblyInv, EditNext
  PROVE  AssemblyInv'
<1>1. PICK id \in Ids, v \in Versions \cup {None} : Written(id, v) /\ (v # None => IsVersion(v))
  BY AssemblyAssumption DEF EditNext, SaveResource, DeleteResource
<1>2. /\ edits < MaxEdits /\ edits' = edits + 1 /\ job' = job
      /\ resources' = [resources EXCEPT ![id] = v]
      /\ since' = IF InPass /\ v # None THEN since \cup {<<id, v>>} ELSE since
  BY <1>1 DEF Written
<1>3. AssemblyTyped
  BY DEF AssemblyInv
<1>4. DOMAIN resources' = Ids /\ \A k \in Ids : resources'[k] = IF k = id THEN v ELSE resources[k]
  BY <1>2, <1>3 DEF AssemblyTyped
<1>5. edits' \in 0..MaxEdits
  BY <1>2, <1>3, AssemblyAssumption DEF AssemblyTyped
<1>6. \A k \in Ids : resources'[k] # None => IsVersion(resources'[k])
  BY <1>1, <1>3, <1>4 DEF AssemblyTyped
<1>7. InPass' <=> InPass
  BY <1>2 DEF InPass
<1>8. ASSUME InPass
      PROVE  /\ \A k \in Ids : resources'[k] # None => <<k, resources'[k]>> \in since'
             /\ UsedInv(job', since') /\ FoundInv(job')
             /\ \E m \in 0..Len(Loads(job'.req)), q \in 0..Len(job'.left) : PassAt(job', m, q)
  <2>1. /\ \A k \in Ids : resources[k] # None => <<k, resources[k]>> \in since
        /\ UsedInv(job, since) /\ FoundInv(job)
        /\ \E m \in 0..Len(Loads(job.req)), q \in 0..Len(job.left) : PassAt(job, m, q)
    BY <1>8 DEF AssemblyInv, PassInv
  <2>2. \A k \in Ids : resources'[k] # None => <<k, resources'[k]>> \in since'
    BY <1>2, <1>4, <1>8, <2>1
  <2>3. UsedInv(job, since')
    BY <1>2, <2>1 DEF UsedInv
  <2> QED BY <1>2, <2>1, <2>2, <2>3
<1>9. /\ job.pc \in JobPCs
      /\ job = [pc |-> job.pc, req |-> job.req, left |-> job.left, found |-> job.found,
                used |-> job.used, blocks |-> job.blocks]
      /\ InPass \/ job.pc = "queued" => GoodRequest(job.req)
      /\ ~InPass => job.used = {}
  BY <1>3 DEF AssemblyTyped
<1> QED BY <1>2, <1>4, <1>5, <1>6, <1>7, <1>8, <1>9, AssemblyNext

\* A skill, a subagent or a server a subagent links to is no server of the request.
LEMMA FoundOther ==
  ASSUME NEW j, NEW k, NEW y, FoundInv(j), y.part # "mcp_server",
         k.req = j.req, k.found = j.found, k.used = j.used \cup {y}
  PROVE  FoundInv(k)
<1>1. {x \in k.used : x.part = "mcp_server"} = {x \in j.used : x.part = "mcp_server"}
  OBVIOUS
<1>2. DOMAIN k.found = {x.version.label : x \in {x \in k.used : x.part = "mcp_server"}}
  BY <1>1 DEF FoundInv
<1>3. ASSUME NEW n \in DOMAIN k.found
      PROVE  \E i \in 1..Len(k.req.mcp_server) :
               /\ \E x \in k.used : /\ Loaded(k, i, x) /\ x.version.label = n
                                    /\ k.found[n] = x.version.config
               /\ \A h \in 1..Len(k.req.mcp_server) :
                    (\E x \in k.used : Loaded(k, h, x) /\ x.version.label = n) => h <= i
  <2>1. PICK i \in 1..Len(j.req.mcp_server) :
          /\ \E x \in j.used : /\ Loaded(j, i, x) /\ x.version.label = n
                               /\ j.found[n] = x.version.config
          /\ \A h \in 1..Len(j.req.mcp_server) :
               (\E x \in j.used : Loaded(j, h, x) /\ x.version.label = n) => h <= i
    BY DEF FoundInv
  <2>2. \A h, x : Loaded(k, h, x) <=> Loaded(j, h, x)
    BY DEF Loaded
  <2>3. \A h : ~Loaded(j, h, y)
    BY DEF Loaded
  <2> QED BY <2>1, <2>2, <2>3
<1> QED BY <1>2, <1>3 DEF FoundInv

\* The server loaded last is found under its name, whatever was there before.
LEMMA FoundServer ==
  ASSUME NEW j, NEW k, NEW y, FoundInv(j), y.part = "mcp_server",
         Len(j.req.mcp_server) \in Nat, NEW p \in 1..Len(j.req.mcp_server),
         y.id = j.req.mcp_server[p],
         \A i, h \in 1..Len(j.req.mcp_server) :
           j.req.mcp_server[i] = j.req.mcp_server[h] => i = h,
         \A x \in j.used : x.part = "mcp_server" =>
           \E i \in 1..(p - 1) : x.id = j.req.mcp_server[i],
         k.req = j.req, k.used = j.used \cup {y},
         k.found = Over([n \in {y.version.label} |-> y.version.config], j.found)
  PROVE  FoundInv(k)
<1>1. {x \in k.used : x.part = "mcp_server"} = {x \in j.used : x.part = "mcp_server"} \cup {y}
  OBVIOUS
<1>2. /\ DOMAIN k.found = {y.version.label} \cup DOMAIN j.found
      /\ \A n \in DOMAIN k.found :
           k.found[n] = IF n = y.version.label THEN y.version.config ELSE j.found[n]
  BY DEF Over
<1>3. DOMAIN k.found = {x.version.label : x \in {x \in k.used : x.part = "mcp_server"}}
  <2> DEFINE S == {x \in j.used : x.part = "mcp_server"}
  <2>1. DOMAIN j.found = {x.version.label : x \in S}
    BY DEF FoundInv
  <2>2. {x \in k.used : x.part = "mcp_server"} = S \cup {y}
    BY <1>1
  <2> HIDE DEF S
  <2>3. {x.version.label : x \in S \cup {y}} = {y.version.label} \cup {x.version.label : x \in S}
    OBVIOUS
  <2> QED BY <1>2, <2>1, <2>2, <2>3
<1>4. \A h, x : Loaded(k, h, x) <=> Loaded(j, h, x)
  BY DEF Loaded
<1>5. Loaded(j, p, y)
  BY DEF Loaded
<1>6. \A h \in 1..Len(j.req.mcp_server) : Loaded(j, h, y) => h = p
  BY DEF Loaded
<1>7. ASSUME NEW h \in 1..Len(j.req.mcp_server), NEW x \in j.used, Loaded(j, h, x)
      PROVE  h <= p
  <2>1. x.part = "mcp_server" /\ x.id = j.req.mcp_server[h]
    BY <1>7 DEF Loaded
  <2>2. PICK i \in 1..(p - 1) : x.id = j.req.mcp_server[i]
    BY <2>1
  <2>3. i \in 1..Len(j.req.mcp_server) /\ i <= p
    OBVIOUS
  <2>4. i = h
    BY <2>1, <2>2, <2>3
  <2> QED BY <2>3, <2>4
<1>8. ASSUME NEW n \in DOMAIN k.found
      PROVE  \E i \in 1..Len(k.req.mcp_server) :
               /\ \E x \in k.used : /\ Loaded(k, i, x) /\ x.version.label = n
                                    /\ k.found[n] = x.version.config
               /\ \A h \in 1..Len(k.req.mcp_server) :
                    (\E x \in k.used : Loaded(k, h, x) /\ x.version.label = n) => h <= i
  <2>1. CASE n = y.version.label
    <3>1. /\ y \in k.used /\ Loaded(k, p, y) /\ y.version.label = n
          /\ k.found[n] = y.version.config
      BY <1>2, <1>4, <1>5, <2>1
    <3>2. ASSUME NEW h \in 1..Len(k.req.mcp_server), NEW x \in k.used, Loaded(k, h, x)
          PROVE  h <= p
      <4>1. CASE x = y
        <5>1. h = p
          BY <1>4, <1>6, <3>2, <4>1
        <5> QED BY <5>1
      <4>2. CASE x \in j.used
        BY <1>4, <1>7, <3>2, <4>2
      <4> QED BY <4>1, <4>2
    <3>3. p \in 1..Len(k.req.mcp_server)
      OBVIOUS
    <3> QED BY <3>1, <3>2, <3>3
  <2>2. CASE n # y.version.label
    <3>1. n \in DOMAIN j.found /\ k.found[n] = j.found[n]
      BY <1>2, <2>2
    <3>2. PICK i \in 1..Len(j.req.mcp_server) :
            /\ \E x \in j.used : /\ Loaded(j, i, x) /\ x.version.label = n
                                 /\ j.found[n] = x.version.config
            /\ \A h \in 1..Len(j.req.mcp_server) :
                 (\E x \in j.used : Loaded(j, h, x) /\ x.version.label = n) => h <= i
      BY <3>1 DEF FoundInv
    <3> QED BY <1>4, <2>2, <3>1, <3>2
  <2> QED BY <2>1, <2>2
<1> QED BY <1>3, <1>8 DEF FoundInv

\* A server a subagent links to is loaded before the request goes on.
LEMMA PassLink ==
  ASSUME NEW j, NEW k, NEW m, NEW q, GoodRequest(j.req), PassAt(j, m, q), q > 0,
         NEW y, y.part = "link", y.id = j.left[1].id,
         k.req = j.req, k.left = Tail(j.left), k.used = j.used \cup {y}, k.blocks = j.blocks
  PROVE  PassAt(k, m, q - 1)
<1> DEFINE F == Loads(j.req)
           N == Len(F)
           A == Len(j.req.mcp_server)
<1>1. N \in Nat /\ A \in Nat /\ F \in Seq(LoadItems)
  <2>1. F \in Seq(LoadItems) /\ A \in Nat
    BY LoadsAre
  <2> QED BY <2>1
<1>2. /\ m \in 0..N /\ q \in Nat
      /\ j.left \in Seq(LoadItems) /\ Len(j.left) = q + (N - m)
      /\ \A i \in 1..q : j.left[i].part = "link"
      /\ \A i \in 1..(N - m) : j.left[q + i] = F[m + i]
      /\ \A i \in 1..m : \E x \in j.used : x.id = F[i].id /\ x.part = F[i].part
      /\ \A x \in j.used : x.part # "link" => \E i \in 1..m : x.id = F[i].id /\ x.part = F[i].part
      /\ \A x \in j.used : x.part = "subagent" =>
           \A i \in 1..Len(x.version.links) :
             \/ \E z \in j.used : z.part = "link" /\ z.id = x.version.links[i]
             \/ \E h \in 1..q : j.left[h].id = x.version.links[i]
      /\ j.blocks \in Seq(Blocks) /\ Len(j.blocks) = IF m <= A THEN 0 ELSE m - A
      /\ \A i \in 1..Len(j.blocks) : j.blocks[i] \in Given(F[A + i])
  BY DEF PassAt
<1> HIDE DEF F, N, A
<1>3. /\ k.left \in Seq(LoadItems) /\ Len(k.left) = Len(j.left) - 1
      /\ \A i \in 1..Len(k.left) : k.left[i] = j.left[i + 1]
  <2>1. j.left # <<>>
    BY <1>1, <1>2
  <2>2. /\ Tail(j.left) \in Seq(LoadItems) /\ Len(Tail(j.left)) = Len(j.left) - 1
        /\ \A i \in 1..Len(Tail(j.left)) : Tail(j.left)[i] = j.left[i + 1]
    BY <1>2, <2>1, HeadTailProperties
  <2> QED BY <2>2
<1>4. q - 1 \in Nat /\ Len(k.left) = (q - 1) + (N - m)
  BY <1>1, <1>2, <1>3
<1> DEFINE K == Len(k.left)
<1> HIDE DEF K
<1>5. K = (q - 1) + (N - m) /\ N - m \in Nat /\ K \in Nat /\ q \in Nat
  <2>1. m \in 0..N /\ q \in Nat
    BY <1>2
  <2>2. K = (q - 1) + (N - m) /\ q - 1 \in Nat
    BY <1>4 DEF K
  <2> QED BY <1>1, <2>1, <2>2
<1>6. ASSUME NEW i \in 1..(q - 1) PROVE k.left[i].part = "link"
  <2>1. i \in 1..K /\ i + 1 \in 1..q
    BY <1>5
  <2> QED BY <1>2, <1>3, <2>1 DEF K
<1>7. ASSUME NEW i \in 1..(N - m) PROVE k.left[(q - 1) + i] = F[m + i]
  <2>1. (q - 1) + i \in 1..K /\ ((q - 1) + i) + 1 = q + i
    BY <1>5
  <2> QED BY <1>2, <1>3, <2>1 DEF K
<1>8. ASSUME NEW x \in k.used, x.part = "subagent", NEW i \in 1..Len(x.version.links)
      PROVE  \/ \E z \in k.used : z.part = "link" /\ z.id = x.version.links[i]
             \/ \E h \in 1..(q - 1) : k.left[h].id = x.version.links[i]
  <2>1. x \in j.used /\ y \in k.used
    BY <1>8
  <2>2. CASE \E z \in j.used : z.part = "link" /\ z.id = x.version.links[i]
    BY <2>2
  <2>3. ASSUME NEW h \in 1..q, j.left[h].id = x.version.links[i]
        PROVE  \/ \E z \in k.used : z.part = "link" /\ z.id = x.version.links[i]
               \/ \E g \in 1..(q - 1) : k.left[g].id = x.version.links[i]
    <3>1. CASE h = 1
      BY <2>1, <2>3, <3>1
    <3>2. CASE h # 1
      <4>1. h - 1 \in 1..(q - 1) /\ h - 1 \in 1..K /\ (h - 1) + 1 = h
        BY <1>5, <3>2
      <4> QED BY <1>3, <2>3, <4>1 DEF K
    <3> QED BY <3>1, <3>2
  <2> QED BY <1>2, <1>8, <2>1, <2>2, <2>3
<1>9. /\ \A i \in 1..m : \E x \in k.used : x.id = F[i].id /\ x.part = F[i].part
      /\ \A x \in k.used : x.part # "link" => \E i \in 1..m : x.id = F[i].id /\ x.part = F[i].part
  BY <1>2
<1>10. Loads(k.req) = F /\ Len(F) = N /\ Len(k.req.mcp_server) = A
  BY DEF F, N, A
<1>11. /\ m \in 0..N
       /\ k.blocks \in Seq(Blocks) /\ Len(k.blocks) = IF m <= A THEN 0 ELSE m - A
       /\ \A i \in 1..Len(k.blocks) : k.blocks[i] \in Given(F[A + i])
  BY <1>2
<1>12. k.left \in Seq(LoadItems)
  BY <1>3
<1> QED BY <1>4, <1>6, <1>7, <1>8, <1>9, <1>10, <1>11, <1>12 DEF PassAt

\* The next load of the request, and the links it brings in before the others.
LEMMA PassLoad ==
  ASSUME NEW j, NEW k, NEW m, GoodRequest(j.req), PassAt(j, m, 0), m < Len(Loads(j.req)),
         NEW y, y.id = Loads(j.req)[m + 1].id, y.part = Loads(j.req)[m + 1].part,
         NEW l \in Seq(LoadItems), \A i \in 1..Len(l) : l[i].part = "link",
         y.part = "subagent" => /\ Len(y.version.links) = Len(l)
                                /\ \A i \in 1..Len(l) : l[i].id = y.version.links[i],
         k.req = j.req, k.left = l \o Tail(j.left), k.used = j.used \cup {y},
         NEW block \in Given(y),
         k.blocks = IF y.part \in {"skill", "subagent"} THEN Append(j.blocks, block) ELSE j.blocks
  PROVE  PassAt(k, m + 1, Len(l))
<1> DEFINE F == Loads(j.req)
           N == Len(F)
           A == Len(j.req.mcp_server)
           q == Len(l)
<1>1. N \in Nat /\ A \in Nat /\ F \in Seq(LoadItems) /\ q \in Nat
  <2>1. F \in Seq(LoadItems) /\ A \in Nat
    BY LoadsAre
  <2> QED BY <2>1
<1>2. /\ m \in 0..N
      /\ j.left \in Seq(LoadItems) /\ Len(j.left) = N - m
      /\ \A i \in 1..(N - m) : j.left[i] = F[m + i]
      /\ \A i \in 1..m : \E x \in j.used : x.id = F[i].id /\ x.part = F[i].part
      /\ \A x \in j.used : x.part # "link" => \E i \in 1..m : x.id = F[i].id /\ x.part = F[i].part
      /\ \A x \in j.used : x.part = "subagent" =>
           \A i \in 1..Len(x.version.links) :
             \E z \in j.used : z.part = "link" /\ z.id = x.version.links[i]
      /\ j.blocks \in Seq(Blocks) /\ Len(j.blocks) = IF m <= A THEN 0 ELSE m - A
      /\ \A i \in 1..Len(j.blocks) : j.blocks[i] \in Given(F[A + i])
  <2>1. /\ m \in 0..N /\ j.left \in Seq(LoadItems) /\ Len(j.left) = 0 + (N - m)
        /\ \A i \in 1..(N - m) : j.left[0 + i] = F[m + i]
        /\ \A x \in j.used : x.part = "subagent" =>
             \A i \in 1..Len(x.version.links) :
               \/ \E z \in j.used : z.part = "link" /\ z.id = x.version.links[i]
               \/ \E h \in 1..0 : j.left[h].id = x.version.links[i]
    BY DEF PassAt
  <2>2. /\ \A i \in 1..m : \E x \in j.used : x.id = F[i].id /\ x.part = F[i].part
        /\ \A x \in j.used :
             x.part # "link" => \E i \in 1..m : x.id = F[i].id /\ x.part = F[i].part
        /\ j.blocks \in Seq(Blocks) /\ Len(j.blocks) = IF m <= A THEN 0 ELSE m - A
        /\ \A i \in 1..Len(j.blocks) : j.blocks[i] \in Given(F[A + i])
    BY DEF PassAt
  <2> HIDE DEF F, N, A
  <2>3. \A i \in 1..(N - m) : 0 + i = i
    BY <1>1, <2>1
  <2>4. Len(j.left) = N - m
    BY <1>1, <2>1
  <2>5. 1..0 = {}
    OBVIOUS
  <2> QED BY <2>1, <2>2, <2>3, <2>4, <2>5
<1>3. m < N /\ m + 1 \in 1..N /\ m \in Nat /\ N - m \in Nat /\ N - (m + 1) \in Nat
  BY <1>1, <1>2
<1>4. F[m + 1].part \in Parts /\ F[m + 1].id \in Ids
      /\ (m + 1 <= A <=> F[m + 1].part = "mcp_server")
  BY <1>3, LoadAt DEF LoadItems
<1>5. y.id = F[m + 1].id /\ y.part = F[m + 1].part /\ y.id \in Ids /\ y.part \in Parts
  BY <1>4
<1> HIDE DEF F, N, A, q
<1>6. /\ Tail(j.left) \in Seq(LoadItems) /\ Len(Tail(j.left)) = Len(j.left) - 1
      /\ \A i \in 1..Len(Tail(j.left)) : Tail(j.left)[i] = j.left[i + 1]
  <2>1. j.left # <<>>
    BY <1>1, <1>2, <1>3
  <2> QED BY <1>2, <2>1, HeadTailProperties
<1> DEFINE t == Tail(j.left)
<1>7. l \o t \in Seq(LoadItems) /\ Len(l \o t) = Len(l) + Len(t)
      /\ \A i \in 1..(Len(l) + Len(t)) : (l \o t)[i] = IF i <= Len(l) THEN l[i] ELSE t[i - Len(l)]
  <2>1. t \in Seq(LoadItems)
    BY <1>6
  <2> HIDE DEF t
  <2> QED BY <2>1, ConcatProperties
<1> HIDE DEF t
<1>8. Len(l) = q /\ Len(t) = N - (m + 1)
  BY <1>1, <1>2, <1>3, <1>6 DEF q, t
<1>9. /\ k.left \in Seq(LoadItems) /\ Len(k.left) = q + (N - (m + 1))
      /\ \A i \in 1..(q + (N - (m + 1))) : k.left[i] = IF i <= q THEN l[i] ELSE t[i - q]
  <2>1. k.left = l \o t
    BY DEF t
  <2> QED BY <1>7, <1>8, <2>1
<1>10. ASSUME NEW i \in 1..q PROVE k.left[i] = l[i] /\ k.left[i].part = "link"
  <2>1. i \in 1..(q + (N - (m + 1))) /\ i <= q
    BY <1>1, <1>3
  <2>2. k.left[i] = l[i]
    BY <1>9, <2>1
  <2>3. i \in 1..Len(l)
    BY <1>8
  <2> QED BY <2>2, <2>3
<1>11. ASSUME NEW i \in 1..(N - (m + 1)) PROVE k.left[q + i] = F[(m + 1) + i]
  <2>1. /\ q + i \in 1..(q + (N - (m + 1))) /\ ~(q + i <= q) /\ (q + i) - q = i
        /\ i \in 1..Len(t) /\ i + 1 \in 1..(N - m) /\ m + (i + 1) = (m + 1) + i
    BY <1>1, <1>2, <1>3, <1>8
  <2>2. k.left[q + i] = t[i]
    BY <1>9, <2>1
  <2>3. t[i] = j.left[i + 1]
    BY <1>6, <2>1 DEF t
  <2>4. j.left[i + 1] = F[m + (i + 1)]
    BY <1>2, <2>1
  <2> QED BY <2>1, <2>2, <2>3, <2>4
<1>12. ASSUME NEW i \in 1..(m + 1)
       PROVE  \E x \in k.used : x.id = F[i].id /\ x.part = F[i].part
  <2>1. CASE i = m + 1
    BY <1>5, <2>1
  <2>2. CASE i # m + 1
    <3>1. i \in 1..m
      BY <1>3, <2>2
    <3>2. PICK x \in j.used : x.id = F[i].id /\ x.part = F[i].part
      BY <1>2, <3>1
    <3> QED BY <3>2
  <2> QED BY <2>1, <2>2
<1>13. ASSUME NEW x \in k.used, x.part # "link"
       PROVE  \E i \in 1..(m + 1) : x.id = F[i].id /\ x.part = F[i].part
  <2>1. CASE x = y
    <3>1. m + 1 \in 1..(m + 1)
      BY <1>3
    <3> QED BY <1>5, <2>1, <3>1
  <2>2. CASE x \in j.used
    <3>1. PICK i \in 1..m : x.id = F[i].id /\ x.part = F[i].part
      BY <1>2, <1>13, <2>2
    <3>2. i \in 1..(m + 1)
      BY <1>3
    <3> QED BY <3>1, <3>2
  <2> QED BY <2>1, <2>2
<1>14. ASSUME NEW x \in k.used, x.part = "subagent", NEW i \in 1..Len(x.version.links)
       PROVE  \/ \E z \in k.used : z.part = "link" /\ z.id = x.version.links[i]
              \/ \E h \in 1..q : k.left[h].id = x.version.links[i]
  <2>1. CASE x = y
    <3>1. Len(x.version.links) = q /\ i \in 1..q /\ i \in 1..Len(l)
      BY <1>8, <1>14, <2>1
    <3>2. l[i].id = x.version.links[i]
      BY <1>14, <2>1, <3>1
    <3> QED BY <1>10, <3>1, <3>2
  <2>2. CASE x \in j.used
    BY <1>2, <1>14, <2>2
  <2> QED BY <2>1, <2>2
<1>15. /\ k.blocks \in Seq(Blocks) /\ Len(k.blocks) = (IF m + 1 <= A THEN 0 ELSE (m + 1) - A)
       /\ \A i \in 1..Len(k.blocks) : k.blocks[i] \in Given(F[A + i])
  <2>1. CASE m + 1 <= A
    <3>1. y.part = "mcp_server" /\ m <= A
      BY <1>1, <1>3, <1>4, <1>5, <2>1
    <3>2. k.blocks = j.blocks
      BY <3>1
    <3>3. Len(j.blocks) = 0
      BY <1>2, <3>1
    <3>4. k.blocks \in Seq(Blocks) /\ Len(k.blocks) = 0
      BY <1>2, <3>2, <3>3
    <3>5. \A i \in 1..Len(k.blocks) : FALSE
      BY <3>4
    <3> QED BY <2>1, <3>4, <3>5
  <2>2. CASE ~(m + 1 <= A)
    <3>1. y.part \in {"skill", "subagent"}
      BY <1>4, <1>5, <2>2 DEF Parts
    <3>2. k.blocks = Append(j.blocks, block) /\ block \in Blocks /\ block \in Given(F[m + 1])
      BY <1>5, <3>1 DEF Given, Blocks
    <3>3. Len(j.blocks) = m - A /\ m - A \in Nat
      <4>1. CASE m = A
        BY <1>2, <1>3, <4>1
      <4>2. CASE m > A
        BY <1>1, <1>2, <1>3, <4>2
      <4> QED BY <1>1, <1>3, <2>2, <4>1, <4>2
    <3>4. /\ Append(j.blocks, block) \in Seq(Blocks)
          /\ Len(Append(j.blocks, block)) = Len(j.blocks) + 1
          /\ \A i \in 1..Len(j.blocks) : Append(j.blocks, block)[i] = j.blocks[i]
          /\ Append(j.blocks, block)[Len(j.blocks) + 1] = block
      BY <1>2, <3>2, AppendProperties
    <3>5. k.blocks \in Seq(Blocks) /\ Len(k.blocks) = (m + 1) - A
      BY <1>1, <1>3, <3>2, <3>3, <3>4
    <3>6. ASSUME NEW i \in 1..Len(k.blocks) PROVE k.blocks[i] \in Given(F[A + i])
      <4>1. CASE i \in 1..Len(j.blocks)
        BY <1>2, <3>2, <3>4, <4>1
      <4>2. CASE i \notin 1..Len(j.blocks)
        <5>1. i = Len(j.blocks) + 1 /\ A + i = m + 1
          BY <1>1, <1>3, <3>3, <3>5, <4>2
        <5> QED BY <3>2, <3>4, <5>1
      <4> QED BY <4>1, <4>2
    <3> QED BY <2>2, <3>5, <3>6
  <2> QED BY <2>1, <2>2
<1>16. m + 1 \in 0..N
  BY <1>1, <1>3
<1>17. PassAt(k, m + 1, q)
  <2>1. Loads(k.req) = F /\ Len(F) = N /\ Len(k.req.mcp_server) = A
    BY DEF F, N, A
  <2>2. /\ m + 1 \in 0..N /\ q \in Nat
        /\ k.left \in Seq(LoadItems) /\ Len(k.left) = q + (N - (m + 1))
        /\ \A i \in 1..q : k.left[i].part = "link"
        /\ \A i \in 1..(N - (m + 1)) : k.left[q + i] = F[(m + 1) + i]
    BY <1>1, <1>9, <1>10, <1>11, <1>16
  <2>3. /\ \A i \in 1..(m + 1) : \E x \in k.used : x.id = F[i].id /\ x.part = F[i].part
        /\ \A x \in k.used :
             x.part # "link" => \E i \in 1..(m + 1) : x.id = F[i].id /\ x.part = F[i].part
    BY <1>12, <1>13
  <2>4. \A x \in k.used : x.part = "subagent" =>
          \A i \in 1..Len(x.version.links) :
            \/ \E z \in k.used : z.part = "link" /\ z.id = x.version.links[i]
            \/ \E h \in 1..q : k.left[h].id = x.version.links[i]
    BY <1>14
  <2> QED BY <1>15, <2>1, <2>2, <2>3, <2>4, ZenonT(60) DEF PassAt
<1> QED BY <1>17 DEF q

\* A load takes a row in force, or does not happen.
LEMMA LoadKeeps ==
  ASSUME AssemblyInv, LoadNext
  PROVE  AssemblyInv'
<1> DEFINE x == Head(job.left)
           v == resources[x.id]
           y == [id |-> x.id, part |-> x.part, version |-> v]
           l == Linked(x, v)
<1>1. /\ InPass /\ job.left # <<>> /\ Usable(x.part, v)
      /\ UNCHANGED <<resources, edits, since>>
  BY DEF LoadNext
<1>2. /\ DOMAIN resources = Ids /\ edits \in 0..MaxEdits
      /\ \A id \in Ids : resources[id] # None => IsVersion(resources[id])
      /\ job = [pc |-> job.pc, req |-> job.req, left |-> job.left, found |-> job.found,
                used |-> job.used, blocks |-> job.blocks]
      /\ job.pc \in JobPCs /\ GoodRequest(job.req)
  BY <1>1 DEF AssemblyInv, AssemblyTyped
<1>3. /\ \A id \in Ids : resources[id] # None => <<id, resources[id]>> \in since
      /\ UsedInv(job, since) /\ FoundInv(job)
  BY <1>1 DEF AssemblyInv, PassInv
<1>4. PICK m \in 0..Len(Loads(job.req)), q \in 0..Len(job.left) : PassAt(job, m, q)
  BY <1>1 DEF AssemblyInv, PassInv
<1>5. /\ job.left \in Seq(LoadItems) /\ m \in Nat /\ q \in Nat
      /\ m \in 0..Len(Loads(job.req)) /\ Len(job.left) = q + (Len(Loads(job.req)) - m)
      /\ \A i \in 1..q : job.left[i].part = "link"
      /\ \A i \in 1..(Len(Loads(job.req)) - m) : job.left[q + i] = Loads(job.req)[m + i]
      /\ \A z \in job.used : z.part # "link" =>
           \E i \in 1..m : z.id = Loads(job.req)[i].id /\ z.part = Loads(job.req)[i].part
  <2>1. /\ m \in 0..Len(Loads(job.req)) /\ q \in Nat /\ job.left \in Seq(LoadItems)
        /\ Len(job.left) = q + (Len(Loads(job.req)) - m)
        /\ \A i \in 1..q : job.left[i].part = "link"
    <3> HIDE DEF x, v, y, l
    <3> QED BY <1>4 DEF PassAt
  <2>2. /\ \A i \in 1..(Len(Loads(job.req)) - m) : job.left[q + i] = Loads(job.req)[m + i]
        /\ \A z \in job.used : z.part # "link" =>
             \E i \in 1..m : z.id = Loads(job.req)[i].id /\ z.part = Loads(job.req)[i].part
    <3> HIDE DEF x, v, y, l
    <3> QED BY <1>4 DEF PassAt
  <2>3. m \in Nat
    BY <2>1
  <2> QED BY <2>1, <2>2, <2>3
<1>6. x \in LoadItems /\ x = job.left[1] /\ Len(job.left) \in Nat /\ Len(job.left) > 0
  BY <1>1, <1>5
<1>7. x.id \in Ids /\ x.part \in Parts \cup {"link"}
  BY <1>6 DEF LoadItems
<1> HIDE DEF x
<1>8. v # None /\ v.enabled /\ IsVersion(v) /\ <<x.id, v>> \in since
  BY <1>1, <1>2, <1>3, <1>7 DEF Usable
<1>9. y.id = x.id /\ y.part = x.part /\ y.version = v
  OBVIOUS
<1>10. PICK block \in Given(x) :
         job' = [pc |-> job.pc, req |-> job.req, left |-> l \o Tail(job.left),
                 found |-> Found(x, v), used |-> job.used \cup {y},
                 blocks |-> IF x.part \in {"skill", "subagent"} THEN Append(job.blocks, block)
                            ELSE job.blocks]
  <2>1. PICK block \in Given(x) : job' = [job EXCEPT
                !.left = Linked(x, v) \o Tail(@),
                !.found = Found(x, v),
                !.blocks = IF x.part \in {"skill", "subagent"} THEN Append(@, block) ELSE @,
                !.used = @ \cup {[id |-> x.id, part |-> x.part, version |-> v]}]
    BY DEF LoadNext, x
  <2>2. job' = [pc |-> job.pc, req |-> job.req, left |-> l \o Tail(job.left),
                found |-> Found(x, v), used |-> job.used \cup {y},
                blocks |-> IF x.part \in {"skill", "subagent"} THEN Append(job.blocks, block)
                           ELSE job.blocks]
    BY <1>2, <2>1
  <2> QED BY <2>2
<1> HIDE DEF v, y
<1>11. /\ l \in Seq(LoadItems)
       /\ \A i \in 1..Len(l) : l[i].part = "link"
       /\ (x.part # "subagent" => l = <<>>)
       /\ (x.part = "subagent" => /\ Len(v.links) = Len(l)
                                  /\ \A i \in 1..Len(l) : l[i].id = v.links[i])
  <2>1. v.links \in Seq(Ids) /\ Len(v.links) \in Nat
    BY <1>8 DEF IsVersion
  <2>2. CASE x.part = "subagent"
    <3>1. l = [i \in 1..Len(v.links) |-> [id |-> v.links[i], part |-> "link"]]
      BY <2>2 DEF Linked
    <3>2. \A i \in 1..Len(v.links) : v.links[i] \in Ids
      BY <2>1
    <3>3. l \in Seq(LoadItems) /\ Len(l) = Len(v.links)
      BY <2>1, <3>1, <3>2 DEF LoadItems
    <3> HIDE DEF l
    <3> QED BY <2>1, <2>2, <3>1, <3>3
  <2>3. CASE x.part # "subagent"
    <3>1. l = <<>>
      BY <2>3 DEF Linked
    <3>2. l \in Seq(LoadItems) /\ Len(l) = 0
      BY <3>1, EmptySeq
    <3> HIDE DEF l
    <3> QED BY <2>3, <3>1, <3>2
  <2> QED BY <2>2, <2>3
<1> HIDE DEF l
<1>12. /\ job'.pc = job.pc /\ job'.req = job.req /\ job'.left = l \o Tail(job.left)
       /\ job'.found = Found(x, v) /\ job'.used = job.used \cup {y}
       /\ job'.blocks = IF x.part \in {"skill", "subagent"} THEN Append(job.blocks, block)
                        ELSE job.blocks
       /\ job' = [pc |-> job'.pc, req |-> job'.req, left |-> job'.left, found |-> job'.found,
                  used |-> job'.used, blocks |-> job'.blocks]
  BY <1>10
<1>13. /\ y.id = x.id /\ y.part = x.part /\ y.version = v
  BY <1>9
<1>14. UsedInv(job', since')
  <2>1. since' = since
    BY <1>1
  <2> QED BY <1>3, <1>7, <1>8, <1>12, <1>13, <2>1 DEF UsedInv
<1> DEFINE N == Len(Loads(job.req))
<1>15. N \in Nat /\ Len(job.req.mcp_server) \in Nat /\ Loads(job.req) \in Seq(LoadItems)
  <2>1. Loads(job.req) \in Seq(LoadItems) /\ Len(job.req.mcp_server) \in Nat
    BY <1>2, LoadsAre
  <2> QED BY <2>1
<1> HIDE DEF N
<1>16. CASE q > 0
  <2>1. x.part = "link"
    <3>1. 1 \in 1..q
      BY <1>16, <1>5
    <3> QED BY <1>5, <1>6, <3>1
  <2>2. /\ job'.left = Tail(job.left) /\ job'.blocks = job.blocks /\ job'.found = job.found
    <3>1. Tail(job.left) \in Seq(LoadItems)
      BY <1>1, <1>5, HeadTailProperties
    <3>2. <<>> \o Tail(job.left) = Tail(job.left)
      BY <3>1, ConcatEmptySeq
    <3>3. l = <<>>
      BY <1>11, <2>1
    <3> QED BY <1>12, <2>1, <3>2, <3>3 DEF Found
  <2>3. PassAt(job', m, q - 1)
    BY <1>2, <1>4, <1>6, <1>12, <1>13, <1>16, <2>1, <2>2, PassLink
  <2>4. FoundInv(job')
    BY <1>3, <1>12, <1>13, <2>1, <2>2, FoundOther
  <2>5. m \in 0..Len(Loads(job'.req)) /\ q - 1 \in 0..Len(job'.left)
    <3>1. Len(job'.left) = (q - 1) + (N - m) /\ q - 1 \in Nat
      BY <1>12, <2>3 DEF PassAt, N
    <3>2. m \in 0..N
      BY <1>5 DEF N
    <3>3. q - 1 \in 0..Len(job'.left)
      BY <1>15, <3>1, <3>2
    <3> QED BY <1>5, <1>12, <3>3
  <2> QED BY <1>1, <1>2, <1>3, <1>12, <1>14, <2>3, <2>4, <2>5, AssemblyNext DEF InPass
<1>17. CASE q = 0
  <2>1. m \in 0..N /\ Len(job.left) = N - m /\ m < N /\ 1 \in 1..(N - m) /\ m + 1 \in 1..N
    <3>1. m \in 0..N /\ Len(job.left) = 0 + (N - m) /\ Len(job.left) > 0
      BY <1>5, <1>6, <1>17 DEF N
    <3> QED BY <1>15, <3>1
  <2>2. x = Loads(job.req)[m + 1]
    <3>1. \A i \in 1..(N - m) : job.left[0 + i] = Loads(job.req)[m + i]
      BY <1>5, <1>17 DEF N
    <3>2. job.left[0 + 1] = Loads(job.req)[m + 1]
      BY <2>1, <3>1
    <3> QED BY <1>6, <3>2
  <2>3. /\ x.part \in Parts
        /\ m + 1 <= Len(job.req.mcp_server) <=> x.part = "mcp_server"
        /\ m + 1 <= Len(job.req.mcp_server) => x.id = job.req.mcp_server[m + 1]
    BY <1>2, <2>1, <2>2, LoadAt DEF N
  <2>4. PassAt(job', m + 1, Len(l))
    <3>1. /\ PassAt(job, m, 0) /\ m < Len(Loads(job.req))
          /\ y.id = Loads(job.req)[m + 1].id /\ y.part = Loads(job.req)[m + 1].part
      BY <1>4, <1>13, <1>17, <2>1, <2>2 DEF N
    <3>2. /\ y.part = "subagent" => /\ Len(y.version.links) = Len(l)
                                    /\ \A i \in 1..Len(l) : l[i].id = y.version.links[i]
          /\ job'.blocks = IF y.part \in {"skill", "subagent"} THEN Append(job.blocks, block)
                           ELSE job.blocks
      BY <1>11, <1>12, <1>13
    <3>3. block \in Given(y)
      BY <1>10, <1>13 DEF Given
    <3> QED BY <1>2, <1>11, <1>12, <3>1, <3>2, <3>3, PassLoad
  <2>5. FoundInv(job')
    <3>1. CASE x.part # "mcp_server"
      <4>1. job'.found = job.found
        BY <1>12, <3>1 DEF Found
      <4> QED BY <1>3, <1>12, <1>13, <3>1, <4>1, FoundOther
    <3>2. CASE x.part = "mcp_server"
      <4>1. m + 1 \in 1..Len(job.req.mcp_server) /\ y.id = job.req.mcp_server[m + 1]
        BY <1>13, <1>15, <2>1, <2>3, <3>2
      <4>2. \A i, h \in 1..Len(job.req.mcp_server) :
              job.req.mcp_server[i] = job.req.mcp_server[h] => i = h
        BY <1>2 DEF GoodRequest, Parts
      <4>3. ASSUME NEW z \in job.used, z.part = "mcp_server"
            PROVE  \E i \in 1..((m + 1) - 1) : z.id = job.req.mcp_server[i]
        <5>1. PICK i \in 1..m :
                z.id = Loads(job.req)[i].id /\ z.part = Loads(job.req)[i].part
          BY <1>5, <4>3
        <5>2. i \in 1..N /\ i \in 1..((m + 1) - 1)
          BY <1>15, <2>1
        <5>3. z.id = job.req.mcp_server[i]
          BY <1>2, <4>3, <5>1, <5>2, LoadAt DEF N
        <5> QED BY <5>2, <5>3
      <4>4. job'.found = Over([n \in {y.version.label} |-> y.version.config], job.found)
        BY <1>12, <1>13, <3>2 DEF Found
      <4>5. job'.req = job.req /\ job'.used = job.used \cup {y} /\ y.part = "mcp_server"
        BY <1>12, <1>13, <3>2
      <4>6. FoundInv(job) /\ Len(job.req.mcp_server) \in Nat
        BY <1>3, <1>15
      <4>7. \A z \in job.used : z.part = "mcp_server" =>
              \E i \in 1..((m + 1) - 1) : z.id = job.req.mcp_server[i]
        BY <4>3
      <4> QED BY <4>1, <4>2, <4>4, <4>5, <4>6, <4>7, FoundServer, ZenonT(30)
    <3> QED BY <3>1, <3>2
  <2>6. m + 1 \in 0..Len(Loads(job'.req)) /\ Len(l) \in 0..Len(job'.left)
    <3>1. Len(job'.left) = Len(l) + (N - (m + 1)) /\ Len(l) \in Nat
      BY <1>12, <2>4 DEF PassAt, N
    <3>2. Len(l) \in 0..Len(job'.left) /\ m + 1 \in 0..N
      BY <1>15, <2>1, <3>1
    <3> QED BY <1>12, <3>2 DEF N
  <2> QED BY <1>1, <1>2, <1>3, <1>12, <1>14, <2>4, <2>5, <2>6, AssemblyNext DEF InPass
<1> QED BY <1>5, <1>16, <1>17

\* Before a request there is no pass.
LEMMA AssemblyStarts ==
  ASSUME Init
  PROVE  AssemblyInv
<1>1. resources = Stored /\ edits = 0 /\ job = NoJob
  BY DEF Init
<1>2. job.pc = "none" /\ job.used = {} /\ ~InPass
  BY <1>1 DEF NoJob, InPass
<1>3. AssemblyTyped
  BY <1>1, <1>2, AssemblyAssumption DEF AssemblyTyped, JobPCs, NoJob
<1> QED BY <1>2, <1>3 DEF AssemblyInv, PassInv

\* A step of the rest of the process.
LEMMA AssemblySame ==
  ASSUME AssemblyInv, UNCHANGED assemblyVars
  PROVE  AssemblyInv'
<1>1. UNCHANGED <<resources, edits, since, job>> /\ (InPass' <=> InPass)
  BY DEF assemblyVars, InPass
<1>2. AssemblyTyped /\ PassInv
  BY DEF AssemblyInv
<1>3. /\ DOMAIN resources' = Ids
      /\ \A id \in Ids : resources'[id] # None => IsVersion(resources'[id])
      /\ edits' \in 0..MaxEdits
      /\ job' = [pc |-> job'.pc, req |-> job'.req, left |-> job'.left, found |-> job'.found,
                 used |-> job'.used, blocks |-> job'.blocks]
      /\ job'.pc \in JobPCs
      /\ InPass' \/ job'.pc = "queued" => GoodRequest(job'.req)
      /\ ~InPass' => job'.used = {}
  BY <1>1, <1>2 DEF AssemblyTyped
<1>4. InPass' =>
        /\ \A id \in Ids : resources'[id] # None => <<id, resources'[id]>> \in since'
        /\ UsedInv(job', since') /\ FoundInv(job')
        /\ \E m \in 0..Len(Loads(job'.req)), q \in 0..Len(job'.left) : PassAt(job', m, q)
  BY <1>1, <1>2 DEF PassInv
<1> QED BY <1>3, <1>4, AssemblyNext

\* A request that is refused, or ends, leaves nothing of its pass.
LEMMA PassDropped ==
  ASSUME AssemblyInv, UNCHANGED <<resources, edits>>,
         NEW pc \in {"ready", "answered", "refused", "failed"},
         job' = [NoJob EXCEPT !.pc = pc]
  PROVE  AssemblyInv'
<1>1. job' = [pc |-> pc, req |-> None, left |-> <<>>, found |-> <<>>,
              used |-> {}, blocks |-> <<>>]
  BY DEF NoJob
<1>2. pc # "queued" /\ pc \in {"queued", "ready", "answered", "refused", "failed"}
  OBVIOUS
<1> QED BY <1>1, <1>2, PassEnds

\* Every step of the specification.
LEMMA AssemblyStep ==
  ASSUME AssemblyInv, [Next]_vars
  PROVE  AssemblyInv'
<1>1. CASE UNCHANGED assemblyVars
  BY <1>1, AssemblySame
<1>2. CASE Registry \/ Stop \/ Cancel \/ StreamAnswered \/ Call \/ Loop \/ Stream
  <2>1. UNCHANGED assemblyVars
    BY <1>2 DEF Registry, Stop, Cancel, StreamAnswered, Call, Loop, Stream
  <2> QED BY <1>1, <2>1
<1>3. ASSUME NEW name, Resolve(name) PROVE AssemblyInv'
  <2>1. UNCHANGED assemblyVars
    BY <1>3 DEF Resolve
  <2> QED BY <1>1, <2>1
<1>4. CASE Edit
  BY <1>4, EditKeeps DEF Edit
<1>5. CASE StartRun
  <2>1. job' = [NoJob EXCEPT !.pc = "ready"] /\ UNCHANGED <<resources, edits>>
    BY <1>5 DEF StartRun, Assembled, Built
  <2> QED BY <2>1, PassDropped
<1>6. CASE Preview
  <2>1. job' = [NoJob EXCEPT !.pc = "answered"] /\ UNCHANGED <<resources, edits>>
    BY <1>6 DEF Preview, Previewed, Built
  <2> QED BY <2>1, PassDropped
<1>7. CASE PassNext
  <2>1. CASE LoadNext
    BY <2>1, LoadKeeps
  <2>2. CASE PassFails
    <3>1. PICK pc \in {"failed", "refused"} :
            job' = [NoJob EXCEPT !.pc = pc] /\ UNCHANGED <<resources, edits>>
      BY <2>2 DEF PassFails
    <3> QED BY <3>1, PassDropped
  <2>3. CASE Validated
    <3>1. job.pc = "validating" /\ UNCHANGED <<resources, edits>>
      BY <2>3 DEF Validated
    <3>2. GoodRequest(job.req)
      BY <3>1 DEF AssemblyInv, AssemblyTyped, InPass
    <3>3. CASE job' = [NoJob EXCEPT !.pc = "queued", !.req = job.req]
      <4>1. job' = [pc |-> "queued", req |-> job.req, left |-> <<>>, found |-> <<>>,
                    used |-> {}, blocks |-> <<>>]
        BY <3>3 DEF NoJob
      <4> QED BY <3>1, <3>2, <4>1, PassEnds
    <3>4. CASE job' = [NoJob EXCEPT !.pc = "answered"]
      BY <3>1, <3>4, PassDropped
    <3> QED BY <2>3, <3>3, <3>4 DEF Validated
  <2>4. CASE TurnComes
    <3>1. GoodRequest(job.req) /\ Begin("assembling", job.req)
      BY <2>4 DEF TurnComes, AssemblyInv, AssemblyTyped
    <3> QED BY <3>1, PassBegins
  <2>5. CASE WaitEnds
    <3>1. job' = [NoJob EXCEPT !.pc = "failed"] /\ UNCHANGED <<resources, edits>>
      BY <2>5 DEF WaitEnds
    <3> QED BY <3>1, PassDropped
  <2> QED BY <1>7, <2>1, <2>2, <2>3, <2>4, <2>5 DEF PassNext
<1>8. ASSUME NEW r \in Requests, Post(r) \/ Peek(r) PROVE AssemblyInv'
  <2>1. \/ \E pc \in {"validating", "previewing"} : Begin(pc, Sanitized(r))
        \/ job' = [NoJob EXCEPT !.pc = "refused"] /\ UNCHANGED <<resources, edits>>
    BY <1>8 DEF Post, Peek
  <2>2. GoodRequest(Sanitized(r))
    BY SanitizedIsGood
  <2> QED BY <2>1, <2>2, PassBegins, PassDropped
<1>9. CASE UNCHANGED vars
  BY <1>1, <1>9 DEF vars
<1> QED BY <1>2, <1>3, <1>4, <1>5, <1>6, <1>7, <1>8, <1>9 DEF Next, Pass

\* An agent is built when its pass is over, by StartRun or by Preview.
LEMMA BuiltWhen ==
  ASSUME AssemblyTyped, [Next]_vars,
         \/ job.pc = "assembling" /\ job'.pc = "ready"
         \/ job.pc = "previewing" /\ job'.pc = "answered"
  PROVE  /\ InPass /\ job.left = <<>> /\ servers' = Merged
         /\ offered' \in {Offered(job.req), Filtered(job.req)}
<1>1. CASE StartRun
  BY <1>1 DEF StartRun, Assembled, Built, InPass
<1>2. CASE Preview
  BY <1>2 DEF Preview, Previewed, Built, InPass
<1>3. job' # job
  OBVIOUS
<1>4. ~(Registry \/ Stop \/ Cancel \/ StreamAnswered \/ Call \/ Loop \/ Stream)
  BY <1>3 DEF Registry, Stop, Cancel, StreamAnswered, Call, Loop, Stream, assemblyVars
<1>5. ~UNCHANGED vars /\ \A name : ~Resolve(name)
  BY <1>3 DEF vars, Resolve, assemblyVars
<1>6. ~Edit
  BY <1>3 DEF Edit, EditNext, SaveResource, DeleteResource, Written
<1>7. job = [pc |-> job.pc, req |-> job.req, left |-> job.left, found |-> job.found,
             used |-> job.used, blocks |-> job.blocks]
  BY DEF AssemblyTyped
<1>8. ~Pass
  <2>1. ASSUME NEW r, Post(r) \/ Peek(r) PROVE FALSE
    BY <2>1 DEF Post, Peek
  <2>2. ~LoadNext
    <3>1. ASSUME LoadNext PROVE job'.pc = job.pc
      <4> DEFINE x == Head(job.left)
                 v == resources[x.id]
      <4>1. PICK block \in Given(x) : job' = [job EXCEPT
              !.left = Linked(x, v) \o Tail(@),
              !.found = Found(x, v),
              !.blocks = IF x.part \in {"skill", "subagent"} THEN Append(@, block) ELSE @,
              !.used = @ \cup {[id |-> x.id, part |-> x.part, version |-> v]}]
        BY <3>1 DEF LoadNext
      <4> HIDE DEF x, v
      <4> QED BY <1>7, <4>1
    <3> QED BY <3>1
  <2>3. ~PassFails /\ ~Validated /\ ~WaitEnds
    BY DEF PassFails, Validated, WaitEnds, NoJob
  <2>4. ~TurnComes
    BY DEF TurnComes
  <2> QED BY <2>1, <2>2, <2>3, <2>4 DEF Pass, PassNext
<1> QED BY <1>1, <1>2, <1>4, <1>5, <1>6, <1>8 DEF Next

\* Of the places of the servers of one name, the last is the greatest.
LEMMA LastOf ==
  ASSUME NEW S, S \subseteq Int, NEW i \in S, \A k \in S : k <= i
  PROVE  Max(S) = i
<1>1. i \in S /\ \A y \in S : i >= y
  OBVIOUS
<1> DEFINE c == CHOOSE x \in S : \A y \in S : x >= y
<1>2. c \in S /\ \A y \in S : c >= y
  BY <1>1
<1> HIDE DEF c
<1>3. c = i
  BY <1>1, <1>2
<1> QED BY <1>3 DEF Max, c

\* When a pass is over, what it has found is what was asked for.
LEMMA PassIsFaithful ==
  ASSUME AssemblyInv, InPass, job.left = <<>>, servers' = Merged,
         offered' \in {Offered(job.req), Filtered(job.req)}
  PROVE  AsAsked
<1> DEFINE r == job.req
           Of(p, id) == {x \in job.used : x.part = p /\ x.id = id}
           Named(n) == {i \in 1..Len(r.mcp_server) :
                         \E x \in Of("mcp_server", r.mcp_server[i]) : x.version.label = n}
           Chosen(n) == IF Named(n) = {} THEN {DefaultServers[n]}
                        ELSE {x.version.config :
                                x \in Of("mcp_server", r.mcp_server[Max(Named(n))])}
           F == Loads(r)
           N == Len(F)
           A == Len(r.mcp_server)
           B == Len(r.skill)
           C == Len(r.subagent)
<1>1. GoodRequest(r) /\ UsedInv(job, since) /\ FoundInv(job)
  BY DEF AssemblyInv, AssemblyTyped, PassInv
<1>2. /\ A \in Nat /\ B \in Nat /\ C \in Nat /\ N = A + B + C /\ F \in Seq(LoadItems)
      /\ r.skill \in Seq(Ids) /\ r.subagent \in Seq(Ids)
      /\ \A i \in 1..A : F[i] = [id |-> r.mcp_server[i], part |-> "mcp_server"]
      /\ \A i \in 1..B : F[A + i] = [id |-> r.skill[i], part |-> "skill"]
      /\ \A i \in 1..C : F[A + B + i] = [id |-> r.subagent[i], part |-> "subagent"]
  <2> HIDE DEF F, N, A, B, C
  <2> QED BY <1>1, LoadsAre DEF F, N, A, B, C, r
<1>3. PICK m \in 0..N, q \in 0..Len(job.left) : PassAt(job, m, q)
  BY DEF AssemblyInv, PassInv
<1>4. q = 0 /\ m = N
  <2>1. m \in 0..N /\ q \in Nat /\ Len(job.left) = q + (N - m) /\ Len(job.left) = 0
    BY <1>3 DEF PassAt
  <2> HIDE DEF F, N, A, B, C
  <2> QED BY <1>2, <2>1
<1>5. /\ \A i \in 1..N : \E x \in job.used : x.id = F[i].id /\ x.part = F[i].part
      /\ \A x \in job.used : x.part = "subagent" =>
           \A i \in 1..Len(x.version.links) :
             \E y \in job.used : y.part = "link" /\ y.id = x.version.links[i]
      /\ job.blocks \in Seq(Blocks) /\ Len(job.blocks) = IF N <= A THEN 0 ELSE N - A
      /\ \A i \in 1..Len(job.blocks) : job.blocks[i] \in Given(F[A + i])
  <2>1. PassAt(job, N, 0)
    BY <1>3, <1>4
  <2>2. 1..0 = {}
    OBVIOUS
  <2> QED BY <2>1, <2>2 DEF PassAt
<1>6. /\ DOMAIN servers' = DOMAIN job.found \cup DOMAIN DefaultServers
      /\ \A n \in DOMAIN servers' :
           servers'[n] = IF n \in DOMAIN job.found THEN job.found[n] ELSE DefaultServers[n]
  BY DEF Merged, Over
<1> HIDE DEF F, N, A, B, C
<1>7. ASSUME NEW p \in Parts, NEW i \in 1..Len(r[p]) PROVE Of(p, r[p][i]) # {}
  <2>1. \E k \in 1..N : F[k].id = r[p][i] /\ F[k].part = p
    <3>1. CASE p = "mcp_server"
      <4>1. i \in 1..A /\ i \in 1..N
        BY <1>2, <3>1 DEF A
      <4>2. F[i] = [id |-> r.mcp_server[i], part |-> "mcp_server"]
        BY <1>2, <4>1
      <4> QED BY <3>1, <4>1, <4>2
    <3>2. CASE p = "skill"
      <4>1. i \in 1..B /\ A + i \in 1..N
        <5>1. i \in 1..B
          BY <3>2 DEF B
        <5> QED BY <1>2, <5>1
      <4>2. F[A + i] = [id |-> r.skill[i], part |-> "skill"]
        BY <1>2, <4>1
      <4> QED BY <3>2, <4>1, <4>2
    <3>3. CASE p = "subagent"
      <4>1. i \in 1..C /\ A + B + i \in 1..N
        <5>1. i \in 1..C
          BY <3>3 DEF C
        <5> QED BY <1>2, <5>1
      <4>2. F[A + B + i] = [id |-> r.subagent[i], part |-> "subagent"]
        BY <1>2, <4>1
      <4> QED BY <3>3, <4>1, <4>2
    <3> QED BY <3>1, <3>2, <3>3 DEF Parts
  <2>2. PICK k \in 1..N : F[k].id = r[p][i] /\ F[k].part = p
    BY <2>1
  <2>3. PICK x \in job.used : x.id = F[k].id /\ x.part = F[k].part
    BY <1>5
  <2> QED BY <2>2, <2>3
<1>8. ASSUME NEW x \in job.used
      PROVE  /\ <<x.id, x.version>> \in since /\ x.version.enabled
             /\ x.part = "mcp_server" => x.version.label \in DOMAIN servers'
             /\ x.part = "subagent" =>
                  \A i \in 1..Len(x.version.links) : Of("link", x.version.links[i]) # {}
  <2>1. <<x.id, x.version>> \in since /\ x.version.enabled
    BY <1>1 DEF UsedInv
  <2>2. x.part = "mcp_server" => x.version.label \in DOMAIN servers'
    BY <1>1, <1>6 DEF FoundInv
  <2>3. ASSUME x.part = "subagent", NEW i \in 1..Len(x.version.links)
        PROVE  Of("link", x.version.links[i]) # {}
    BY <1>5, <2>3
  <2> QED BY <2>1, <2>2, <2>3
<1>9. ASSUME NEW n \in DOMAIN servers' PROVE servers'[n] \in Chosen(n)
  <2>1. \A i, x : x \in Of("mcp_server", r.mcp_server[i]) <=> x \in job.used /\ Loaded(job, i, x)
    BY DEF Loaded
  <2> DEFINE S == Named(n)
  <2>2. S \subseteq Int /\ S \subseteq 1..A
    BY DEF A
  <2>3. CASE n \in DOMAIN job.found
    <3>1. PICK i \in 1..Len(r.mcp_server) :
            /\ \E x \in job.used : /\ Loaded(job, i, x) /\ x.version.label = n
                                   /\ job.found[n] = x.version.config
            /\ \A k \in 1..Len(r.mcp_server) :
                 (\E x \in job.used : Loaded(job, k, x) /\ x.version.label = n) => k <= i
      BY <1>1, <2>3 DEF FoundInv
    <3>2. i \in S /\ \A k \in S : k <= i
      BY <2>1, <3>1
    <3>3. PICK x \in Of("mcp_server", r.mcp_server[i]) : job.found[n] = x.version.config
      BY <2>1, <3>1
    <3>4. servers'[n] = job.found[n]
      BY <1>6, <2>3
    <3>5. Max(S) = i
      <4> HIDE DEF S
      <4> QED BY <2>2, <3>2, LastOf
    <3>6. S # {}
      BY <3>2
    <3>7. Chosen(n) = {z.version.config : z \in Of("mcp_server", r.mcp_server[i])}
      BY <3>5, <3>6
    <3> QED BY <3>3, <3>4, <3>7
  <2>4. CASE n \notin DOMAIN job.found
    <3>1. servers'[n] = DefaultServers[n]
      BY <1>6, <2>4
    <3>2. S = {}
      BY <1>1, <2>4 DEF FoundInv
    <3> QED BY <3>1, <3>2
  <2> QED BY <2>3, <2>4
<1>10. Len(job.blocks) = B + C
  <2>1. CASE N <= A
    <3>1. Len(job.blocks) = 0
      BY <1>5, <2>1
    <3> QED BY <1>2, <2>1, <3>1
  <2>2. CASE ~(N <= A)
    <3>1. Len(job.blocks) = N - A
      BY <1>5, <2>2
    <3> QED BY <1>2, <3>1
  <2> QED BY <2>1, <2>2
<1>11. ASSUME NEW i \in 1..B PROVE job.blocks[i] \in {r.skill[i], None}
  <2>1. i \in 1..(B + C)
    BY <1>2
  <2>2. job.blocks[i] \in Given(F[A + i])
    BY <1>5, <1>10, <2>1
  <2>3. F[A + i] = [id |-> r.skill[i], part |-> "skill"]
    BY <1>2
  <2> QED BY <2>2, <2>3 DEF Given
<1>12. ASSUME NEW i \in 1..C PROVE job.blocks[B + i] = r.subagent[i]
  <2>1. B + i \in 1..(B + C) /\ A + (B + i) = A + B + i
    BY <1>2
  <2>2. job.blocks[B + i] \in Given(F[A + (B + i)])
    BY <1>5, <1>10, <2>1
  <2>3. F[A + B + i] = [id |-> r.subagent[i], part |-> "subagent"]
    BY <1>2
  <2> QED BY <2>1, <2>2, <2>3 DEF Given
<1>13. /\ Len(job.blocks) = Len(r.skill) + Len(r.subagent)
       /\ \A i \in 1..Len(r.skill) : job.blocks[i] \in {r.skill[i], None}
       /\ \A i \in 1..Len(r.subagent) : job.blocks[Len(r.skill) + i] = r.subagent[i]
  BY <1>10, <1>11, <1>12 DEF B, C
<1>14. offered' \cap r.disabled \subseteq RuntimeTools
  BY DEF Offered, Filtered
<1>15. DOMAIN DefaultServers \subseteq DOMAIN servers'
  BY <1>6
<1> QED BY <1>7, <1>8, <1>9, <1>13, <1>14, <1>15 DEF AsAsked

\* The agent of a run, and the one a preview shows, is made of the resources
\* the request names as they stand after its turn has come, whatever is
\* written to the table meanwhile (loadProviderOptions, MergeProviderOptions).
THEOREM AssemblyFaithful == Spec => AssemblyIsFaithful
<1>1. Init => AssemblyInv
  BY AssemblyStarts
<1>2. AssemblyInv /\ [Next]_vars => AssemblyInv'
  BY AssemblyStep
<1>3. AssemblyInv /\ [Next]_vars =>
        [\/ job.pc = "assembling" /\ job'.pc = "ready"
         \/ job.pc = "previewing" /\ job'.pc = "answered"
           => AsAsked]_<<assemblyVars, servers, offered>>
  BY BuiltWhen, PassIsFaithful DEF AssemblyInv
<1> QED BY <1>1, <1>2, <1>3, PTL DEF Spec, AssemblyIsFaithful

-----------------------------------------------------------------------------
(* Sequences of sequences                                                   *)

\* The loop of FlattenSeq.
FlatLoop(F, ss) ==
  F[1] = ss[1] /\ \A n \in 2..Len(ss) : F[n] = F[n - 1] \o ss[n]

\* What the loop ends with is what FlattenSeq is.
LEMMA FlattenDef ==
  ASSUME NEW ss, Len(ss) \in Nat, Len(ss) # 0
  PROVE  \E F : FlatLoop(F, ss) /\ FlattenSeq(ss) = F[Len(ss)]
<1> DEFINE N == Len(ss)
           Next1(F, n) == IF n = 1 THEN ss[n] ELSE F[n - 1] \o ss[n]
           Is(F, n) == F = [k \in 1..n |-> Next1(F, k)]
           T == {n \in 0..N : \E F : Is(F, n)}
<1>1. 0 \in T
  <2>1. Is([k \in 1..0 |-> <<>>], 0)
    OBVIOUS
  <2> HIDE DEF Is
  <2> QED BY <2>1
<1>2. ASSUME NEW n \in 1..N, n - 1 \in T PROVE n \in T
  <2>1. PICK F : Is(F, n - 1)
    BY <1>2
  <2> DEFINE G == [k \in 1..n |-> IF k = n THEN Next1(F, n) ELSE F[k]]
  <2>2. ASSUME NEW k \in 1..n PROVE G[k] = Next1(G, k)
    <3>1. CASE k # n
      <4>1. k \in 1..(n - 1) /\ (k # 1 => k - 1 \in 1..n /\ k - 1 # n)
        BY <3>1
      <4>2. F[k] = Next1(F, k)
        BY <2>1, <4>1
      <4> QED BY <3>1, <4>1, <4>2
    <3>2. CASE k = n /\ n # 1
      <4>1. n - 1 \in 1..n /\ n - 1 # n
        BY <3>2
      <4>2. G[n - 1] = F[n - 1] /\ G[n] = Next1(F, n)
        BY <4>1
      <4> HIDE DEF G
      <4> QED BY <3>2, <4>1, <4>2
    <3>3. CASE k = n /\ n = 1
      <4>1. G[n] = Next1(F, n)
        OBVIOUS
      <4> HIDE DEF G
      <4> QED BY <3>3, <4>1
    <3> QED BY <3>1, <3>2, <3>3
  <2>3. Is(G, n)
    <3>1. G = [k \in 1..n |-> G[k]]
      OBVIOUS
    <3> HIDE DEF G
    <3> QED BY <2>2, <3>1
  <2> HIDE DEF G, Is
  <2> QED BY <2>3
<1>3. \A n \in 0..N : n \in T
  <2> HIDE DEF T
  <2> QED BY <1>1, <1>2, UpTo
<1>4. N \in 0..N
  OBVIOUS
<1>5. \E F : Is(F, N)
  <2>1. N \in T
    <3> HIDE DEF T
    <3> QED BY <1>3, <1>4
  <2> QED BY <2>1
<1> DEFINE H == CHOOSE F : Is(F, N)
<1>6. Is(H, N)
  <2> HIDE DEF Is
  <2> QED BY <1>5
<1>7. FlattenSeq(ss) = H[N]
  BY DEF FlattenSeq
<1>8. FlatLoop(H, ss)
  <2> HIDE DEF H
  <2>1. 1 \in 1..N
    OBVIOUS
  <2>2. H[1] = ss[1]
    BY <1>6, <2>1
  <2>3. ASSUME NEW n \in 2..N PROVE H[n] = H[n - 1] \o ss[n]
    <3>1. n \in 1..N /\ n # 1
      OBVIOUS
    <3> QED BY <1>6, <3>1
  <2> QED BY <2>2, <2>3 DEF FlatLoop
<1> HIDE DEF H
<1> QED BY <1>7, <1>8

\* One more sequence goes to the end.
LEMMA FlattenAppend ==
  ASSUME NEW S, NEW ss \in Seq(Seq(S)), NEW s \in Seq(S)
  PROVE  /\ FlattenSeq(ss) \in Seq(S)
         /\ FlattenSeq(Append(ss, s)) = FlattenSeq(ss) \o s
<1> DEFINE N == Len(ss)
           tt == Append(ss, s)
<1>1. /\ N \in Nat /\ tt \in Seq(Seq(S)) /\ Len(tt) = N + 1 /\ tt[N + 1] = s
      /\ \A n \in 1..N : tt[n] = ss[n] /\ ss[n] \in Seq(S)
  BY AppendProperties, ElementOfSeq
<1> HIDE DEF tt
<1>2. PICK G : FlatLoop(G, tt) /\ FlattenSeq(tt) = G[N + 1]
  <2>1. Len(tt) \in Nat /\ Len(tt) # 0
    BY <1>1
  <2> QED BY <1>1, <2>1, FlattenDef
<1>3. CASE N = 0
  <2>1. ss = <<>> /\ FlattenSeq(ss) = ss
    BY <1>3 DEF FlattenSeq
  <2>2. FlattenSeq(tt) = s
    BY <1>1, <1>2, <1>3 DEF FlatLoop
  <2>3. <<>> \o s = s /\ <<>> \in Seq(S)
    BY ConcatEmptySeq, EmptySeq
  <2> QED BY <2>1, <2>2, <2>3 DEF tt
<1>4. CASE N # 0
  <2>1. PICK F : FlatLoop(F, ss) /\ FlattenSeq(ss) = F[N]
    BY <1>1, <1>4, FlattenDef
  <2> DEFINE T == {n \in 0..N : n # 0 => F[n] = G[n] /\ F[n] \in Seq(S)}
  <2>2. 0 \in T
    BY <1>1
  <2>3. ASSUME NEW n \in 1..N, n - 1 \in T PROVE n \in T
    <3>1. n \in 0..N /\ n \in 1..(N + 1) /\ Len(tt) = N + 1
      BY <1>1
    <3>2. CASE n = 1
      <4>1. F[1] = G[1] /\ F[1] \in Seq(S)
        BY <1>1, <1>2, <2>1, <3>2 DEF FlatLoop
      <4> QED BY <3>1, <3>2, <4>1
    <3>3. CASE n # 1
      <4>1. n \in 2..N /\ n \in 2..(N + 1) /\ n - 1 # 0
        BY <1>1, <3>3
      <4>2. F[n - 1] = G[n - 1] /\ F[n - 1] \in Seq(S)
        BY <2>3, <4>1
      <4>3. F[n] = F[n - 1] \o ss[n] /\ G[n] = G[n - 1] \o tt[n]
        BY <1>2, <2>1, <3>1, <4>1 DEF FlatLoop
      <4>4. tt[n] = ss[n] /\ ss[n] \in Seq(S)
        BY <1>1
      <4>5. F[n] \in Seq(S) /\ F[n] = G[n]
        BY <4>2, <4>3, <4>4, ConcatProperties
      <4> QED BY <3>1, <4>5
    <3> HIDE DEF T
    <3> QED BY <3>2, <3>3
  <2>4. \A n \in 0..N : n \in T
    <3> HIDE DEF T, N
    <3> QED BY <1>1, <2>2, <2>3, UpTo
  <2>5. F[N] = G[N] /\ F[N] \in Seq(S)
    <3>1. N \in 0..N
      BY <1>1
    <3> QED BY <1>4, <2>4, <3>1
  <2>6. G[N + 1] = G[N] \o s
    <3>1. N + 1 \in 2..Len(tt) /\ (N + 1) - 1 = N
      BY <1>1, <1>4
    <3> HIDE DEF N
    <3> QED BY <1>1, <1>2, <3>1 DEF FlatLoop
  <2> HIDE DEF N, T
  <2> QED BY <1>2, <2>1, <2>5, <2>6 DEF tt
<1> QED BY <1>3, <1>4

-----------------------------------------------------------------------------
(* What a request tells                                                     *)

\* An item of the input without what it says.
Bare(x) == [tag |-> x.tag, it |-> x.it, ix |-> x.ix]
Bared(s) == [n \in 1..Len(s) |-> Bare(s[n])]
Bares == [tag : {"prompt", "item", "output"}, it : Nat, ix : Nat]

\* What reply k adds to the input: its items, and the outputs of its calls
\* once it is told.
ShapeOf(k, tag, s) == [i \in 1..Len(s) |-> [tag |-> tag, it |-> k, ix |-> i]]
SliceOf(rs, k, told) ==
  ShapeOf(k, "item", rs[k])
    \o (IF k <= told THEN ShapeOf(k, "output", ToolCalls(rs[k])) ELSE <<>>)
Slices(rs, told) == [k \in 1..Len(rs) |-> SliceOf(rs, k, told)]

\* A reply is a sequence, and so are the tool calls in it.
LEMMA ReplyType ==
  ASSUME NEW r \in Replies
  PROVE  Len(r) \in Nat /\ Len(ToolCalls(r)) \in Nat
<1>1. r \in Seq({r[i] : i \in 1..Len(r)})
  BY ProviderCallAssumption
<1> DEFINE S == {r[i] : i \in 1..Len(r)}
           at == {i \in 1..Len(r) : r[i] \in Tools}
<1>2. r \in Seq(S)
  BY <1>1
<1> HIDE DEF S, at
<1>3. Len(r) \in Nat /\ Len(Selected(r, at)) \in Nat
  BY <1>2, SelectedType
<1> QED BY <1>3 DEF ToolCalls, at

\* The items and the outputs of a reply ...
LEMMA ShapeType ==
  ASSUME NEW k \in Nat, NEW tag \in {"prompt", "item", "output"}, NEW s, Len(s) \in Nat
  PROVE  ShapeOf(k, tag, s) \in Seq(Bares)
<1>1. \A i \in 1..Len(s) : [tag |-> tag, it |-> k, ix |-> i] \in Bares
  BY DEF Bares
<1> QED BY <1>1 DEF ShapeOf

\* ... one behind the other ...
LEMMA SliceType ==
  ASSUME NEW rs \in Seq(Replies), NEW k \in 1..Len(rs), NEW told
  PROVE  SliceOf(rs, k, told) \in Seq(Bares)
<1>1. k \in Nat /\ rs[k] \in Replies
  BY ElementOfSeq
<1>2. Len(rs[k]) \in Nat /\ Len(ToolCalls(rs[k])) \in Nat
  BY <1>1, ReplyType
<1>3. ShapeOf(k, "item", rs[k]) \in Seq(Bares) /\ <<>> \in Seq(Bares)
  BY <1>1, <1>2, ShapeType
<1>4. ShapeOf(k, "output", ToolCalls(rs[k])) \in Seq(Bares)
  BY <1>1, <1>2, ShapeType
<1> QED BY <1>3, <1>4, ConcatProperties DEF SliceOf

\* ... for each of the replies, are sequences of items.
LEMMA SlicesType ==
  ASSUME NEW rs \in Seq(Replies), NEW told
  PROVE  Slices(rs, told) \in Seq(Seq(Bares)) /\ Len(Slices(rs, told)) = Len(rs)
<1>1. Len(rs) \in Nat /\ \A k \in 1..Len(rs) : SliceOf(rs, k, told) \in Seq(Bares)
  BY SliceType
<1> QED BY <1>1 DEF Slices

\* A reply joins the input: its items come last.
LEMMA ReplyJoins ==
  ASSUME NEW rs \in Seq(Replies), NEW r \in Replies
  PROVE  LET N == Len(rs)
         IN  FlattenSeq(Slices(Append(rs, r), N))
               = FlattenSeq(Slices(rs, N)) \o ShapeOf(N + 1, "item", r)
<1> DEFINE N == Len(rs)
           qs == Append(rs, r)
           s == ShapeOf(N + 1, "item", r)
<1>1. /\ N \in Nat /\ qs \in Seq(Replies) /\ Len(qs) = N + 1 /\ qs[N + 1] = r
      /\ \A k \in 1..N : qs[k] = rs[k]
  BY AppendProperties
<1>2. Len(r) \in Nat
  BY ReplyType
<1> HIDE DEF qs
<1>3. s \in Seq(Bares) /\ s \o <<>> = s
  <2>1. N + 1 \in Nat
    BY <1>1
  <2>2. s \in Seq(Bares)
    BY <1>2, <2>1, ShapeType
  <2> HIDE DEF s
  <2> QED BY <2>2, ConcatEmptySeq
<1>4. Slices(qs, N) = Append(Slices(rs, N), s)
  <2> DEFINE a == Slices(qs, N)
             b == Append(Slices(rs, N), s)
  <2>1. a \in Seq(Seq(Bares)) /\ Len(a) = N + 1
    BY <1>1, SlicesType
  <2>2. /\ b \in Seq(Seq(Bares)) /\ Len(b) = N + 1 /\ b[N + 1] = s
        /\ \A k \in 1..N : b[k] = Slices(rs, N)[k]
    BY <1>1, <1>3, SlicesType, AppendProperties
  <2>3. ASSUME NEW k \in 1..(N + 1) PROVE a[k] = b[k]
    <3>1. CASE k = N + 1
      <4>1. a[k] = SliceOf(qs, k, N) /\ ~(k <= N)
        BY <1>1, <3>1 DEF Slices
      <4>2. SliceOf(qs, k, N) = ShapeOf(k, "item", qs[k]) \o <<>>
        BY <4>1 DEF SliceOf
      <4> HIDE DEF b
      <4> QED BY <1>1, <1>3, <2>2, <3>1, <4>1, <4>2
    <3>2. CASE k # N + 1
      <4>1. k \in 1..N
        BY <1>1, <3>2
      <4>2. a[k] = SliceOf(qs, k, N) /\ Slices(rs, N)[k] = SliceOf(rs, k, N)
        BY <1>1, <4>1 DEF Slices
      <4>3. SliceOf(qs, k, N) = SliceOf(rs, k, N)
        BY <1>1, <4>1 DEF SliceOf
      <4> HIDE DEF a, b
      <4> QED BY <2>2, <4>1, <4>2, <4>3
    <3> QED BY <3>1, <3>2
  <2> HIDE DEF a, b
  <2>4. a = b
    BY <1>1, <2>1, <2>2, <2>3, SeqEqual
  <2> QED BY <2>4 DEF a, b
<1> HIDE DEF s, N
<1>5. FlattenSeq(Append(Slices(rs, N), s)) = FlattenSeq(Slices(rs, N)) \o s
  BY <1>3, SlicesType, FlattenAppend
<1> QED BY <1>4, <1>5 DEF N, qs, s

\* The outputs join the input: they stand behind the items of their reply.
LEMMA OutputsJoin ==
  ASSUME NEW rs \in Seq(Replies), Len(rs) # 0
  PROVE  LET N == Len(rs)
         IN  FlattenSeq(Slices(rs, N))
               = FlattenSeq(Slices(rs, N - 1)) \o ShapeOf(N, "output", ToolCalls(rs[N]))
<1> DEFINE N == Len(rs)
           r == rs[N]
           ps == [k \in 1..(N - 1) |-> SliceOf(rs, k, N)]
           s == ShapeOf(N, "item", r)
           t == ShapeOf(N, "output", ToolCalls(r))
<1>1. /\ N \in Nat /\ N >= 1 /\ N \in 1..N /\ r \in Replies
      /\ \A k \in 1..(N - 1) : k \in 1..N
  <2>1. N \in Nat /\ N >= 1 /\ N \in 1..N /\ \A k \in 1..(N - 1) : k \in 1..N
    OBVIOUS
  <2> HIDE DEF N
  <2> QED BY <2>1, ElementOfSeq DEF N
<1>2. s \in Seq(Bares) /\ t \in Seq(Bares)
  <2>1. Len(r) \in Nat /\ Len(ToolCalls(r)) \in Nat
    BY <1>1, ReplyType
  <2> HIDE DEF N, r
  <2> QED BY <1>1, <2>1, ShapeType
<1>3. ps \in Seq(Seq(Bares)) /\ Len(ps) = N - 1
  <2>1. \A k \in 1..(N - 1) : SliceOf(rs, k, N) \in Seq(Bares)
    BY <1>1, SliceType
  <2> QED BY <1>1, <2>1
<1> HIDE DEF s, t, N, r
<1>4. s \o t \in Seq(Bares) /\ s \o <<>> = s
  BY <1>2, ConcatProperties, ConcatEmptySeq
<1>5. Slices(rs, N) = Append(ps, s \o t)
  <2> DEFINE a == Slices(rs, N)
             b == Append(ps, s \o t)
  <2>1. a \in Seq(Seq(Bares)) /\ Len(a) = N
    BY SlicesType DEF N
  <2>2. /\ b \in Seq(Seq(Bares)) /\ Len(b) = N /\ b[N] = s \o t
        /\ \A k \in 1..(N - 1) : b[k] = ps[k]
    <3> HIDE DEF ps
    <3> QED BY <1>1, <1>3, <1>4, AppendProperties
  <2>3. ASSUME NEW k \in 1..N PROVE a[k] = b[k]
    <3>1. a[k] = SliceOf(rs, k, N)
      BY DEF Slices, N
    <3>2. CASE k = N
      <4>1. SliceOf(rs, k, N) = s \o t
        BY <1>1, <3>2 DEF SliceOf, s, t, r
      <4> HIDE DEF a, b
      <4> QED BY <2>2, <3>1, <3>2, <4>1
    <3>3. CASE k # N
      <4>1. k \in 1..(N - 1)
        BY <1>1, <3>3
      <4>2. ps[k] = SliceOf(rs, k, N)
        BY <4>1
      <4> HIDE DEF a, b, ps
      <4> QED BY <2>2, <3>1, <4>1, <4>2
    <3> QED BY <3>2, <3>3
  <2> HIDE DEF a, b
  <2>4. a = b
    BY <1>1, <2>1, <2>2, <2>3, SeqEqual
  <2> QED BY <2>4 DEF a, b
<1>6. Slices(rs, N - 1) = Append(ps, s)
  <2> DEFINE a == Slices(rs, N - 1)
             b == Append(ps, s)
  <2>1. a \in Seq(Seq(Bares)) /\ Len(a) = N
    BY SlicesType DEF N
  <2>2. /\ b \in Seq(Seq(Bares)) /\ Len(b) = N /\ b[N] = s
        /\ \A k \in 1..(N - 1) : b[k] = ps[k]
    <3> HIDE DEF ps
    <3> QED BY <1>1, <1>2, <1>3, AppendProperties
  <2>3. ASSUME NEW k \in 1..N PROVE a[k] = b[k]
    <3>1. a[k] = SliceOf(rs, k, N - 1)
      BY DEF Slices, N
    <3>2. CASE k = N
      <4>1. ~(k <= N - 1)
        BY <1>1, <3>2
      <4>2. SliceOf(rs, k, N - 1) = s \o <<>>
        BY <3>2, <4>1 DEF SliceOf, s, r
      <4> HIDE DEF a, b
      <4> QED BY <1>4, <2>2, <3>1, <3>2, <4>2
    <3>3. CASE k # N
      <4>1. k \in 1..(N - 1) /\ k <= N /\ k <= N - 1
        BY <1>1, <3>3
      <4>2. ps[k] = SliceOf(rs, k, N - 1)
        <5>1. SliceOf(rs, k, N) = SliceOf(rs, k, N - 1)
          BY <4>1 DEF SliceOf
        <5> QED BY <4>1, <5>1
      <4> HIDE DEF a, b, ps
      <4> QED BY <2>2, <3>1, <4>1, <4>2
    <3> QED BY <3>2, <3>3
  <2> HIDE DEF a, b
  <2>4. a = b
    BY <1>1, <2>1, <2>2, <2>3, SeqEqual
  <2> QED BY <2>4 DEF a, b
<1> HIDE DEF ps
<1>7. /\ FlattenSeq(ps) \in Seq(Bares)
      /\ FlattenSeq(Slices(rs, N)) = FlattenSeq(ps) \o (s \o t)
      /\ FlattenSeq(Slices(rs, N - 1)) = FlattenSeq(ps) \o s
  BY <1>2, <1>3, <1>4, <1>5, <1>6, FlattenAppend
<1>8. FlattenSeq(ps) \o (s \o t) = (FlattenSeq(ps) \o s) \o t
  <2> DEFINE f == FlattenSeq(ps)
  <2>1. f \in Seq(Bares)
    BY <1>7
  <2> HIDE DEF f
  <2>2. (f \o s) \o t = f \o (s \o t)
    BY <1>2, <2>1, ConcatAssociative
  <2> QED BY <2>2 DEF f
<1> QED BY <1>7, <1>8 DEF N, t, r

\* Two pieces of the input.
LEMMA BaredConcat ==
  ASSUME NEW S, NEW s \in Seq(S), NEW t \in Seq(S)
  PROVE  Bared(s \o t) = Bared(s) \o Bared(t)
<1>1. Len(s) \in Nat /\ Len(t) \in Nat
  OBVIOUS
<1> QED BY <1>1 DEF Bared

-----------------------------------------------------------------------------
(* The tool loop                                                            *)

LoopRecord ==
  [pc : {"off", "generate", "tools", "done"}, it : 1..Iterations, parallel : BOOLEAN,
   outcome : {"none", "blocked", "failed", "answered", "withheld", "exhausted"}]
Items == [tag : {"item", "output"}, it : Nat, ix : Nat, out : Results]
WorkRecord == [pc : InHandler \cup {"new", "done"}, out : Results]

LoopTyped ==
  /\ loop \in LoopRecord
  /\ req \in [prompt : BOOLEAN, items : Seq(Items), follows : Nat]
  /\ work \in Seq(WorkRecord) /\ replies \in Seq(Replies)
  /\ offered \subseteq Tools

\* The calls whose handlers are under way.
Busy == {i \in 1..Len(work) : work[i].pc \in InHandler}

\* Each of them has a place; without parallelism a call waits for those
\* before it.
PlacesInv ==
  /\ slots = IF Parallel THEN Cardinality(Busy) ELSE 0
  /\ Parallel => Cardinality(Busy) <= Places
  /\ ~Parallel => \A i \in 1..Len(work) :
                    work[i].pc # "new" => \A j \in 1..(i - 1) : work[j].pc = "done"
  /\ loop.pc # "tools" => work = <<>>

\* The request continues the last reply whose calls are all answered, and
\* its items are those of the replies with the outputs of these behind them.
ToldInv ==
  /\ loop.pc = "off" => Len(replies) = 0 /\ req.follows = 0
  /\ loop.pc = "generate" => Len(replies) = loop.it - 1 /\ req.follows = loop.it - 1
  /\ loop.pc = "tools" =>
       /\ Len(replies) = loop.it /\ req.follows = loop.it - 1
       /\ Len(work) = Len(ToolCalls(replies[loop.it]))
  /\ loop.pc = "done" => req.follows = Len(replies)
  /\ req.prompt <=> req.follows = 0
  /\ Bared(req.items) = FlattenSeq(Slices(replies, req.follows))

\* How call i of reply k has ended, and how the handler of a tool can.
Handled(k, i) == {r \in ran : r.it = k /\ r.ix = i}
Unnumbered == {"plainReply", "plainNote", "nothing"}
McpEnds == {"reply", "request"} \cup Unnumbered
Dids == Ends \cup {"missing", "mcpError"} \cup McpEnds
CanEnd(tool, did) ==
  \/ did \in {"missing", "mcpError"}
  \/ did \in Ends /\ tool \in offered
  \/ /\ did \in McpEnds
     /\ tool \in offered /\ Does[tool] \in DOMAIN servers
     /\ did \in Unnumbered => servers[Does[tool]] # "stdio"

\* What is said of a call is what became of it.
Reported(k, i, out) ==
  \/ out = "cancelled" /\ cancelled /\ Handled(k, i) = {}
  \/ \E did \in Dids : /\ Handled(k, i) = {[it |-> k, ix |-> i, did |-> did]}
                       /\ out = Result(did) /\ CanEnd(ToolCalls(replies[k])[i], did)

\* Where a call is that is made over HTTP.
OverHttp == {"postInit", "notify", "postCall"}

HandlersInv ==
  loop.pc = "tools" =>
    \A i \in 1..Len(work) :
      /\ work[i].pc # "done" => Handled(loop.it, i) = {}
      /\ work[i].pc = "done" => Reported(loop.it, i, work[i].out)
      /\ work[i].pc = "running" => Missing(i) \/ Does[Tool(i)] \in Ends
      /\ work[i].pc \in InHandler \ {"running"} => ~Missing(i) /\ Does[Tool(i)] \notin Ends
      /\ work[i].pc \in OverHttp => servers[Does[Tool(i)]] # "stdio"

OutputsInv ==
  /\ \A r \in ran : r.it \in 1..Len(replies)
  /\ \A n \in 1..Len(req.items) :
       LET x == req.items[n]
       IN  x.tag = "output" => x.it \in 1..req.follows /\ Reported(x.it, x.ix, x.out)

LoopInv == LoopTyped /\ PlacesInv /\ ToldInv /\ HandlersInv /\ OutputsInv

\* A run has its agent before its loop begins.
JobInv == mode = "loop" => job.pc \in {"none", "ready"}

\* Some iteration is always allowed.
LEMMA SomeIteration == Iterations \in Nat \ {0}
BY ToolLoopAssumption DEF Iterations

\* What was reported of a call stays true when no handler of it ends.
LEMMA ReportedStays ==
  ASSUME NEW k, NEW i, NEW out, Reported(k, i, out), Handled(k, i)' = Handled(k, i),
         cancelled => cancelled', servers' = servers, offered' = offered,
         replies'[k] = replies[k]
  PROVE  Reported(k, i, out)'
<1>1. CASE out = "cancelled" /\ cancelled /\ Handled(k, i) = {}
  BY <1>1 DEF Reported
<1>2. ASSUME NEW did \in Dids, Handled(k, i) = {[it |-> k, ix |-> i, did |-> did]},
             out = Result(did), CanEnd(ToolCalls(replies[k])[i], did)
      PROVE  Reported(k, i, out)'
  <2>1. Handled(k, i)' = {[it |-> k, ix |-> i, did |-> did]} /\ did \in Dids'
    BY <1>2 DEF Dids, McpEnds, Unnumbered
  <2>2. CanEnd(ToolCalls(replies[k])[i], did)'
    BY <1>2 DEF CanEnd
  <2>3. (out = Result(did))'
    BY <1>2 DEF Result
  <2> QED BY <2>1, <2>2, <2>3 DEF Reported
<1> QED BY <1>1, <1>2 DEF Reported

\* The outputs in the request stay true when only handlers of the calls at
\* hand end.
LEMMA OutputsStay ==
  ASSUME LoopInv, cancelled => cancelled', servers' = servers, offered' = offered,
         req' = req, \A k \in 1..req.follows : replies'[k] = replies[k],
         Len(replies') \in Nat, Len(replies) <= Len(replies'),
         \A r \in ran' : r \in ran \/ (r.it \in 1..Len(replies') /\ ~(r.it <= req.follows)),
         ran \subseteq ran'
  PROVE  OutputsInv'
<1>1. ASSUME NEW r \in ran' PROVE r.it \in 1..Len(replies')
  <2>1. CASE r \in ran
    <3>1. r.it \in 1..Len(replies)
      BY <2>1 DEF LoopInv, OutputsInv
    <3>2. Len(replies) \in Nat
      BY DEF LoopInv, LoopTyped
    <3> QED BY <3>1, <3>2
  <2> QED BY <2>1
<1>2. ASSUME NEW n \in 1..Len(req.items), req.items[n].tag = "output"
      PROVE  /\ req.items[n].it \in 1..req.follows
             /\ Reported(req.items[n].it, req.items[n].ix, req.items[n].out)'
  <2> DEFINE x == req.items[n]
  <2>1. x.it \in 1..req.follows /\ Reported(x.it, x.ix, x.out)
    BY <1>2 DEF LoopInv, OutputsInv
  <2>2. req.follows \in Nat
    BY DEF LoopInv, LoopTyped
  <2> DEFINE k == x.it
             i == x.ix
             out == x.out
  <2>3. {r \in ran' : r.it = k /\ r.ix = i} = {r \in ran : r.it = k /\ r.ix = i}
    <3>1. k \in 1..req.follows
      BY <2>1
    <3> HIDE DEF k, i
    <3>2. \A r \in ran' : r.it = k => r \in ran
      BY <2>2, <3>1
    <3> QED BY <3>2
  <2>4. replies'[k] = replies[k]
    BY <2>1
  <2>5. \A a, b, c :
          /\ Reported(a, b, c)
          /\ {r \in ran' : r.it = a /\ r.ix = b} = {r \in ran : r.it = a /\ r.ix = b}
          /\ replies'[a] = replies[a]
          => Reported(a, b, c)'
    <3> SUFFICES ASSUME NEW a, NEW b, NEW c, Reported(a, b, c),
                        {r \in ran' : r.it = a /\ r.ix = b} = {r \in ran : r.it = a /\ r.ix = b},
                        replies'[a] = replies[a]
                 PROVE  Reported(a, b, c)'
      OBVIOUS
    <3>1. Handled(a, b)' = Handled(a, b)
      BY DEF Handled
    <3> QED BY <3>1, ReportedStays
  <2>6. Reported(x.it, x.ix, x.out)'
    <3>1. x' = x
      OBVIOUS
    <3> QED BY <2>1, <2>3, <2>4, <2>5, <3>1
  <2> QED BY <2>1, <2>6
<1> QED BY <1>1, <1>2 DEF OutputsInv

\* A step that is none of the loop's.
LEMMA SameLoop ==
  ASSUME LoopInv, UNCHANGED loopVars, offered' = offered, servers' = servers,
         cancelled => cancelled'
  PROVE  LoopInv'
<1>1. /\ loop' = loop /\ req' = req /\ work' = work /\ slots' = slots
      /\ replies' = replies /\ ran' = ran
  BY DEF loopVars
<1>2. LoopTyped'
  BY <1>1 DEF LoopInv, LoopTyped
<1>3. PlacesInv'
  BY <1>1 DEF LoopInv, PlacesInv, Parallel, Places, Busy
<1>4. ToldInv'
  BY <1>1 DEF LoopInv, ToldInv, Bared, Slices, SliceOf, ShapeOf
<1>5. OutputsInv'
  <2>1. Len(replies) \in Nat
    BY DEF LoopInv, LoopTyped
  <2> QED BY <1>1, <2>1, OutputsStay
<1>6. HandlersInv'
  <2> SUFFICES ASSUME loop.pc = "tools", NEW i \in 1..Len(work)
               PROVE  /\ (work[i].pc # "done" => Handled(loop.it, i) = {})'
                      /\ (work[i].pc = "done" => Reported(loop.it, i, work[i].out))'
                      /\ (work[i].pc = "running" => Missing(i) \/ Does[Tool(i)] \in Ends)'
                      /\ (work[i].pc \in InHandler \ {"running"} =>
                            ~Missing(i) /\ Does[Tool(i)] \notin Ends)'
                      /\ (work[i].pc \in OverHttp => servers[Does[Tool(i)]] # "stdio")'
    BY <1>1 DEF HandlersInv
  <2>1. HandlersInv
    BY DEF LoopInv
  <2>2. (work[i].pc # "done" => Handled(loop.it, i) = {})'
    BY <1>1, <2>1 DEF HandlersInv, Handled
  <2>3. Tool(i)' = Tool(i) /\ Missing(i)' = Missing(i)
    BY <1>1 DEF Tool, Missing
  <2>4. ASSUME work[i].pc = "done" PROVE Reported(loop.it, i, work[i].out)'
    <3>1. Reported(loop.it, i, work[i].out)
      BY <2>1, <2>4 DEF HandlersInv
    <3>2. \A a, b, c : Reported(a, b, c) => Reported(a, b, c)'
      <4> SUFFICES ASSUME NEW a, NEW b, NEW c, Reported(a, b, c) PROVE Reported(a, b, c)'
        OBVIOUS
      <4>1. Handled(a, b)' = Handled(a, b)
        BY <1>1 DEF Handled
      <4> QED BY <1>1, <4>1, ReportedStays
    <3> QED BY <1>1, <3>1, <3>2
  <2>5. (work[i].pc \in OverHttp => servers[Does[Tool(i)]] # "stdio")'
    BY <1>1, <2>1, <2>3 DEF HandlersInv, OverHttp
  <2> QED BY <1>1, <2>1, <2>2, <2>3, <2>4, <2>5 DEF HandlersInv
<1> QED BY <1>2, <1>3, <1>4, <1>5, <1>6 DEF LoopInv

\* An agent is built, or its loop begins: nothing has been asked yet.
LEMMA BeginKeeps ==
  ASSUME LoopInv, loop.pc = "off", loop' \in LoopRecord,
         loop'.pc = "off" \/ (loop'.pc = "generate" /\ loop'.it = 1) \/ loop'.pc = "done",
         UNCHANGED <<req, work, slots, replies, ran>>, offered' \subseteq Tools
  PROVE  LoopInv'
<1>1. /\ Len(replies) = 0 /\ req.follows = 0 /\ work = <<>>
      /\ (req.prompt <=> req.follows = 0)
      /\ Bared(req.items) = FlattenSeq(Slices(replies, req.follows))
  BY DEF LoopInv, ToldInv, PlacesInv
<1>2. LoopTyped'
  BY DEF LoopInv, LoopTyped
<1>3. PlacesInv'
  <2>1. Parallel = FALSE /\ Parallel' = FALSE /\ Busy = {} /\ Busy' = {} /\ Len(work) = 0
    BY <1>1 DEF Parallel, Busy
  <2> QED BY <1>1, <2>1 DEF LoopInv, PlacesInv
<1>4. ToldInv'
  <2>1. (Bared(req.items) = FlattenSeq(Slices(replies, req.follows)))'
    BY <1>1 DEF Bared, Slices, SliceOf, ShapeOf
  <2> QED BY <1>1, <2>1 DEF ToldInv
<1>5. HandlersInv'
  BY DEF HandlersInv
<1>6. OutputsInv'
  <2>1. \A r \in ran : r.it \in 1..Len(replies)
    BY DEF LoopInv, OutputsInv
  <2>2. \A n \in 1..Len(req.items) : req.items[n].tag # "output"
    <3> SUFFICES ASSUME NEW n \in 1..Len(req.items), req.items[n].tag = "output"
                 PROVE  FALSE
      OBVIOUS
    <3>1. req.items[n].it \in 1..req.follows
      BY DEF LoopInv, OutputsInv
    <3> QED BY <1>1, <3>1
  <2> QED BY <2>1, <2>2 DEF OutputsInv
<1> QED BY <1>2, <1>3, <1>4, <1>5, <1>6 DEF LoopInv

\* The loop ends after a reply without tool calls, or without a reply.
LEMMA StopKeeps ==
  ASSUME LoopInv, loop.pc = "generate",
         NEW outcome \in {"failed", "answered", "withheld"}, Stops(outcome),
         UNCHANGED <<req, work, slots, replies, ran, cancelled, offered, servers>>
  PROVE  LoopInv'
<1>1. loop' \in LoopRecord /\ loop'.pc = "done"
  BY DEF LoopInv, LoopTyped, LoopRecord, Stops
<1>2. LoopTyped'
  BY <1>1 DEF LoopInv, LoopTyped
<1>3. PlacesInv'
  <2>1. work = <<>> /\ Len(work) = 0
    BY DEF LoopInv, PlacesInv
  <2>2. Parallel = FALSE /\ Parallel' = FALSE /\ Busy = {} /\ Busy' = {}
    BY <2>1 DEF Parallel, Busy
  <2> QED BY <2>1, <2>2 DEF LoopInv, PlacesInv
<1>4. ToldInv'
  <2>1. /\ Len(replies) = loop.it - 1 /\ req.follows = loop.it - 1
        /\ (req.prompt <=> req.follows = 0)
        /\ Bared(req.items) = FlattenSeq(Slices(replies, req.follows))
    BY DEF LoopInv, ToldInv
  <2>2. (Bared(req.items) = FlattenSeq(Slices(replies, req.follows)))'
    BY <2>1 DEF Bared, Slices, SliceOf, ShapeOf
  <2> QED BY <1>1, <2>1, <2>2 DEF ToldInv
<1>5. HandlersInv'
  BY <1>1 DEF HandlersInv
<1>6. OutputsInv'
  <2>1. Len(replies) \in Nat
    BY DEF LoopInv, LoopTyped
  <2> QED BY <2>1, OutputsStay
<1> QED BY <1>2, <1>3, <1>4, <1>5, <1>6 DEF LoopInv

\* The reply joins the request and its calls wait.
LEMMA ToolReplyKeeps ==
  ASSUME LoopInv, http.reply \in Replies, ToolReply,
         UNCHANGED <<offered, servers>>
  PROVE  LoopInv'
<1> DEFINE r == http.reply
           N == Len(replies)
           new == [i \in 1..Len(r) |-> [tag |-> "item", it |-> loop.it, ix |-> i, out |-> "none"]]
           M == Len(ToolCalls(r))
<1>1. /\ loop.pc = "generate" /\ loop' = [loop EXCEPT !.pc = "tools"]
      /\ req' = [req EXCEPT !.items = @ \o new]
      /\ work' = [i \in 1..M |-> Waiting]
      /\ replies' = Append(replies, r)
      /\ UNCHANGED <<cancelled, slots, ran>>
  BY DEF ToolReply
<1>2. /\ loop \in LoopRecord /\ replies \in Seq(Replies) /\ offered \subseteq Tools
      /\ req \in [prompt : BOOLEAN, items : Seq(Items), follows : Nat]
  BY DEF LoopInv, LoopTyped
<1>3. N \in Nat /\ loop.it = N + 1 /\ req.follows = N /\ loop.it \in Nat
  <2>1. loop.it \in Nat
    BY <1>2, SomeIteration DEF LoopRecord
  <2> QED BY <1>1, <1>2, <2>1 DEF LoopInv, ToldInv
<1>4. Len(r) \in Nat /\ M \in Nat
  BY ReplyType
<1>5. /\ replies' \in Seq(Replies) /\ Len(replies') = N + 1 /\ replies'[N + 1] = r
      /\ \A k \in 1..N : replies'[k] = replies[k]
  BY <1>1, <1>2, AppendProperties
<1>6. loop' \in LoopRecord /\ loop'.pc = "tools" /\ loop'.it = loop.it
  BY <1>1, <1>2 DEF LoopRecord
<1>7. new \in Seq(Items) /\ \A i \in 1..Len(new) : new[i].tag = "item"
  <2>1. \A i \in 1..Len(r) :
          [tag |-> "item", it |-> loop.it, ix |-> i, out |-> "none"] \in Items
    BY <1>3, <1>4 DEF Items, Results
  <2> QED BY <1>4, <2>1
<1>8. Bared(new) = ShapeOf(N + 1, "item", r)
  BY <1>3, <1>4 DEF Bared, Bare, ShapeOf
<1> HIDE DEF new
<1>9. /\ req.items \o new \in Seq(Items)
      /\ Len(req.items \o new) = Len(req.items) + Len(new)
      /\ \A i \in 1..(Len(req.items) + Len(new)) :
           (req.items \o new)[i] =
             IF i <= Len(req.items) THEN req.items[i] ELSE new[i - Len(req.items)]
  BY <1>2, <1>7, ConcatProperties
<1>10. /\ req' \in [prompt : BOOLEAN, items : Seq(Items), follows : Nat]
       /\ req'.items = req.items \o new /\ req'.follows = req.follows
       /\ req'.prompt = req.prompt
  BY <1>1, <1>2, <1>9
<1>11. /\ work' \in Seq(WorkRecord) /\ Len(work') = M
       /\ \A i \in 1..M : work'[i].pc = "new" /\ work'[i].out = "none"
  <2>1. Waiting \in WorkRecord
    BY DEF Waiting, WorkRecord, Results
  <2> QED BY <1>1, <1>4, <2>1 DEF Waiting
<1>12. LoopTyped'
  BY <1>2, <1>5, <1>6, <1>10, <1>11 DEF LoopTyped
<1>13. PlacesInv'
  <2>1. work = <<>> /\ Busy = {} /\ Len(work) = 0
    BY <1>1 DEF LoopInv, PlacesInv, Busy
  <2>2. slots = 0
    BY <2>1, FS_EmptySet DEF LoopInv, PlacesInv
  <2>3. Busy' = {}
    BY <1>11 DEF Busy, InHandler
  <2>4. Cardinality(Busy)' = 0
    BY <2>3, FS_EmptySet
  <2>5. Parallel' => 0 <= Places'
    BY <1>4, <1>11, ToolLoopAssumption DEF Parallel, Places
  <2>6. \A i \in 1..Len(work') : work'[i].pc = "new"
    BY <1>11
  <2> QED BY <1>1, <1>6, <2>2, <2>4, <2>5, <2>6 DEF PlacesInv
<1>14. ToldInv'
  <2>1. Bared(req.items) = FlattenSeq(Slices(replies, N)) /\ (req.prompt <=> req.follows = 0)
    BY <1>3 DEF LoopInv, ToldInv
  <2>2. Bared(req'.items) = Bared(req.items) \o Bared(new)
    BY <1>2, <1>7, <1>10, BaredConcat
  <2>3. FlattenSeq(Slices(replies', N))
          = FlattenSeq(Slices(replies, N)) \o ShapeOf(N + 1, "item", r)
    BY <1>1, <1>2, ReplyJoins
  <2>4. Bared(req'.items) = FlattenSeq(Slices(replies', req'.follows))
    BY <1>3, <1>8, <1>10, <2>1, <2>2, <2>3
  <2>5. (Bared(req.items) = FlattenSeq(Slices(replies, req.follows)))'
    BY <2>4 DEF Bared, Slices, SliceOf, ShapeOf
  <2>6. Len(work)' = Len(ToolCalls(replies[loop.it]))'
    BY <1>3, <1>5, <1>6, <1>11 DEF ToolCalls
  <2> QED BY <1>3, <1>5, <1>6, <1>10, <2>1, <2>5, <2>6 DEF ToldInv
<1>15. HandlersInv'
  <2>1. \A i \in 1..Len(work') : work'[i].pc = "new"
    BY <1>11
  <2>2. \A i : Handled(loop.it, i)' = {}
    <3>1. \A x \in ran : x.it \in 1..N
      BY DEF LoopInv, OutputsInv
    <3>2. \A x \in ran' : x.it # loop'.it
      BY <1>1, <1>3, <1>6, <3>1
    <3> QED BY <3>2 DEF Handled
  <2> QED BY <2>1, <2>2 DEF HandlersInv, InHandler, OverHttp
<1>16. OutputsInv'
  <2>1. ASSUME NEW x \in ran' PROVE x.it \in 1..Len(replies')
    <3>1. x.it \in 1..N
      BY <1>1, <2>1 DEF LoopInv, OutputsInv
    <3> QED BY <1>3, <1>5, <3>1
  <2>2. ASSUME NEW n \in 1..Len(req'.items), req'.items[n].tag = "output"
        PROVE  /\ req'.items[n].it \in 1..req'.follows
               /\ (\A a, b, c : (a = req.items[n].it /\ b = req.items[n].ix /\ c = req.items[n].out)
                     => Reported(a, b, c))'
    <3>1. Len(req.items) \in Nat /\ Len(new) \in Nat
      BY <1>2, <1>7
    <3>2. CASE n <= Len(req.items)
      <4>1. n \in 1..Len(req.items) /\ req'.items[n] = req.items[n]
        BY <1>9, <1>10, <3>1, <3>2
      <4> DEFINE x == req.items[n]
      <4>2. x.it \in 1..req.follows /\ Reported(x.it, x.ix, x.out)
        BY <2>2, <4>1 DEF LoopInv, OutputsInv
      <4>3. \A a, b, c : a \in 1..N /\ Reported(a, b, c) => Reported(a, b, c)'
        <5> SUFFICES ASSUME NEW a, NEW b, NEW c, a \in 1..N, Reported(a, b, c)
                     PROVE  Reported(a, b, c)'
          OBVIOUS
        <5>1. Handled(a, b)' = Handled(a, b)
          BY <1>1 DEF Handled
        <5> QED BY <1>1, <1>5, <5>1, ReportedStays
      <4>4. (\A a, b, c : (a = req.items[n].it /\ b = req.items[n].ix /\ c = req.items[n].out)
              => Reported(a, b, c))'
        <5> SUFFICES ASSUME NEW a, NEW b, NEW c, a = req'.items[n].it, b = req'.items[n].ix,
                            c = req'.items[n].out
                     PROVE  Reported(a, b, c)'
          OBVIOUS
        <5>1. a = x.it /\ b = x.ix /\ c = x.out
          BY <4>1
        <5>2. Reported(a, b, c) /\ a \in 1..req.follows
          <6> HIDE DEF x
          <6> QED BY <4>2, <5>1
        <5>3. a \in 1..N
          BY <1>3, <5>2
        <5> QED BY <4>3, <5>2, <5>3
      <4> QED BY <1>10, <4>1, <4>2, <4>4
    <3>3. CASE ~(n <= Len(req.items))
      <4>1. n \in 1..(Len(req.items) + Len(new))
        BY <1>9, <1>10
      <4>2. n - Len(req.items) \in 1..Len(new)
        BY <3>1, <3>3, <4>1
      <4>3. req'.items[n] = new[n - Len(req.items)]
        <5>1. (req.items \o new)[n] = new[n - Len(req.items)]
          BY <1>9, <3>3, <4>1
        <5> QED BY <1>10, <5>1
      <4>4. req'.items[n].tag = "item"
        <5>1. \A k \in 1..Len(new) : new[k].tag = "item"
          BY <1>7
        <5> QED BY <4>2, <4>3, <5>1
      <4> QED BY <2>2, <4>4
    <3> QED BY <3>1, <3>2, <3>3
  <2> QED BY <2>1, <2>2 DEF OutputsInv
<1> QED BY <1>12, <1>13, <1>14, <1>15, <1>16 DEF LoopInv

\* The outputs join the request behind the reply, in the order of the calls.
LEMMA CollectKeeps ==
  ASSUME LoopInv, Collect, UNCHANGED <<offered, servers>>
  PROVE  LoopInv'
<1> DEFINE N == Len(replies)
           M == Len(work)
           new == [i \in 1..M |->
                    [tag |-> "output", it |-> loop.it, ix |-> i, out |-> work[i].out]]
<1>1. /\ loop.pc = "tools" /\ \A i \in 1..M : work[i].pc = "done"
      /\ req' = [prompt |-> FALSE, items |-> req.items \o new, follows |-> loop.it]
      /\ work' = <<>> /\ UNCHANGED <<cancelled, slots, replies, ran>>
      /\ \/ loop.it < Iterations /\ loop' = [loop EXCEPT !.pc = "generate", !.it = @ + 1]
         \/ loop' = [loop EXCEPT !.pc = "done", !.outcome = "exhausted"]
  BY DEF Collect, Stops
<1>2. /\ loop \in LoopRecord /\ replies \in Seq(Replies) /\ offered \subseteq Tools
      /\ req \in [prompt : BOOLEAN, items : Seq(Items), follows : Nat]
      /\ work \in Seq(WorkRecord)
  BY DEF LoopInv, LoopTyped
<1>3. /\ N \in Nat /\ N # 0 /\ loop.it = N /\ req.follows = N - 1 /\ M \in Nat
      /\ M = Len(ToolCalls(replies[N]))
      /\ loop.it \in 1..Iterations /\ Iterations \in Nat
  <2>1. loop.it \in 1..Iterations /\ Iterations \in Nat
    BY <1>2, SomeIteration DEF LoopRecord
  <2> QED BY <1>1, <1>2, <2>1 DEF LoopInv, ToldInv
<1>4. /\ loop' \in LoopRecord
      /\ \/ loop'.pc = "generate" /\ loop'.it = N + 1
         \/ loop'.pc = "done"
  <2>1. CASE loop.it < Iterations /\ loop' = [loop EXCEPT !.pc = "generate", !.it = @ + 1]
    <3>1. loop.it + 1 \in 1..Iterations
      BY <1>3, <2>1
    <3> QED BY <1>2, <1>3, <2>1, <3>1 DEF LoopRecord
  <2>2. CASE loop' = [loop EXCEPT !.pc = "done", !.outcome = "exhausted"]
    BY <1>2, <2>2 DEF LoopRecord
  <2> QED BY <1>1, <2>1, <2>2
<1>5. new \in Seq(Items) /\ Len(new) = M
  <2>1. \A i \in 1..M :
          [tag |-> "output", it |-> loop.it, ix |-> i, out |-> work[i].out] \in Items
    <3> SUFFICES ASSUME NEW i \in 1..M
                 PROVE  [tag |-> "output", it |-> loop.it, ix |-> i, out |-> work[i].out] \in Items
      OBVIOUS
    <3>1. work[i] \in WorkRecord
      BY <1>2, ElementOfSeq
    <3>2. work[i].out \in Results /\ loop.it \in Nat /\ i \in Nat
      BY <1>3, <3>1 DEF WorkRecord
    <3> QED BY <3>2 DEF Items
  <2> QED BY <1>3, <2>1
<1>6. Bared(new) = ShapeOf(N, "output", ToolCalls(replies[N]))
  BY <1>3 DEF Bared, Bare, ShapeOf
<1>7. \A i \in 1..M : new[i] = [tag |-> "output", it |-> loop.it, ix |-> i, out |-> work[i].out]
  OBVIOUS
<1> HIDE DEF new
<1>8. /\ req.items \o new \in Seq(Items)
      /\ Len(req.items \o new) = Len(req.items) + M
      /\ \A i \in 1..(Len(req.items) + M) :
           (req.items \o new)[i] =
             IF i <= Len(req.items) THEN req.items[i] ELSE new[i - Len(req.items)]
  BY <1>2, <1>5, ConcatProperties
<1>9. /\ req' \in [prompt : BOOLEAN, items : Seq(Items), follows : Nat]
      /\ req'.items = req.items \o new /\ req'.follows = N /\ req'.prompt = FALSE
  BY <1>1, <1>3, <1>8
<1>10. LoopTyped'
  <2>1. work' \in Seq(WorkRecord)
    BY <1>1, EmptySeq
  <2> QED BY <1>1, <1>2, <1>4, <1>9, <2>1 DEF LoopTyped
<1>11. PlacesInv'
  <2>1. Busy = {}
    BY <1>1 DEF Busy, InHandler
  <2>2. slots = 0
    BY <2>1, FS_EmptySet DEF LoopInv, PlacesInv
  <2>3. Len(work') = 0 /\ work' = <<>>
    BY <1>1
  <2>4. Parallel' = FALSE
    BY <2>3 DEF Parallel
  <2> QED BY <1>1, <2>2, <2>3, <2>4 DEF PlacesInv
<1>12. ToldInv'
  <2>1. Bared(req.items) = FlattenSeq(Slices(replies, N - 1))
    BY <1>3 DEF LoopInv, ToldInv
  <2>2. Bared(req'.items) = Bared(req.items) \o Bared(new)
    BY <1>2, <1>5, <1>9, BaredConcat
  <2>3. FlattenSeq(Slices(replies, N))
          = FlattenSeq(Slices(replies, N - 1)) \o ShapeOf(N, "output", ToolCalls(replies[N]))
    BY <1>2, <1>3, OutputsJoin
  <2>4. Bared(req'.items) = FlattenSeq(Slices(replies', req'.follows))
    BY <1>1, <1>6, <1>9, <2>1, <2>2, <2>3
  <2>5. (Bared(req.items) = FlattenSeq(Slices(replies, req.follows)))'
    BY <2>4 DEF Bared, Slices, SliceOf, ShapeOf
  <2>6. (N + 1) - 1 = N
    BY <1>3
  <2> QED BY <1>1, <1>3, <1>4, <1>9, <2>5, <2>6 DEF ToldInv
<1>13. HandlersInv'
  BY <1>4 DEF HandlersInv
<1>14. OutputsInv'
  <2>1. ASSUME NEW x \in ran' PROVE x.it \in 1..Len(replies')
    BY <1>1, <2>1 DEF LoopInv, OutputsInv
  <2>2. \A a, b, c : Reported(a, b, c) => Reported(a, b, c)'
    <3> SUFFICES ASSUME NEW a, NEW b, NEW c, Reported(a, b, c)
                 PROVE  Reported(a, b, c)'
      OBVIOUS
    <3>1. Handled(a, b)' = Handled(a, b)
      BY <1>1 DEF Handled
    <3> QED BY <1>1, <3>1, ReportedStays
  <2>3. ASSUME NEW n \in 1..Len(req'.items), req'.items[n].tag = "output"
        PROVE  LET x == req'.items[n]
               IN  x.it \in 1..N /\ Reported(x.it, x.ix, x.out)
    <3>1. Len(req.items) \in Nat
      BY <1>2
    <3>2. CASE n <= Len(req.items)
      <4>1. n \in 1..Len(req.items) /\ req'.items[n] = req.items[n]
        BY <1>8, <1>9, <3>1, <3>2
      <4>2. LET x == req.items[n]
            IN  x.it \in 1..req.follows /\ Reported(x.it, x.ix, x.out)
        BY <2>3, <4>1 DEF LoopInv, OutputsInv
      <4>3. \A a \in 1..(N - 1) : a \in 1..N
        BY <1>3
      <4> QED BY <1>3, <4>1, <4>2, <4>3
    <3>3. CASE ~(n <= Len(req.items))
      <4> DEFINE i == n - Len(req.items)
      <4>1. i \in 1..M /\ req'.items[n] = new[i]
        <5>1. n \in 1..(Len(req.items) + M)
          BY <1>8, <1>9
        <5>2. (req.items \o new)[n] = new[i]
          BY <1>8, <3>3, <5>1
        <5>3. i \in 1..M
          <6> DEFINE L == Len(req.items)
          <6>1. L \in Nat /\ M \in Nat /\ n \in 1..(L + M) /\ ~(n <= L)
            BY <1>3, <3>1, <3>3, <5>1
          <6> HIDE DEF L, M
          <6>2. n - L \in 1..M
            BY <6>1
          <6> QED BY <6>2 DEF L
        <5> QED BY <1>9, <5>2, <5>3
      <4> HIDE DEF i
      <4>2. Reported(loop.it, i, work[i].out)
        BY <1>1, <4>1 DEF LoopInv, HandlersInv
      <4>3. N \in 1..N
        BY <1>3
      <4>4. req'.items[n] = [tag |-> "output", it |-> loop.it, ix |-> i, out |-> work[i].out]
        BY <1>7, <4>1
      <4>5. req'.items[n].it = N /\ req'.items[n].ix = i /\ req'.items[n].out = work[i].out
        BY <1>3, <4>4
      <4> QED BY <1>3, <4>2, <4>3, <4>5
    <3> QED BY <3>1, <3>2, <3>3
  <2>4. ASSUME NEW n \in 1..Len(req'.items), req'.items[n].tag = "output"
        PROVE  /\ req'.items[n].it \in 1..req'.follows
               /\ (\A a, b, c : (a = req.items[n].it /\ b = req.items[n].ix /\ c = req.items[n].out)
                     => Reported(a, b, c))'
    <3> SUFFICES ASSUME NEW a, NEW b, NEW c, a = req'.items[n].it, b = req'.items[n].ix,
                        c = req'.items[n].out
                 PROVE  a \in 1..N /\ Reported(a, b, c)'
      BY <1>9, <2>3, <2>4
    <3>1. a \in 1..N /\ Reported(a, b, c)
      BY <2>3, <2>4
    <3> QED BY <2>2, <3>1
  <2> QED BY <2>1, <2>4 DEF OutputsInv
<1> QED BY <1>10, <1>11, <1>12, <1>13, <1>14 DEF LoopInv

\* A step of one call: where it may go, and what the semaphore says of it.
Moves(i, w) ==
  \/ /\ work[i].pc = "new" /\ MayEnter(i) /\ w.pc \in InHandler
     /\ slots' = IF Parallel THEN slots + 1 ELSE slots
  \/ work[i].pc = "new" /\ Parallel /\ w.pc = "done" /\ slots' = slots
  \/ work[i].pc \in InHandler /\ w.pc \in InHandler /\ slots' = slots
  \/ /\ work[i].pc \in InHandler /\ w.pc = "done"
     /\ slots' = IF Parallel THEN slots - 1 ELSE slots

\* The calls after the step of one of them.
LEMMA WorkAfter ==
  ASSUME work \in Seq(WorkRecord), NEW i \in 1..Len(work), NEW w \in WorkRecord,
         work' = [work EXCEPT ![i] = w]
  PROVE  /\ work' \in Seq(WorkRecord) /\ Len(work') = Len(work)
         /\ work'[i] = w
         /\ \A j \in 1..Len(work) : j # i => work'[j] = work[j]
BY ExceptSeq

\* No place is lost and none is taken twice.
LEMMA MovesKeepPlaces ==
  ASSUME LoopInv, loop.pc = "tools", loop' = loop, NEW i \in 1..Len(work),
         NEW w \in WorkRecord, work' = [work EXCEPT ![i] = w], Moves(i, w)
  PROVE  PlacesInv'
<1>1. /\ work' \in Seq(WorkRecord) /\ Len(work') = Len(work) /\ Len(work) \in Nat
      /\ work'[i] = w /\ \A j \in 1..Len(work) : j # i => work'[j] = work[j]
  <2>1. work \in Seq(WorkRecord) /\ Len(work) \in Nat
    BY DEF LoopInv, LoopTyped
  <2> QED BY <2>1, WorkAfter
<1>2. Parallel' = Parallel /\ Places' = Places
  BY <1>1 DEF Parallel, Places
<1>3. PlacesInv
  BY DEF LoopInv
<1>4. IsFiniteSet(Busy) /\ Busy \subseteq 1..Len(work) /\ Cardinality(Busy) \in Nat
  <2>1. IsFiniteSet(1..Len(work)) /\ Busy \subseteq 1..Len(work)
    BY <1>1, FS_Interval DEF Busy
  <2>2. IsFiniteSet(Busy)
    BY <2>1, FS_Subset
  <2> QED BY <2>1, <2>2, FS_CardinalityType
<1>5. Busy' = IF w.pc \in InHandler THEN Busy \cup {i} ELSE Busy \ {i}
  BY <1>1 DEF Busy
<1>6. w.pc \in {"done"} \cup InHandler /\ "done" \notin InHandler /\ "new" \notin InHandler
  BY DEF Moves, InHandler
<1>7. slots' = IF Parallel THEN Cardinality(Busy)' ELSE 0
  <2>1. slots = IF Parallel THEN Cardinality(Busy) ELSE 0
    BY <1>3 DEF PlacesInv
  <2>2. CASE work[i].pc = "new" /\ w.pc \in InHandler
    <3>1. i \notin Busy /\ Busy' = Busy \cup {i}
      BY <1>5, <1>6, <2>2 DEF Busy
    <3>2. Cardinality(Busy') = Cardinality(Busy) + 1
      BY <1>4, <3>1, FS_AddElement
    <3> QED BY <1>6, <2>1, <2>2, <3>2 DEF Moves
  <2>3. CASE work[i].pc = "new" /\ w.pc = "done"
    <3>1. Busy' = Busy
      BY <1>5, <1>6, <2>3 DEF Busy
    <3> QED BY <1>6, <2>1, <2>3, <3>1 DEF Moves
  <2>4. CASE work[i].pc \in InHandler /\ w.pc \in InHandler
    <3>1. Busy' = Busy
      BY <1>5, <2>4 DEF Busy
    <3> QED BY <1>6, <2>1, <2>4, <3>1 DEF Moves
  <2>5. CASE work[i].pc \in InHandler /\ w.pc = "done"
    <3>1. i \in Busy /\ Busy' = Busy \ {i}
      BY <1>5, <1>6, <2>5 DEF Busy
    <3>2. Cardinality(Busy') = Cardinality(Busy) - 1
      BY <1>4, <3>1, FS_RemoveElement
    <3> QED BY <1>6, <2>1, <2>5, <3>2 DEF Moves
  <2> QED BY <2>2, <2>3, <2>4, <2>5 DEF Moves
<1>8. Parallel => Cardinality(Busy)' <= Places
  <2> SUFFICES ASSUME Parallel PROVE Cardinality(Busy)' <= Places
    OBVIOUS
  <2>1. Places \in Int /\ Cardinality(Busy) <= Places /\ slots = Cardinality(Busy)
    BY <1>1, <1>3, ToolLoopAssumption DEF PlacesInv, Places
  <2>2. CASE work[i].pc = "new" /\ w.pc \in InHandler
    <3>1. slots < Places /\ Cardinality(Busy)' = slots + 1
      BY <1>6, <1>7, <2>2 DEF Moves, MayEnter
    <3> QED BY <1>4, <2>1, <3>1
  <2>3. CASE ~(work[i].pc = "new" /\ w.pc \in InHandler)
    <3>1. slots' = slots \/ slots' = slots - 1
      BY <2>3 DEF Moves
    <3> QED BY <1>4, <1>7, <2>1, <3>1
  <2> QED BY <2>2, <2>3
<1>9. ASSUME ~Parallel, NEW j \in 1..Len(work), work'[j].pc # "new", NEW k \in 1..(j - 1)
      PROVE  work'[k].pc = "done"
  <2>1. k \in 1..Len(work) /\ k # j /\ k \in Nat /\ j \in Nat /\ k < j
    BY <1>1
  <2>2. \A a \in 1..Len(work) : work[a].pc # "new" => \A b \in 1..(a - 1) : work[b].pc = "done"
    BY <1>3, <1>9 DEF PlacesInv
  <2>3. CASE j = i /\ work[i].pc = "new"
    <3>1. work[k].pc = "done"
      BY <1>6, <1>9, <2>3 DEF Moves, MayEnter
    <3> QED BY <1>1, <2>1, <2>3, <3>1
  <2>4. CASE ~(j = i /\ work[i].pc = "new")
    <3>1. work[j].pc # "new"
      BY <1>1, <1>9, <2>4
    <3>2. work[k].pc = "done"
      BY <2>2, <3>1
    <3>3. k # i
      BY <1>6, <3>2 DEF Moves
    <3> QED BY <1>1, <2>1, <3>2, <3>3
  <2> QED BY <2>3, <2>4
<1>10. slots' = (IF Parallel THEN Cardinality(Busy) ELSE 0)'
  BY <1>2, <1>7
<1>11. (Parallel => Cardinality(Busy) <= Places)'
  BY <1>2, <1>8
<1> QED BY <1>1, <1>2, <1>9, <1>10, <1>11 DEF PlacesInv

\* What stays of the rest when one call moves.
LEMMA MovesKeepRest ==
  ASSUME LoopInv, loop.pc = "tools", NEW i \in 1..Len(work),
         NEW w \in WorkRecord, work' = [work EXCEPT ![i] = w],
         UNCHANGED <<loop, req, replies, offered, servers, cancelled>>
  PROVE  LoopTyped' /\ ToldInv'
<1>1. work \in Seq(WorkRecord)
  BY DEF LoopInv, LoopTyped
<1>2. work' \in Seq(WorkRecord) /\ Len(work') = Len(work)
  BY <1>1, WorkAfter
<1>3. LoopTyped'
  BY <1>2 DEF LoopInv, LoopTyped
<1>4. ToldInv'
  <2>1. ToldInv
    BY DEF LoopInv
  <2>2. (Bared(req.items) = FlattenSeq(Slices(replies, req.follows)))'
    BY <2>1 DEF ToldInv, Bared, Slices, SliceOf, ShapeOf
  <2>3. ToolCalls(replies[loop.it])' = ToolCalls(replies[loop.it])
    BY DEF ToolCalls
  <2> QED BY <1>2, <2>1, <2>2, <2>3 DEF ToldInv
<1> QED BY <1>3, <1>4

\* A call enters its handler, goes on in it, or gives up before it.
LEMMA MoveKeeps ==
  ASSUME LoopInv, loop.pc = "tools", NEW i \in 1..Len(work),
         NEW w \in WorkRecord, work' = [work EXCEPT ![i] = w], Moves(i, w),
         UNCHANGED <<loop, req, replies, ran, offered, servers, cancelled>>,
         work[i].pc # "done",
         w.pc = "done" => w.out = "cancelled" /\ cancelled,
         w.pc = "running" => Missing(i) \/ Does[Tool(i)] \in Ends,
         w.pc \in InHandler \ {"running"} => ~Missing(i) /\ Does[Tool(i)] \notin Ends,
         w.pc \in OverHttp => servers[Does[Tool(i)]] # "stdio"
  PROVE  LoopInv'
<1>1. PlacesInv' /\ LoopTyped' /\ ToldInv'
  BY MovesKeepPlaces, MovesKeepRest
<1>2. OutputsInv'
  <2>1. Len(replies) \in Nat
    BY DEF LoopInv, LoopTyped
  <2> QED BY <2>1, OutputsStay
<1>3. HandlersInv'
  <2>1. /\ Len(work') = Len(work) /\ work'[i] = w
        /\ \A j \in 1..Len(work) : j # i => work'[j] = work[j]
    <3>1. work \in Seq(WorkRecord)
      BY DEF LoopInv, LoopTyped
    <3> QED BY <3>1, WorkAfter
  <2>2. \A a, b, c : Reported(a, b, c) => Reported(a, b, c)'
    <3> SUFFICES ASSUME NEW a, NEW b, NEW c, Reported(a, b, c)
                 PROVE  Reported(a, b, c)'
      OBVIOUS
    <3>1. Handled(a, b)' = Handled(a, b)
      BY DEF Handled
    <3> QED BY <3>1, ReportedStays
  <2>3. \A a, b : Handled(a, b)' = Handled(a, b)
    BY DEF Handled
  <2>4. \A j : Tool(j)' = Tool(j) /\ Missing(j)' = Missing(j)
    BY DEF Tool, Missing
  <2>5. HandlersInv
    BY DEF LoopInv
  <2> SUFFICES ASSUME NEW j \in 1..Len(work), NEW k, k = loop.it, NEW o, o = work'[j].out
               PROVE  /\ work'[j].pc # "done" => Handled(k, j)' = {}
                      /\ work'[j].pc = "done" => Reported(k, j, o)'
                      /\ work'[j].pc = "running" => Missing(j)' \/ Does[Tool(j)'] \in Ends
                      /\ work'[j].pc \in InHandler \ {"running"} =>
                           ~Missing(j)' /\ Does[Tool(j)'] \notin Ends
                      /\ work'[j].pc \in OverHttp => servers[Does[Tool(j)']] # "stdio"
    BY <2>1, <2>4 DEF HandlersInv
  <2>6. CASE j = i
    <3>1. Handled(k, j) = {}
      BY <2>5, <2>6 DEF HandlersInv
    <3>2. w.pc = "done" => Reported(k, j, o)'
      <4>1. ASSUME w.pc = "done" PROVE Reported(k, j, o)
        BY <2>1, <2>6, <3>1, <4>1 DEF Reported
      <4> QED BY <2>2, <4>1
    <3> QED BY <2>1, <2>3, <2>4, <2>6, <3>1, <3>2
  <2>7. CASE j # i
    <3>1. work'[j] = work[j]
      BY <2>1, <2>7
    <3>2. /\ work[j].pc # "done" => Handled(k, j) = {}
          /\ work[j].pc = "done" => Reported(k, j, o)
          /\ work[j].pc = "running" => Missing(j) \/ Does[Tool(j)] \in Ends
          /\ work[j].pc \in InHandler \ {"running"} => ~Missing(j) /\ Does[Tool(j)] \notin Ends
          /\ work[j].pc \in OverHttp => servers[Does[Tool(j)]] # "stdio"
      BY <2>5, <3>1 DEF HandlersInv
    <3> QED BY <2>2, <2>3, <2>4, <3>1, <3>2
  <2> QED BY <2>6, <2>7
<1> QED BY <1>1, <1>2, <1>3 DEF LoopInv

\* A handler ends, and what it ended with is the output of its call.
LEMMA EndKeeps ==
  ASSUME LoopInv, loop.pc = "tools", NEW i \in 1..Len(work), NEW did \in Dids,
         work[i].pc \in InHandler, CanEnd(Tool(i), did), Left(i, did),
         UNCHANGED <<loop, req, replies, offered, servers, cancelled>>
  PROVE  LoopInv'
<1> DEFINE w == [pc |-> "done", out |-> Result(did)]
           h == [it |-> loop.it, ix |-> i, did |-> did]
<1>1. /\ work' = [work EXCEPT ![i] = w] /\ slots' = (IF Parallel THEN slots - 1 ELSE slots)
      /\ ran' = ran \cup {h}
  BY DEF Left, Freed
<1>2. w \in WorkRecord /\ w.pc = "done" /\ w.out = Result(did)
  BY DEF WorkRecord, Results, Result
<1> HIDE DEF w
<1>3. Moves(i, w)
  BY <1>1, <1>2 DEF Moves
<1>4. PlacesInv' /\ LoopTyped' /\ ToldInv'
  BY <1>1, <1>2, <1>3, MovesKeepPlaces, MovesKeepRest
<1>5. /\ Len(replies) \in Nat /\ Len(replies) = loop.it /\ req.follows = loop.it - 1
      /\ loop.it \in 1..Len(replies) /\ ~(loop.it <= req.follows) /\ loop.it \in Nat
  <2>1. Len(replies) \in Nat /\ loop.it \in 1..Iterations
    BY DEF LoopInv, LoopTyped, LoopRecord
  <2>2. Len(replies) = loop.it /\ req.follows = loop.it - 1
    BY DEF LoopInv, ToldInv
  <2> QED BY <2>1, <2>2, SomeIteration
<1>6. OutputsInv'
  <2>1. \A r \in ran' : r \in ran \/ (r.it \in 1..Len(replies') /\ ~(r.it <= req.follows))
    BY <1>1, <1>5
  <2>2. ran \subseteq ran'
    BY <1>1
  <2> HIDE DEF h
  <2> QED BY <1>5, <2>1, <2>2, OutputsStay
<1>7. HandlersInv'
  <2>1. /\ Len(work') = Len(work) /\ work'[i] = w
        /\ \A j \in 1..Len(work) : j # i => work'[j] = work[j]
    <3>1. work \in Seq(WorkRecord)
      BY DEF LoopInv, LoopTyped
    <3> QED BY <1>1, <1>2, <3>1, WorkAfter
  <2>2. \A a, b, c : Reported(a, b, c) /\ b # i => Reported(a, b, c)'
    <3> SUFFICES ASSUME NEW a, NEW b, NEW c, Reported(a, b, c), b # i
                 PROVE  Reported(a, b, c)'
      OBVIOUS
    <3>1. Handled(a, b)' = Handled(a, b)
      BY <1>1 DEF Handled
    <3> QED BY <3>1, ReportedStays
  <2>3. \A a, b : b # i => Handled(a, b)' = Handled(a, b)
    BY <1>1 DEF Handled
  <2>4. \A j : Tool(j)' = Tool(j) /\ Missing(j)' = Missing(j)
    BY DEF Tool, Missing
  <2>5. HandlersInv
    BY DEF LoopInv
  <2> SUFFICES ASSUME NEW j \in 1..Len(work), NEW k, k = loop.it, NEW o, o = work'[j].out
               PROVE  /\ work'[j].pc # "done" => Handled(k, j)' = {}
                      /\ work'[j].pc = "done" => Reported(k, j, o)'
                      /\ work'[j].pc = "running" => Missing(j)' \/ Does[Tool(j)'] \in Ends
                      /\ work'[j].pc \in InHandler \ {"running"} =>
                           ~Missing(j)' /\ Does[Tool(j)'] \notin Ends
                      /\ work'[j].pc \in OverHttp => servers[Does[Tool(j)']] # "stdio"
    BY <2>1, <2>4 DEF HandlersInv
  <2>6. CASE j = i
    <3>1. Handled(k, j) = {}
      <4>1. work[i].pc # "done"
        BY DEF InHandler
      <4> QED BY <2>5, <2>6, <4>1 DEF HandlersInv
    <3>2. Handled(k, j)' = {[it |-> k, ix |-> j, did |-> did]}
      BY <1>1, <2>6, <3>1 DEF Handled
    <3>3. (CanEnd(ToolCalls(replies[k])[j], did))'
      BY <2>6 DEF CanEnd, Tool
    <3>4. o = Result(did) /\ (o = Result(did))'
      BY <1>2, <2>1, <2>6 DEF Result
    <3>5. did \in Dids'
      BY DEF Dids, McpEnds, Unnumbered
    <3>6. Reported(k, j, o)'
      BY <3>2, <3>3, <3>4, <3>5 DEF Reported
    <3>7. work'[j].pc = "done" /\ "done" \notin InHandler
      BY <1>2, <2>1, <2>6 DEF InHandler
    <3> QED BY <3>6, <3>7 DEF InHandler, OverHttp
  <2>7. CASE j # i
    <3>1. work'[j] = work[j]
      BY <2>1, <2>7
    <3>2. /\ work[j].pc # "done" => Handled(k, j) = {}
          /\ work[j].pc = "done" => Reported(k, j, o)
          /\ work[j].pc = "running" => Missing(j) \/ Does[Tool(j)] \in Ends
          /\ work[j].pc \in InHandler \ {"running"} => ~Missing(j) /\ Does[Tool(j)] \notin Ends
          /\ work[j].pc \in OverHttp => servers[Does[Tool(j)]] # "stdio"
      BY <2>5, <3>1 DEF HandlersInv
    <3> QED BY <2>2, <2>3, <2>4, <2>7, <3>1, <3>2
  <2> QED BY <2>6, <2>7
<1> QED BY <1>4, <1>6, <1>7 DEF LoopInv

\* A call in the hands of an MCP server has a tool of the run and a server
\* that is configured.
LEMMA AtServer ==
  ASSUME LoopInv, loop.pc = "tools", NEW i \in 1..Len(work),
         work[i].pc \in InHandler \ {"running"}
  PROVE  /\ Tool(i) \in offered /\ Does[Tool(i)] \in DOMAIN servers
         /\ work[i].pc \in OverHttp => servers[Does[Tool(i)]] # "stdio"
<1>1. ~Missing(i) /\ Does[Tool(i)] \notin Ends
  BY DEF LoopInv, HandlersInv
<1>2. Tool(i) \in offered /\ Tool(i) \in Tools
  BY <1>1 DEF Missing, LoopInv, LoopTyped
<1>3. Does[Tool(i)] \in Servers
  BY <1>1, <1>2, ToolLoopAssumption
<1>4. work[i].pc \in OverHttp => servers[Does[Tool(i)]] # "stdio"
  BY DEF LoopInv, HandlersInv
<1> QED BY <1>1, <1>2, <1>3, <1>4 DEF Missing

\* A message that answers is taken: the next request follows, or the call
\* ends with it.
LEMMA TakesKeeps ==
  ASSUME LoopInv, loop.pc = "tools", NEW i \in 1..Len(work),
         work[i].pc \in InHandler \ {"running"},
         NEW from \in McpEnds, from \in Unnumbered => work[i].pc \in OverHttp,
         Takes(i, from),
         UNCHANGED <<loop, req, replies, offered, servers, cancelled>>
  PROVE  LoopInv'
<1>1. work[i] \in WorkRecord
  BY ElementOfSeq DEF LoopInv, LoopTyped
<1>2. CASE work[i].pc \in {"init", "postInit", "notify"}
  <2> DEFINE next == NextRequest[work[i].pc]
             w == [work[i] EXCEPT !.pc = next]
  <2>1. next \in {"call", "notify", "postCall"}
    BY <1>2 DEF NextRequest
  <2>2. work[i].pc \in DOMAIN NextRequest
    BY <1>2 DEF NextRequest
  <2> HIDE DEF next
  <2>3. work' = [work EXCEPT ![i] = w] /\ UNCHANGED <<slots, ran>>
    <3>1. work' = [work EXCEPT ![i].pc = next] /\ UNCHANGED <<slots, ran>>
      BY <2>2 DEF Takes, next
    <3> QED BY <3>1
  <2>4. w \in WorkRecord /\ w.pc = next
    BY <1>1, <2>1 DEF WorkRecord, InHandler
  <2> HIDE DEF w
  <2>5. Moves(i, w)
    BY <2>1, <2>3, <2>4 DEF Moves, InHandler
  <2>6. ~Missing(i) /\ Does[Tool(i)] \notin Ends
    BY DEF LoopInv, HandlersInv
  <2>7. work[i].pc # "done" /\ w.pc # "done" /\ w.pc # "running"
    BY <1>2, <2>1, <2>4
  <2>8. w.pc \in OverHttp => servers[Does[Tool(i)]] # "stdio"
    <3>1. w.pc \in OverHttp => work[i].pc \in OverHttp
      BY <1>2, <2>1, <2>4 DEF OverHttp, NextRequest, next
    <3> QED BY <3>1, AtServer
  <2> QED BY <2>3, <2>4, <2>5, <2>6, <2>7, <2>8, MoveKeeps
<1>3. CASE ~(work[i].pc \in {"init", "postInit", "notify"})
  <2>1. Left(i, from)
    BY <1>3 DEF Takes, NextRequest
  <2>2. CanEnd(Tool(i), from) /\ from \in Dids
    <3>1. /\ Tool(i) \in offered /\ Does[Tool(i)] \in DOMAIN servers
          /\ from \in Unnumbered => servers[Does[Tool(i)]] # "stdio"
      BY AtServer
    <3> QED BY <3>1 DEF CanEnd, Dids
  <2> QED BY <2>1, <2>2, EndKeeps
<1> QED BY <1>2, <1>3

\* Of several messages the one that is taken has the number of the request:
\* it is its reply, or a request of the server's own.
LEMMA FrameTaken ==
  ASSUME NEW i, NEW f \in Frames, Matches(f, i)
  PROVE  Stray(f, i) \in McpEnds \ Unnumbered
<1>1. Awaited(i) \in 1..2
  BY DEF Awaited
<1>2. f.id = Awaited(i) /\ Stray(f, i) = f.from
  BY DEF Matches, Numbered, Stray
<1>3. f.from \in {"reply", "request"}
  BY <1>1, <1>2 DEF Frames
<1> QED BY <1>2, <1>3 DEF McpEnds, Unnumbered

\* A POST is answered by whatever message its body is.
LEMMA BodyTaken ==
  ASSUME NEW i, NEW f \in Frames
  PROVE  Plain(f, i) \in McpEnds
<1>1. CASE f.id = Awaited(i)
  <2>1. Plain(f, i) = f.from /\ Awaited(i) \in 1..2
    BY <1>1 DEF Plain, Numbered, Awaited
  <2>2. f.from \in {"reply", "request"}
    BY <1>1, <2>1 DEF Frames
  <2> QED BY <2>1, <2>2 DEF McpEnds
<1>2. CASE f.id # Awaited(i)
  BY <1>2 DEF Plain, Numbered, McpEnds, Unnumbered
<1> QED BY <1>1, <1>2

\* Every step of a tool call.
LEMMA CallStepKeeps ==
  ASSUME LoopInv, loop.pc = "tools", NEW i \in 1..Len(work), CallStep(i),
         UNCHANGED <<loop, req, replies, offered, servers, cancelled>>
  PROVE  LoopInv'
<1>1. work[i] \in WorkRecord
  BY ElementOfSeq DEF LoopInv, LoopTyped
<1>2. CASE Enter(i)
  <2> DEFINE w == [work[i] EXCEPT !.pc = Entered(i)]
  <2>1. /\ Entered(i) \in {"running", "init", "postInit"}
        /\ Entered(i) = "running" => Missing(i) \/ Does[Tool(i)] \in Ends
        /\ Entered(i) # "running" => ~Missing(i) /\ Does[Tool(i)] \notin Ends
        /\ Entered(i) \in OverHttp => servers[Does[Tool(i)]] # "stdio"
    BY DEF Entered, OverHttp
  <2>2. /\ work[i].pc = "new" /\ MayEnter(i) /\ work' = [work EXCEPT ![i] = w]
        /\ slots' = (IF Parallel THEN slots + 1 ELSE slots) /\ ran' = ran
    BY <1>2 DEF Enter
  <2>3. w \in WorkRecord /\ w.pc = Entered(i)
    <3>1. Entered(i) \in InHandler \cup {"new", "done"}
      BY <2>1 DEF InHandler
    <3> QED BY <1>1, <3>1 DEF WorkRecord
  <2> HIDE DEF w
  <2>4. Moves(i, w)
    BY <2>1, <2>2, <2>3 DEF Moves, InHandler
  <2>5. w.pc # "done"
    BY <2>1, <2>3
  <2> QED BY <2>1, <2>2, <2>3, <2>4, <2>5, MoveKeeps
<1>3. CASE GiveUp(i)
  <2> DEFINE w == [pc |-> "done", out |-> "cancelled"]
  <2>1. /\ work[i].pc = "new" /\ Parallel /\ cancelled /\ work' = [work EXCEPT ![i] = w]
        /\ slots' = slots /\ ran' = ran
    BY <1>3 DEF GiveUp
  <2>2. /\ w \in WorkRecord /\ w.pc = "done" /\ w.out = "cancelled"
        /\ "done" \notin InHandler /\ "done" \notin OverHttp
    BY DEF WorkRecord, Results, InHandler, OverHttp
  <2> HIDE DEF w
  <2>3. Moves(i, w)
    BY <2>1, <2>2 DEF Moves
  <2> QED BY <2>1, <2>2, <2>3, MoveKeeps
<1>4. CASE Return(i)
  <2> DEFINE did == IF Missing(i) THEN "missing" ELSE Does[Tool(i)]
  <2>1. work[i].pc = "running" /\ Left(i, did)
    BY <1>4 DEF Return
  <2>2. Missing(i) \/ Does[Tool(i)] \in Ends
    BY <2>1 DEF LoopInv, HandlersInv
  <2>3. did \in Dids /\ CanEnd(Tool(i), did)
    BY <2>2 DEF Dids, CanEnd, Missing
  <2>4. work[i].pc \in InHandler
    BY <2>1 DEF InHandler
  <2> HIDE DEF did
  <2> QED BY <2>1, <2>3, <2>4, EndKeeps
<1>5. CASE StdioFrame(i)
  <2>1. work[i].pc \in InHandler \ {"running"}
    BY <1>5 DEF StdioFrame, InHandler
  <2>2. PICK f \in Frames : Matches(f, i) /\ Takes(i, Stray(f, i))
    BY <1>5 DEF StdioFrame
  <2>3. Stray(f, i) \in McpEnds /\ Stray(f, i) \notin Unnumbered
    BY <2>2, FrameTaken
  <2> QED BY <2>1, <2>2, <2>3, TakesKeeps
<1>6. CASE StdioFails(i) \/ PostFails(i)
  <2>1. work[i].pc \in InHandler /\ Left(i, "mcpError")
    BY <1>6 DEF StdioFails, PostFails, InHandler
  <2>2. "mcpError" \in Dids /\ CanEnd(Tool(i), "mcpError")
    BY DEF Dids, CanEnd
  <2> QED BY <2>1, <2>2, EndKeeps
<1>7. CASE Posted(i)
  <2>1. work[i].pc \in InHandler \ {"running"}
    BY <1>7 DEF Posted, InHandler
  <2>2. PICK from \in {Plain(f, i) : f \in Frames} \cup {"nothing"} : Takes(i, from)
    BY <1>7 DEF Posted
  <2>3. from \in McpEnds
    <3>1. CASE from = "nothing"
      BY <3>1 DEF McpEnds, Unnumbered
    <3>2. CASE from # "nothing"
      BY <3>2, BodyTaken
    <3> QED BY <3>1, <3>2
  <2>4. work[i].pc \in OverHttp
    BY <1>7 DEF Posted, OverHttp
  <2> QED BY <2>1, <2>2, <2>3, <2>4, TakesKeeps
<1>8. CASE PostedEvents(i)
  <2>1. work[i].pc \in InHandler \ {"running"}
    BY <1>8 DEF PostedEvents, InHandler
  <2>2. PICK f \in Frames : Matches(f, i) /\ Takes(i, Stray(f, i))
    BY <1>8 DEF PostedEvents
  <2>3. Stray(f, i) \in McpEnds /\ Stray(f, i) \notin Unnumbered
    BY <2>2, FrameTaken
  <2> QED BY <2>1, <2>2, <2>3, TakesKeeps
<1> QED BY <1>2, <1>3, <1>4, <1>5, <1>6, <1>7, <1>8 DEF CallStep

\* While a tool loop runs, nothing is being assembled any more.
LEMMA JobStep ==
  ASSUME JobInv, ModeInv, [Next]_vars
  PROVE  JobInv'
<1>1. CASE Registry \/ Stop \/ Cancel \/ StreamAnswered \/ Call \/ Loop \/ Stream
  <2>1. UNCHANGED <<job, mode>>
    BY <1>1 DEF Registry, Stop, Cancel, StreamAnswered, Call, Loop, Stream, assemblyVars
  <2> QED BY <2>1 DEF JobInv
<1>2. CASE Pass
  <2>1. mode # "loop"
    <3>1. CASE PassNext
      BY <3>1 DEF PassNext, LoadNext, PassFails, Validated, TurnComes, WaitEnds, InPass, JobInv
    <3> QED BY <1>2, <3>1 DEF Pass
  <2> QED BY <1>2, <2>1 DEF Pass, JobInv
<1>3. CASE Edit
  <2>1. mode # "loop"
    BY <1>3 DEF Edit, InPass, JobInv
  <2> QED BY <1>3, <2>1 DEF Edit, JobInv
<1>4. CASE StartRun
  <2>1. job' = [NoJob EXCEPT !.pc = "ready"]
    BY <1>4 DEF StartRun, Assembled, Built
  <2> QED BY <2>1 DEF NoJob, JobInv
<1>5. CASE Preview
  <2>1. job.pc = "previewing" /\ mode' = mode
    BY <1>5 DEF Preview, Previewed
  <2> QED BY <2>1 DEF JobInv
<1>6. ASSUME NEW name, Resolve(name) PROVE JobInv'
  <2>1. job.pc = "none" /\ job' = job
    BY <1>6 DEF Resolve, assemblyVars
  <2> QED BY <2>1 DEF JobInv
<1>7. CASE UNCHANGED vars
  BY <1>7 DEF vars, assemblyVars, JobInv
<1> QED BY <1>1, <1>2, <1>3, <1>4, <1>5, <1>6, <1>7 DEF Next

\* No handlers are offered but those there are.
LEMMA OfferedAreTools ==
  ASSUME NEW r
  PROVE  Filtered(r) \subseteq Tools /\ Offered(r) \subseteq Tools
BY AssemblyAssumption DEF Filtered, Offered

\* RunPrepared begins with its first request, or with none.
LEMMA StartKeeps ==
  ASSUME LoopInv, loop.pc = "off", NEW parallel \in BOOLEAN, LoopStarts(parallel),
         UNCHANGED <<req, work, slots, replies, ran>>, offered' \subseteq Tools
  PROVE  LoopInv'
<1>1. 1 \in 1..Iterations
  BY SomeIteration
<1>2. /\ loop' \in LoopRecord
      /\ (loop'.pc = "generate" /\ loop'.it = 1) \/ loop'.pc = "done"
  BY <1>1 DEF LoopStarts, NoLoop, LoopRecord
<1> QED BY <1>2, BeginKeeps

\* Every step of the specification.
LEMMA LoopInvStep ==
  ASSUME LoopInv, JobInv, ModeInv, http.reply \in Replies, [Next]_vars
  PROVE  LoopInv'
<1>1. CASE Registry \/ Stop \/ Pass \/ Edit \/ Cancel \/ StreamAnswered \/ Stream \/ UNCHANGED vars
  <2>1. UNCHANGED <<loopVars, offered, servers>> /\ (cancelled => cancelled')
    BY <1>1 DEF Registry, Stop, Pass, Edit, Cancel, StreamAnswered, Stream, vars, callVars
  <2> QED BY <2>1, SameLoop
<1>2. CASE Call
  <2>1. UNCHANGED <<loopVars, offered, servers, cancelled>>
    BY <1>2, CallStepUnderWay DEF Call
  <2> QED BY <2>1, SameLoop
<1>3. CASE StartRun
  <2>1. loop.pc = "off"
    <3>1. job.pc = "assembling"
      BY <1>3 DEF StartRun, Assembled
    <3> QED BY <3>1 DEF JobInv, ModeInv
  <2>2. /\ UNCHANGED <<req, work, slots, replies, ran>>
        /\ \E parallel \in BOOLEAN : LoopStarts(parallel)
        /\ offered' = Offered(job.req)
    BY <1>3 DEF StartRun, Assembled, Built
  <2>3. offered' \subseteq Tools
    BY <2>2, OfferedAreTools
  <2> QED BY <2>1, <2>2, <2>3, StartKeeps
<1>4. CASE Preview
  <2>1. loop.pc = "off"
    <3>1. job.pc = "previewing"
      BY <1>4 DEF Preview, Previewed
    <3> QED BY <3>1 DEF JobInv, ModeInv
  <2>2. UNCHANGED loopVars /\ offered' = Filtered(job.req)
    BY <1>4 DEF Preview, Previewed, Built
  <2>3. offered' \subseteq Tools
    BY <2>2, OfferedAreTools
  <2>4. loop' = loop /\ loop \in LoopRecord /\ UNCHANGED <<req, work, slots, replies, ran>>
    BY <2>2 DEF loopVars, LoopInv, LoopTyped
  <2> QED BY <2>1, <2>3, <2>4, BeginKeeps
<1>5. ASSUME NEW name, Resolve(name) PROVE LoopInv'
  <2>1. loop.pc = "off"
    BY <1>5 DEF Resolve, ModeInv
  <2>2. UNCHANGED <<req, work, slots, replies, ran, offered, servers, cancelled>>
    BY <1>5 DEF Resolve
  <2>3. offered' \subseteq Tools
    BY <2>2 DEF LoopInv, LoopTyped
  <2>4. CASE \E parallel \in BOOLEAN : LoopStarts(parallel)
    BY <2>1, <2>2, <2>3, <2>4, StartKeeps
  <2>5. CASE loop' = loop
    BY <2>2, <2>5, SameLoop DEF loopVars
  <2> QED BY <1>5, <2>4, <2>5 DEF Resolve
<1>6. CASE Loop
  <2>1. LoopNext /\ UNCHANGED <<offered, servers>>
    BY <1>6 DEF Loop
  <2>2. CASE CallFailed
    BY <2>1, <2>2, StopKeeps DEF CallFailed
  <2>3. CASE FinalReply
    BY <2>1, <2>3, StopKeeps DEF FinalReply
  <2>4. CASE ToolReply
    BY <2>1, <2>4, ToolReplyKeeps
  <2>5. CASE Collect
    BY <2>1, <2>5, CollectKeeps
  <2>6. ASSUME loop.pc = "tools", NEW i \in 1..Len(work), CallStep(i),
               UNCHANGED <<kind, cancelled, workVars>>
        PROVE  LoopInv'
    <3>1. UNCHANGED <<loop, req, replies, offered, servers, cancelled>>
      BY <2>1, <2>6 DEF workVars
    <3> QED BY <2>6, <3>1, CallStepKeeps
  <2> QED BY <2>1, <2>2, <2>3, <2>4, <2>5, <2>6 DEF LoopNext
<1> QED BY <1>1, <1>2, <1>3, <1>4, <1>5, <1>6 DEF Next

\* Before a call there is nothing to tell.
LEMMA LoopInvStarts ==
  ASSUME Init
  PROVE  LoopInv /\ JobInv
<1>1. /\ loop = NoLoop /\ req = NoRequest /\ work = <<>> /\ slots = 0
      /\ replies = <<>> /\ ran = {} /\ offered = Tools /\ mode = "none"
  BY DEF Init
<1>2. LoopTyped
  <2>1. 1 \in 1..Iterations
    BY SomeIteration
  <2>2. <<>> \in Seq(Items) /\ <<>> \in Seq(WorkRecord) /\ <<>> \in Seq(Replies)
    BY EmptySeq
  <2> QED BY <1>1, <2>1, <2>2 DEF LoopTyped, NoLoop, NoRequest, LoopRecord
<1>3. PlacesInv
  <2>1. Len(work) = 0 /\ Parallel = FALSE
    BY <1>1 DEF Parallel
  <2> QED BY <1>1, <2>1 DEF PlacesInv
<1>4. ToldInv
  <2>1. Len(replies) = 0 /\ req.follows = 0 /\ req.prompt = TRUE /\ loop.pc = "off"
    BY <1>1 DEF NoRequest, NoLoop
  <2>2. Bared(req.items) = <<>> /\ Slices(replies, req.follows) = <<>>
    BY <1>1 DEF Bared, Slices, NoRequest
  <2>3. FlattenSeq(<<>>) = <<>>
    BY DEF FlattenSeq
  <2> QED BY <2>1, <2>2, <2>3 DEF ToldInv
<1>5. HandlersInv
  BY <1>1 DEF HandlersInv, NoLoop
<1>6. OutputsInv
  <2>1. Len(req.items) = 0
    BY <1>1 DEF NoRequest
  <2> QED BY <1>1, <2>1 DEF OutputsInv
<1>7. JobInv
  BY <1>1 DEF JobInv
<1> QED BY <1>2, <1>3, <1>4, <1>5, <1>6, <1>7 DEF LoopInv

\* The whole state of a call.
RunInv == IInv /\ PolicyInv /\ JobInv /\ LoopInv

\* It holds before a call ...
LEMMA RunInvStarts == Init => RunInv
BY InitHolds, IdleKeepsPolicy, LoopInvStarts DEF Init, RunInv

\* ... and is kept by every step.
LEMMA RunInvStep ==
  ASSUME RunInv, [Next]_vars
  PROVE  RunInv'
<1>1. IInv'
  BY NextKeepsStream, ModeStep DEF RunInv, IInv
<1>2. PolicyInv'
  BY PolicyStep DEF RunInv
<1>3. http.reply \in Replies /\ ModeInv
  BY DEF RunInv, PolicyInv, HttpRecord, IInv
<1>4. JobInv' /\ LoopInv'
  BY <1>3, JobStep, LoopInvStep DEF RunInv
<1> QED BY <1>1, <1>2, <1>4 DEF RunInv

\* At most Places handlers run at a time, one without parallelism, and the
\* semaphore counts them.
LEMMA LoopTypeHolds ==
  ASSUME LoopInv
  PROVE  LoopTypeOK
<1>1. /\ loop \in LoopRecord /\ work \in Seq(WorkRecord) /\ Len(work) \in Nat
  BY DEF LoopInv, LoopTyped
<1>2. ASSUME NEW i \in 1..Len(work)
      PROVE  work[i].pc \in InHandler \cup {"new", "done"} /\ work[i].out \in Results
  <2>1. work[i] \in WorkRecord
    BY <1>1, ElementOfSeq
  <2> QED BY <2>1 DEF WorkRecord
<1>3. PlacesInv
  BY DEF LoopInv
<1>4. ASSUME ~Parallel PROVE Cardinality(Busy) <= 1
  <2>1. ASSUME NEW i \in Busy, NEW j \in Busy, i < j PROVE FALSE
    <3>1. i \in 1..Len(work) /\ j \in 1..Len(work) /\ i \in 1..(j - 1)
      BY <1>1, <2>1 DEF Busy
    <3>2. work[j].pc # "new" /\ work[i].pc # "done"
      BY DEF Busy, InHandler
    <3> QED BY <1>3, <1>4, <3>1, <3>2 DEF PlacesInv
  <2>2. Busy \subseteq Int
    BY <1>1 DEF Busy
  <2>3. \A i, j \in Busy : i = j
    BY <2>1, <2>2
  <2>4. CASE Busy = {}
    BY <2>4, FS_EmptySet
  <2>5. CASE Busy # {}
    <3>1. PICK i \in Busy : Busy = {i}
      BY <2>3, <2>5
    <3>2. Cardinality({i}) = 1
      BY FS_Singleton
    <3> QED BY <3>1, <3>2
  <2> QED BY <2>4, <2>5
<1> QED BY <1>1, <1>2, <1>3, <1>4 DEF LoopTypeOK, LoopRecord, PlacesInv, Busy

\* What the items of the request look like on the wire.
LEMMA BuiltItem ==
  ASSUME NEW x \in Items
  PROVE  /\ BuildItem(x) \in Items /\ Bare(BuildItem(x)) = Bare(x)
         /\ BuildItem(x).tag = x.tag /\ BuildItem(x).it = x.it /\ BuildItem(x).ix = x.ix
         /\ BuildItem(x).out = IF x.out = "cancelled" THEN "error" ELSE x.out
BY DEF BuildItem, Items, Results, Bare

\* The input: the prompt, if it is still to be answered, and the items.
LEMMA InputIs ==
  ASSUME LoopInv
  PROVE  LET pre == IF req.prompt THEN <<Prompt>> ELSE <<>>
         IN  /\ Len(BuildInput) = Len(pre) + Len(req.items)
             /\ Bared(BuildInput) = Bared(pre) \o Bared(req.items)
             /\ \A n \in 1..Len(BuildInput) :
                  BuildInput[n].tag = "output" =>
                    \E m \in 1..Len(req.items) : BuildInput[n] = BuildItem(req.items[m])
<1> DEFINE pre == IF req.prompt THEN <<Prompt>> ELSE <<>>
           built == [n \in 1..Len(req.items) |-> BuildItem(req.items[n])]
           S == [tag : {"prompt", "item", "output"}, it : Nat, ix : Nat, out : Results]
<1>1. req.items \in Seq(Items) /\ Len(req.items) \in Nat
  BY DEF LoopInv, LoopTyped
<1>2. pre \in Seq(S) /\ \A n \in 1..Len(pre) : pre[n].tag = "prompt"
  <2>1. Prompt \in S /\ Prompt.tag = "prompt"
    BY DEF Prompt, Results
  <2> HIDE DEF S
  <2> QED BY <2>1
<1>3. \A n \in 1..Len(req.items) : req.items[n] \in Items
  BY <1>1, ElementOfSeq
<1>4. built \in Seq(S) /\ Len(built) = Len(req.items)
  <2>1. \A n \in 1..Len(req.items) : BuildItem(req.items[n]) \in S
    <3>1. Items \subseteq S
      BY DEF Items
    <3> HIDE DEF S
    <3> QED BY <1>3, <3>1, BuiltItem
  <2> HIDE DEF S
  <2> QED BY <1>1, <2>1
<1>5. Bared(built) = Bared(req.items)
  <2>1. \A n \in 1..Len(req.items) : Bare(built[n]) = Bare(req.items[n])
    BY <1>3, BuiltItem
  <2> HIDE DEF built
  <2> QED BY <1>4, <2>1 DEF Bared
<1>6. \A n \in 1..Len(req.items) : built[n] = BuildItem(req.items[n])
  OBVIOUS
<1>7. BuildInput = pre \o built
  BY DEF BuildInput
<1> HIDE DEF pre, built, S
<1>8. Bared(BuildInput) = Bared(pre) \o Bared(req.items)
  BY <1>2, <1>4, <1>5, <1>7, BaredConcat
<1>9. /\ Len(BuildInput) = Len(pre) + Len(built)
      /\ \A n \in 1..(Len(pre) + Len(built)) :
           BuildInput[n] = IF n <= Len(pre) THEN pre[n] ELSE built[n - Len(pre)]
  <2>1. /\ Len(pre \o built) = Len(pre) + Len(built)
        /\ \A n \in 1..(Len(pre) + Len(built)) :
             (pre \o built)[n] = IF n <= Len(pre) THEN pre[n] ELSE built[n - Len(pre)]
    BY <1>2, <1>4, ConcatProperties
  <2> QED BY <1>7, <2>1
<1>10. ASSUME NEW n \in 1..Len(BuildInput), BuildInput[n].tag = "output"
       PROVE  \E m \in 1..Len(req.items) : BuildInput[n] = BuildItem(req.items[m])
  <2>1. Len(pre) \in Nat /\ n \in 1..(Len(pre) + Len(req.items))
    BY <1>2, <1>4, <1>9
  <2>2. CASE n <= Len(pre)
    <3>1. BuildInput[n] = pre[n] /\ n \in 1..Len(pre)
      BY <1>4, <1>9, <2>1, <2>2
    <3> QED BY <1>2, <1>10, <3>1
  <2>3. CASE ~(n <= Len(pre))
    <3>1. n - Len(pre) \in 1..Len(req.items)
      BY <1>1, <2>1, <2>3
    <3>2. BuildInput[n] = built[n - Len(pre)]
      BY <1>4, <1>9, <2>1, <2>3
    <3> QED BY <1>6, <3>1, <3>2
  <2> QED BY <2>2, <2>3
<1> QED BY <1>4, <1>8, <1>9, <1>10 DEF pre

\* The next request tells what happened.
LEMMA OutputsSound ==
  ASSUME LoopInv
  PROVE  OutputsAnswerCalls
<1> DEFINE told == IF loop.pc = "tools" THEN Len(replies) - 1 ELSE Len(replies)
           pre == IF req.prompt THEN <<Prompt>> ELSE <<>>
           How(x) == {r.did : r \in {r \in ran : r.it = x.it /\ r.ix = x.ix}}
           input == Body.input
<1>1. /\ loop \in LoopRecord /\ req.items \in Seq(Items) /\ ToldInv /\ OutputsInv
      /\ Len(replies) \in Nat
  BY DEF LoopInv, LoopTyped
<1>2. req.follows = told
  <2>1. loop.pc \in {"off", "generate", "tools", "done"}
    BY <1>1 DEF LoopRecord
  <2> QED BY <1>1, <2>1 DEF ToldInv
<1>3. Body.previous_response_id = told /\ input = BuildInput
  BY <1>2 DEF Body
<1> HIDE DEF input
<1>4. [n \in 1..Len(input) |-> [tag |-> input[n].tag, it |-> input[n].it, ix |-> input[n].ix]]
        = Bared(input)
  BY DEF Bared, Bare
<1>5. Bared(input) = (IF told = 0 THEN <<[tag |-> "prompt", it |-> 0, ix |-> 0]>> ELSE <<>>)
                       \o FlattenSeq(Slices(replies, told))
  <2>1. Bared(input) = Bared(pre) \o Bared(req.items)
    BY <1>3, InputIs
  <2>2. Bared(req.items) = FlattenSeq(Slices(replies, told)) /\ (req.prompt <=> told = 0)
    BY <1>1, <1>2 DEF ToldInv
  <2>3. Bared(<<Prompt>>) = <<[tag |-> "prompt", it |-> 0, ix |-> 0]>> /\ Bared(<<>>) = <<>>
    BY DEF Bared, Bare, Prompt
  <2> HIDE DEF told
  <2> QED BY <2>1, <2>2, <2>3
<1>6. ASSUME NEW n \in 1..Len(input), input[n].tag = "output"
      PROVE  LET x == input[n]
                 tool == ToolCalls(replies[x.it])[x.ix]
             IN  /\ Cardinality(How(x)) <= 1
                 /\ How(x) = {} => x.out = "error" /\ cancelled
                 /\ x.out # "error" => tool \in offered
                 /\ x.out \in {"reply", "empty"} => Does[tool] \in DOMAIN servers
                 /\ x.out = "text" => How(x) = {"output"}
                 /\ x.out = "reply" => How(x) \in {{"reply"}, {"plainReply"}}
                 /\ x.out = "empty" => How(x) \in {{"request"}, {"plainNote"}, {"nothing"}}
                 /\ How(x) \cap {"plainReply", "plainNote", "nothing"} # {}
                      => servers[Does[tool]] # "stdio"
                 /\ x.out = "error" =>
                      How(x) \subseteq {"fail", "panic", "missing", "mcpError"}
  <2> DEFINE x == input[n]
             tool == ToolCalls(replies[x.it])[x.ix]
  <2>1. PICK m \in 1..Len(req.items) : x = BuildItem(req.items[m])
    BY <1>3, <1>6, InputIs
  <2> DEFINE y == req.items[m]
  <2>2. y \in Items
    BY <1>1, ElementOfSeq
  <2>3. /\ y.tag = "output" /\ x.it = y.it /\ x.ix = y.ix
        /\ x.out = IF y.out = "cancelled" THEN "error" ELSE y.out
    BY <1>6, <2>1, <2>2, BuiltItem
  <2>4. Reported(y.it, y.ix, y.out)
    BY <1>1, <2>3 DEF OutputsInv
  <2>5. Reported(x.it, x.ix, y.out)
    BY <2>3, <2>4
  <2>6. How(x) = {r.did : r \in Handled(x.it, x.ix)}
    BY DEF Handled
  <2> DEFINE k == x.it
             j == x.ix
             o == y.out
  <2> DEFINE Fine == /\ Cardinality(How(x)) <= 1
                     /\ How(x) = {} => x.out = "error" /\ cancelled
                     /\ x.out # "error" => tool \in offered
                     /\ x.out \in {"reply", "empty"} => Does[tool] \in DOMAIN servers
                     /\ x.out = "text" => How(x) = {"output"}
                     /\ x.out = "reply" => How(x) \in {{"reply"}, {"plainReply"}}
                     /\ x.out = "empty" => How(x) \in {{"request"}, {"plainNote"}, {"nothing"}}
                     /\ How(x) \cap {"plainReply", "plainNote", "nothing"} # {}
                          => servers[Does[tool]] # "stdio"
                     /\ x.out = "error" =>
                          How(x) \subseteq {"fail", "panic", "missing", "mcpError"}
  <2>7. ASSUME o = "cancelled", cancelled, Handled(k, j) = {}
        PROVE  Fine
    <3>1. How(x) = {} /\ x.out = "error"
      BY <2>3, <2>6, <2>7
    <3>2. Cardinality({}) = 0
      BY FS_EmptySet
    <3> HIDE DEF x, tool, How
    <3> QED BY <2>7, <3>1, <3>2
  <2>8. ASSUME NEW did \in Dids, Handled(k, j) = {[it |-> k, ix |-> j, did |-> did]},
               o = Result(did), CanEnd(tool, did)
        PROVE  Fine
    <3>1. How(x) = {did}
      <4>1. \A a, b : {r.did : r \in {[it |-> a, ix |-> b, did |-> did]}} = {did}
        OBVIOUS
      <4>2. How(x) = {r.did : r \in {[it |-> k, ix |-> j, did |-> did]}}
        <5> HIDE DEF How
        <5> QED BY <2>6, <2>8
      <4> HIDE DEF How, k, j, x
      <4> QED BY <4>1, <4>2
    <3>2. x.out = Result(did)
      <4>1. Result(did) # "cancelled"
        BY DEF Result
      <4> QED BY <2>3, <2>8, <4>1
    <3>3. Cardinality({did}) = 1
      BY FS_Singleton
    <3> HIDE DEF x, tool, How
    <3>4. Cardinality(How(x)) <= 1
      BY <3>1, <3>3
    <3>5. /\ Result(did) # "error" => tool \in offered
          /\ Result(did) \in {"reply", "empty"} => Does[tool] \in DOMAIN servers
          /\ did \in Unnumbered => servers[Does[tool]] # "stdio"
      BY <2>8 DEF Result, CanEnd, Dids, Ends, McpEnds, Unnumbered
    <3>6. /\ Result(did) = "text" => did = "output"
          /\ Result(did) = "reply" => did \in {"reply", "plainReply"}
          /\ Result(did) = "empty" => did \in {"request", "plainNote", "nothing"}
          /\ Result(did) = "error" => did \in {"fail", "panic", "missing", "mcpError"}
      BY <2>8 DEF Result, Dids, Ends, McpEnds, Unnumbered
    <3> QED BY <3>1, <3>2, <3>4, <3>5, <3>6 DEF Unnumbered
  <2>9. \/ o = "cancelled" /\ cancelled /\ Handled(k, j) = {}
        \/ \E did \in Dids : /\ Handled(k, j) = {[it |-> k, ix |-> j, did |-> did]}
                             /\ o = Result(did) /\ CanEnd(tool, did)
    BY <2>5 DEF Reported
  <2>10. Fine
    <3> HIDE DEF Fine, x, tool, o, k, j
    <3> QED BY <2>7, <2>8, <2>9
  <2> QED BY <2>10
<1>7. Slices(replies, told) =
        [k \in 1..Len(replies) |->
          [i \in 1..Len(replies[k]) |-> [tag |-> "item", it |-> k, ix |-> i]]
            \o (IF k <= told
                THEN [i \in 1..Len(ToolCalls(replies[k])) |->
                       [tag |-> "output", it |-> k, ix |-> i]]
                ELSE <<>>)]
  BY DEF Slices, SliceOf, ShapeOf
<1>8. [n \in 1..Len(input) |-> [tag |-> input[n].tag, it |-> input[n].it, ix |-> input[n].ix]]
        = (IF told = 0 THEN <<[tag |-> "prompt", it |-> 0, ix |-> 0]>> ELSE <<>>)
            \o FlattenSeq(
                 [k \in 1..Len(replies) |->
                   [i \in 1..Len(replies[k]) |-> [tag |-> "item", it |-> k, ix |-> i]]
                     \o (IF k <= told
                         THEN [i \in 1..Len(ToolCalls(replies[k])) |->
                                [tag |-> "output", it |-> k, ix |-> i]]
                         ELSE <<>>)])
  BY <1>4, <1>5, <1>7
<1> QED BY <1>3, <1>6, <1>8 DEF OutputsAnswerCalls, input

\* The next request tells the model what happened (RunToolLoop,
\* executeToolCalls, BuildResponsesRequest): an output for each call in the
\* order of the calls, each the one end of a handler that was entered for
\* it, whatever the replies, the tools, the servers and the order in which
\* the handlers end.
THEOREM OutputsAnswer == Spec => []OutputsAnswerCalls
<1>1. RunInv => OutputsAnswerCalls
  BY OutputsSound DEF RunInv
<1> QED BY <1>1, RunInvStarts, RunInvStep, PTL DEF Spec

-----------------------------------------------------------------------------
(* The whole                                                                *)

\* What a call is labelled with: a kind there is, and how it is made.
LabelInv ==
  /\ kind \in Kinds \cup {"none"}
  /\ mode \in {"none", "loop", "stream", "refused"}

\* A provider that can be built is one of the table.
LEMMA KindOfEntry ==
  ASSUME RegistryInv, NEW n, Buildable(Find(registry, n))
  PROVE  registry[Find(registry, n)].kind \in Kinds
<1>1. registry \in Seq(Entries)
  BY DEF RegistryInv, RegistryTypeOK
<1>2. Find(registry, n) \in 1..Len(registry)
  BY <1>1, Lookup DEF Buildable
<1>3. registry[Find(registry, n)] \in Entries
  BY <1>1, <1>2, ElementOfSeq
<1> QED BY <1>3 DEF Entries

\* Every step of the specification.
LEMMA LabelStep ==
  ASSUME LabelInv, RegistryInv, ModeInv, [Next]_vars
  PROVE  LabelInv'
<1>1. CASE Registry \/ Stop \/ Pass \/ Edit \/ Preview \/ Cancel \/ StreamAnswered \/ Stream
  <2>1. UNCHANGED <<kind, mode>>
    BY <1>1 DEF Registry, Stop, Pass, Edit, Preview, Cancel, StreamAnswered, Stream, callVars
  <2> QED BY <2>1 DEF LabelInv, Kinds
<1>2. CASE Call \/ Loop
  <2>1. CASE Call
    BY <2>1, CallStepUnderWay DEF Call, LabelInv, Kinds
  <2>2. CASE Loop
    BY <2>2, LoopStep DEF Loop, LabelInv, Kinds
  <2> QED BY <1>2, <2>1, <2>2
<1>3. CASE StartRun
  BY <1>3, KindOfEntry DEF StartRun, LabelInv, Kinds
<1>4. ASSUME NEW name, Resolve(name) PROVE LabelInv'
  <2>1. CASE Buildable(Find(registry, name))
    BY <1>4, <2>1, KindOfEntry DEF Resolve, LabelInv, Kinds
  <2>2. CASE ~Buildable(Find(registry, name))
    BY <1>4, <2>2 DEF Resolve, LabelInv, Kinds
  <2> QED BY <2>1, <2>2
<1>5. CASE UNCHANGED vars
  BY <1>5 DEF vars, callVars, LabelInv, Kinds
<1> QED BY <1>1, <1>2, <1>3, <1>4, <1>5 DEF Next

\* Every part of a process and its calls keeps to its states: the places of
\* the semaphore and of the channel, the tries of an attempt, the entries of
\* the table, the loads of a pass (providerRegistry, executeToolCalls,
\* loadProviderOptions, Agent.Stream).
THEOREM AgentRunKeepsType == Spec => []TypeOK
<1> DEFINE All == RunInv /\ RegistryInv /\ AssemblyInv /\ LabelInv
<1>1. Init => All
  <2>1. Init => LabelInv
    BY DEF Init, LabelInv
  <2> QED BY <2>1, RunInvStarts, RegistryStarts, AssemblyStarts
<1>2. All /\ [Next]_vars => All'
  <2> SUFFICES ASSUME All, [Next]_vars PROVE All'
    OBVIOUS
  <2>1. RunInv'
    BY RunInvStep
  <2>2. RegistryInv'
    BY RegistryStep
  <2>3. AssemblyInv'
    BY AssemblyStep
  <2>4. LabelInv'
    BY LabelStep DEF RunInv, IInv
  <2> QED BY <2>1, <2>2, <2>3, <2>4
<1>3. All => TypeOK
  <2> SUFFICES ASSUME All PROVE TypeOK
    OBVIOUS
  <2>1. RegistryTypeOK
    BY DEF RegistryInv
  <2>2. AssemblyTypeOK
    BY DEF AssemblyInv, AssemblyTyped, PassInv, UsedInv, AssemblyTypeOK, GoodRequest, JobPCs
  <2>3. CallTypeOK /\ cancelled \in BOOLEAN
    <3>1. http \in HttpRecord /\ cancelled \in BOOLEAN
      BY DEF RunInv, PolicyInv
    <3>2. \A i \in 1..Len(http.tries) : http.tries[i] \in Outcomes
      BY <3>1, ElementOfSeq DEF HttpRecord
    <3> QED BY <3>1, <3>2 DEF CallTypeOK, HttpRecord
  <2>4. LoopTypeOK /\ offered \subseteq Tools
    BY LoopTypeHolds DEF RunInv, LoopInv, LoopTyped
  <2>5. StreamTypeOK
    BY DEF RunInv, IInv, StreamInv, StreamTyped, StreamTypeOK, ReaderPCs, CallerPCs
  <2> QED BY <2>1, <2>2, <2>3, <2>4, <2>5 DEF TypeOK, LabelInv
<1> HIDE DEF All
<1> QED BY <1>1, <1>2, <1>3, PTL DEF Spec
=============================================================================

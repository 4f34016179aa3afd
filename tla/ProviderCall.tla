---------------------------- MODULE ProviderCall ----------------------------
(***************************************************************************)
(* One Generate call of a provider: llm.ProviderPipeline converts the      *)
(* request, the caller sends it, the reply is converted back.  The HTTP    *)
(* providers (openai, omniroute, httpjson) send it with DoWithRetry of     *)
(* providers/internal/httptransport; codexcli runs a process and copilot   *)
(* an SDK session, both once and for a text reply.                         *)
(*                                                                         *)
(* A reply is the sequence of its output items: a tool it asks for, or an  *)
(* item of another kind (a message, reasoning, one that is not known).     *)
(***************************************************************************)
EXTENDS Integers, Sequences, CallContext

CONSTANTS
    MaxRetries,     \* RetryConfig.MaxRetries as configured
    MinBackoff,     \* RetryConfig.MinBackoff, in units of time
    MaxBackoff,     \* RetryConfig.MaxBackoff
    Width,          \* bits of time.Duration
    RetryAfters,    \* values of a Retry-After header
    NoHeader,       \* no such header, or one that does not parse
    Replies         \* what the model may answer

ASSUME ProviderCallAssumption ==
    /\ MaxRetries \in Int /\ Width \in Nat \ {0}
    /\ MinBackoff \in Nat \ {0} /\ MaxBackoff \in Nat \ {0}
    /\ RetryAfters \subseteq Int /\ NoHeader \notin Int
    /\ <<>> \in Replies
    /\ \A r \in Replies : r \in Seq({r[i] : i \in 1..Len(r)})

VARIABLES
    http        \* the call: see Idle

\* pc: where the call is; live: the context was alive when the attempt was
\* sent; tries: how each attempt ended; after: the header kept for the next
\* wait; end, reply: the result.
Idle == [pc |-> "idle", live |-> TRUE, tries |-> <<>>, after |-> NoHeader,
         end |-> "none", reply |-> <<>>]

-----------------------------------------------------------------------------
(* Retry policy *)

\* NormalizeRetry and the first lines of DoWithRetry: 0 stands for 2, and
\* there is always one attempt.
Attempts ==
    LET retries == IF MaxRetries = 0 THEN 2 ELSE MaxRetries
    IN  IF retries < 0 THEN 1 ELSE retries + 1

\* An int64 that overflows wraps round.
Wrapped(n) == ((n + 2^(Width - 1)) % 2^Width) - 2^(Width - 1)

\* retryBackoff before attempt number i (counted from 0).
Backoff(i, after) ==
    LET delay == IF after # NoHeader THEN after ELSE Wrapped(MinBackoff * 2^(i - 1))
    IN  IF delay > MaxBackoff THEN MaxBackoff
        ELSE IF after # NoHeader /\ delay < 0 THEN 0
        ELSE delay

-----------------------------------------------------------------------------
(* Replies *)

\* ParseResponsesResponse: the tool calls of a reply, in its order, whatever
\* stands between them.
ToolCalls(reply) == Selected(reply, {i \in 1..Len(reply) : reply[i] \in Tools})

-----------------------------------------------------------------------------
(* Attempts *)

\* An HTTP attempt ends with a transport error before ("refused") or after
\* ("lost") the server has done its work, with a status worth a retry
\* ("busy": 429 or 5xx), with another status ("rejected"), or with a success
\* whose body can be read ("ok") or not ("broken": cut off, too large, or
\* not a response).
Transport == {"refused", "lost"}

\* Mutant of Retryable: other 4xx are retried as well.
MutRetryable(o) == o \in Transport \union {"busy", "rejected"}

Retryable(o) == o \in Transport \union {"busy"}

\* DoWithRetry and CallProvider after an attempt that ended with o.
Ended(o, after, reply) ==
    LET tries == Append(http.tries, o)
    IN  IF Retryable(o) /\ Len(tries) < Attempts
        THEN [http EXCEPT !.pc = "wait", !.tries = tries, !.after = after]
        ELSE [http EXCEPT !.pc = "done", !.tries = tries, !.after = NoHeader,
                          !.end = o, !.reply = reply]

\* The call begins: the request is converted and the first attempt is sent.
Sent == [Idle EXCEPT !.pc = "sent", !.live = ~cancelled]

\* Nothing is sent: the request cannot be converted, or httpjson has no
\* route for it or cannot fill in its path and query.
Unsent ==
    /\ http.pc = "sent" /\ http.tries = <<>>
    /\ http' = [http EXCEPT !.pc = "done", !.end = "unsent"]
    /\ UNCHANGED <<kind, cancelled>>

HTTPAnswer ==
    /\ http.pc = "sent" /\ kind \in {"openai", "httpjson"}
    /\ \/ http' = Ended("refused", NoHeader, <<>>)
       \/ /\ http.live
          /\ \/ \E o \in {"lost", "rejected", "broken"} : http' = Ended(o, NoHeader, <<>>)
             \/ \E a \in RetryAfters \union {NoHeader} : http' = Ended("busy", a, <<>>)
             \/ \E r \in Replies : http' = Ended("ok", NoHeader, r)
    /\ UNCHANGED <<kind, cancelled>>

\* The backoff is over: the timer fires, whatever it was set to.
WaitOver ==
    /\ http.pc = "wait"
    /\ http' = [http EXCEPT !.pc = "sent", !.live = ~cancelled, !.after = NoHeader]
    /\ UNCHANGED <<kind, cancelled>>

\* The context is done before the timer, or both are and select takes it.
WaitAbandoned ==
    /\ http.pc = "wait" /\ cancelled
    /\ http' = [http EXCEPT !.pc = "done", !.after = NoHeader, !.end = "cancelled"]
    /\ UNCHANGED <<kind, cancelled>>

\* Neither of these asks this program for tools, or is asked twice.
Answered(o) ==
    /\ http' = [http EXCEPT !.pc = "done", !.tries = Append(@, o), !.end = o]
    /\ UNCHANGED <<kind, cancelled>>

\* codexcli: the process cannot be started or fails, a call also when the
\* file of its last message cannot be read.  Its context kills it.
CodexAnswer ==
    /\ http.pc = "sent" /\ kind = "codex"
    /\ Answered("broken") \/ (http.live /\ Answered("ok"))

\* copilot: the client does not start, gives no session, or the prompt fails.
CopilotFails == http.pc = "sent" /\ kind = "copilot" /\ Answered("broken")

\* The turn of the session is over; what it said is the answer.
CopilotAnswer ==
    /\ http.pc = "sent" /\ kind = "copilot"
    /\ http.live /\ Answered("ok")

CallNext ==
    \/ Unsent \/ HTTPAnswer \/ WaitOver \/ WaitAbandoned
    \/ CodexAnswer \/ CopilotFails \/ CopilotAnswer

-----------------------------------------------------------------------------
Outcomes == Transport \union {"busy", "rejected", "broken", "ok"}

CallTypeOK ==
    /\ http.pc \in {"idle", "sent", "wait", "done"}
    /\ http.live \in BOOLEAN
    /\ \A i \in 1..Len(http.tries) : http.tries[i] \in Outcomes
    /\ http.after \in RetryAfters \union {NoHeader}
    /\ http.end \in Outcomes \union {"none", "cancelled", "unsent"}
    /\ http.reply \in Replies

(***************************************************************************)
(* A request is sent again only when its last attempt was refused, lost or *)
(* answered with 429 or 5xx, never after the server has given its verdict, *)
(* at most Attempts times in all, and never longer apart than the          *)
(* configured maximum whatever the server asks for.  A call that gives up  *)
(* on such an attempt has used all of them; one that stops before has been *)
(* cancelled.                                                              *)
(***************************************************************************)
RetriesFollowPolicy ==
    /\ Len(http.tries) <= Attempts
    /\ \A i \in 1..Len(http.tries) :
         (i < Len(http.tries) \/ http.pc \in {"sent", "wait"}) =>
           http.tries[i] \in {"refused", "lost", "busy"}
    /\ http.pc = "wait" =>
         /\ Len(http.tries) < Attempts
         /\ ~(Backoff(Len(http.tries), http.after) > MaxBackoff)
    /\ (http.pc = "done" /\ http.end \in {"refused", "lost", "busy"}) =>
         Len(http.tries) = Attempts
    /\ (http.pc = "done" /\ http.end = "cancelled") => cancelled
=============================================================================

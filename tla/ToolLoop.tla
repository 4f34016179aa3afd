------------------------------ MODULE ToolLoop ------------------------------
(***************************************************************************)
(* agent.RunPrepared and llm.RunToolLoop: the model is called, the tools   *)
(* its reply asks for are executed, in parallel or one after the other,    *)
(* and what they returned goes into the next request, until a reply asks   *)
(* for no tool or the iterations are used up.  A tool is a function of     *)
(* this program or mcp_call, which talks to an MCP server over the pipes   *)
(* of a process it starts or over HTTP (tools/mcp.go).                     *)
(***************************************************************************)
EXTENDS ProviderCall, FiniteSets, SequencesExt

CONSTANTS
    Does,           \* [Tools -> Ends or Servers]: how a handler ends, or which
                    \* MCP server the call is for
    Servers,        \* names of MCP servers
    MaxIterations,  \* ToolLoopOptions.MaxIterations
    MaxParallel     \* ToolLoopOptions.MaxParallelToolCalls

Ends == {"output", "fail", "panic"}

ASSUME ToolLoopAssumption ==
    /\ Does \in [Tools -> Ends \union Servers] /\ Servers \cap Ends = {}
    /\ MaxIterations \in Int /\ MaxParallel \in Int

VARIABLES
    loop,   \* pc, it (iteration, from 1), parallel, outcome
    req,    \* the request: the prompt is in it, its input items, the reply it continues
    work,   \* one record per tool call of the current reply
    slots,  \* how many places of the semaphore are taken
    replies,\* history: the replies that asked for tools, in order
    ran     \* history: how each handler that was entered has ended

loopVars == <<loop, req, work, slots, replies, ran>>
workVars == <<loop, req, replies>>

NoLoop == [pc |-> "off", it |-> 1, parallel |-> FALSE, outcome |-> "none"]
NoRequest == [prompt |-> TRUE, items |-> <<>>, follows |-> 0]
Waiting == [pc |-> "new", out |-> "none"]

-----------------------------------------------------------------------------
(* Options *)

Iterations == IF MaxIterations <= 0 THEN 8 ELSE MaxIterations
Parallel == loop.parallel /\ Len(work) >= 2
Places ==
    LET n == IF MaxParallel <= 0 THEN 4 ELSE MaxParallel
    IN  IF n > Len(work) THEN Len(work) ELSE n

-----------------------------------------------------------------------------
(* The loop *)

\* RunPrepared: the prompt passes the input guardrail, or nothing is sent.
LoopStarts(parallel) ==
    \/ /\ loop' = [NoLoop EXCEPT !.pc = "generate", !.parallel = parallel]
       /\ http' = Sent
    \/ /\ loop' = [NoLoop EXCEPT !.pc = "done", !.outcome = "blocked"]
       /\ UNCHANGED http

Stops(outcome) == loop' = [loop EXCEPT !.pc = "done", !.outcome = outcome]

\* Generate returned an error.
CallFailed ==
    /\ loop.pc = "generate" /\ http.pc = "done" /\ http.end # "ok"
    /\ Stops("failed")
    /\ http' = Idle
    /\ UNCHANGED <<kind, cancelled, req, work, slots, replies, ran>>

\* Generate returned a text; the output guardrail may still withhold it.
FinalReply ==
    /\ loop.pc = "generate" /\ http.pc = "done" /\ http.end = "ok"
    /\ ToolCalls(http.reply) = <<>>
    /\ \E outcome \in {"answered", "withheld"} : Stops(outcome)
    /\ http' = Idle
    /\ UNCHANGED <<kind, cancelled, req, work, slots, replies, ran>>

\* Generate returned tool calls: the reply joins the input items and
\* executeToolCalls begins.
ToolReply ==
    /\ loop.pc = "generate" /\ http.pc = "done" /\ http.end = "ok"
    /\ ToolCalls(http.reply) # <<>>
    /\ req' = [req EXCEPT !.items = @ \o
                 [i \in 1..Len(http.reply) |->
                   [tag |-> "item", it |-> loop.it, ix |-> i, out |-> "none"]]]
    /\ work' = [i \in 1..Len(ToolCalls(http.reply)) |-> Waiting]
    /\ replies' = Append(replies, http.reply)
    /\ loop' = [loop EXCEPT !.pc = "tools"]
    /\ http' = Idle
    /\ UNCHANGED <<kind, cancelled, slots, ran>>

\* All calls have returned: the outputs are appended in the order of the
\* calls, the prompt leaves the request, and the next iteration begins.
Collect ==
    /\ loop.pc = "tools" /\ \A i \in 1..Len(work) : work[i].pc = "done"
    /\ req' = [prompt |-> FALSE,
               items |-> req.items \o
                 [i \in 1..Len(work) |->
                   [tag |-> "output", it |-> loop.it, ix |-> i, out |-> work[i].out]],
               follows |-> loop.it]
    /\ work' = <<>>
    /\ IF loop.it < Iterations
       THEN /\ loop' = [loop EXCEPT !.pc = "generate", !.it = @ + 1]
            /\ http' = Sent
       ELSE Stops("exhausted") /\ UNCHANGED http
    /\ UNCHANGED <<kind, cancelled, slots, replies, ran>>

\* BuildResponsesRequest: what of the request goes over the wire.  An item
\* of a reply is sent back as it came, an output as its text or its error.
BuildItem(x) == IF x.out = "cancelled" THEN [x EXCEPT !.out = "error"] ELSE x

Prompt == [tag |-> "prompt", it |-> 0, ix |-> 0, out |-> "none"]
BuildInput ==
    (IF req.prompt THEN <<Prompt>> ELSE <<>>)
      \o [n \in 1..Len(req.items) |-> BuildItem(req.items[n])]

Body == [input |-> BuildInput, previous_response_id |-> req.follows]

-----------------------------------------------------------------------------
(* Tool calls *)

Tool(i) == ToolCalls(replies[loop.it])[i]

\* Execute finds no handler of that name, or MCPTools no server.
Missing(i) ==
    \/ Tool(i) \notin offered
    \/ Does[Tool(i)] \in Servers \ DOMAIN servers

\* Where a call is once its handler has been entered.
Entered(i) ==
    IF Missing(i) \/ Does[Tool(i)] \in Ends THEN "running"
    ELSE IF servers[Does[Tool(i)]] = "stdio" THEN "init" ELSE "postInit"

\* What Execute and executeToolCall make of the end of a handler.  An MCP
\* message that has no result is a success with an empty result.
Result(did) ==
    CASE did = "output" -> "text"
      [] did \in {"reply", "strayReply", "plainReply"} -> "reply"
      [] did \in {"request", "strayNote", "plainNote", "nothing"} -> "empty"
      [] OTHER -> "error"

\* Mutant of Freed: no place is given back after a panic.
MutFreed(did) == IF Parallel /\ did # "panic" THEN slots - 1 ELSE slots

\* The place is given back however the handler ended.
Freed(did) == IF Parallel THEN slots - 1 ELSE slots

Left(i, did) ==
    /\ work' = [work EXCEPT ![i] = [pc |-> "done", out |-> Result(did)]]
    /\ slots' = Freed(did)
    /\ ran' = ran \union {[it |-> loop.it, ix |-> i, did |-> did]}

\* Mutant of MayEnter: goroutines start without a place.
MutMayEnter(i) == Parallel \/ \A j \in 1..(i - 1) : work[j].pc = "done"

\* A goroutine takes a place; without parallelism the calls run in turn.
MayEnter(i) ==
    IF Parallel THEN slots < Places ELSE \A j \in 1..(i - 1) : work[j].pc = "done"

Enter(i) ==
    /\ work[i].pc = "new" /\ MayEnter(i)
    /\ work' = [work EXCEPT ![i].pc = Entered(i)]
    /\ slots' = IF Parallel THEN slots + 1 ELSE slots
    /\ UNCHANGED <<ran, http>>

\* The context is done before the goroutine has a place.
GiveUp(i) ==
    /\ work[i].pc = "new" /\ Parallel /\ cancelled
    /\ work' = [work EXCEPT ![i] = [pc |-> "done", out |-> "cancelled"]]
    /\ UNCHANGED <<slots, ran, http>>

\* A handler of this program returns, panics, or does not exist.
Return(i) ==
    /\ work[i].pc = "running"
    /\ Left(i, IF Missing(i) THEN "missing" ELSE Does[Tool(i)])
    /\ UNCHANGED http

-----------------------------------------------------------------------------
(* Messages of an MCP server: request 1 is the handshake, 2 the call *)

Awaited(i) == IF work[i].pc \in {"init", "postInit"} THEN 1 ELSE 2

\* Those that are not errors: replies, to the request at hand or to the other
\* one, requests of its own, numbered by itself, notifications (no id).
Frames == [from : {"reply", "request"}, id : 1..2]
          \union {[from |-> "note", id |-> 0]}

\* How a message came to be the answer: by its number, or without it, from
\* several messages (stray) or as the one body of a POST (plain).
Numbered(f, i) == f.id = Awaited(i)
Stray(f, i) == IF Numbered(f, i) THEN f.from
               ELSE IF f.from = "reply" THEN "strayReply" ELSE "strayNote"
Plain(f, i) == IF Numbered(f, i) THEN f.from
               ELSE IF f.from = "reply" THEN "plainReply" ELSE "plainNote"

\* Mutant of Matches: a message without an id is taken too.
MutMatches(f, i) == Numbered(f, i) \/ f.id = 0

\* readMCPResponse takes the first message with the id it waits for.
Matches(f, i) == Numbered(f, i)

\* What follows an answer: over pipes the call, over HTTP a notification
\* and then the call.
NextRequest == [init |-> "call", postInit |-> "notify", notify |-> "postCall"]

Takes(i, from) ==
    IF work[i].pc \in DOMAIN NextRequest
    THEN work' = [work EXCEPT ![i].pc = NextRequest[@]] /\ UNCHANGED <<slots, ran>>
    ELSE Left(i, from)

-----------------------------------------------------------------------------
(* MCP over the pipes of a process *)

StdioFrame(i) ==
    /\ work[i].pc \in {"init", "call"}
    /\ \E f \in Frames : Matches(f, i) /\ Takes(i, Stray(f, i))
    /\ UNCHANGED http

\* No process, a broken pipe, an error message of any id, a frame that is
\* malformed or too large, the timeout or the end of the run.
StdioFails(i) ==
    /\ work[i].pc \in {"init", "call"}
    /\ Left(i, "mcpError")
    /\ UNCHANGED http

-----------------------------------------------------------------------------
(* MCP over HTTP: one POST for each request *)

\* A JSON body is taken for the reply whatever it is, its id is not looked
\* at; an empty body is a success with an empty result.
Posted(i) ==
    /\ work[i].pc \in {"postInit", "notify", "postCall"}
    /\ \E from \in {Plain(f, i) : f \in Frames} \union {"nothing"} : Takes(i, from)
    /\ UNCHANGED http

\* readHTTPSSEMCPResponse: of an event stream the first message with the id
\* of the request.
PostedEvents(i) ==
    /\ work[i].pc \in {"postInit", "postCall"}
    /\ \E f \in Frames : Matches(f, i) /\ Takes(i, Stray(f, i))
    /\ UNCHANGED http

\* The POST failed; it is not repeated, and for the notification ignored.
PostFails(i) ==
    /\ work[i].pc \in {"postInit", "postCall"}
    /\ Left(i, "mcpError")
    /\ UNCHANGED http

CallStep(i) ==
    \/ Enter(i) \/ GiveUp(i) \/ Return(i)
    \/ StdioFrame(i) \/ StdioFails(i)
    \/ Posted(i) \/ PostedEvents(i) \/ PostFails(i)

LoopNext ==
    \/ CallFailed \/ FinalReply \/ ToolReply \/ Collect
    \/ /\ loop.pc = "tools"
       /\ \E i \in 1..Len(work) : CallStep(i)
       /\ UNCHANGED <<kind, cancelled, workVars>>

-----------------------------------------------------------------------------
Results == {"none", "text", "reply", "empty", "error", "cancelled"}
InHandler == {"running", "init", "call", "postInit", "notify", "postCall"}

\* At most Places handlers run at a time, one without parallelism.
LoopTypeOK ==
    /\ loop.pc \in {"off", "generate", "tools", "done"}
    /\ loop.it \in 1..Iterations
    /\ loop.outcome \in
         {"none", "blocked", "failed", "answered", "withheld", "exhausted"}
    /\ \A i \in 1..Len(work) :
         work[i].pc \in InHandler \union {"new", "done"} /\ work[i].out \in Results
    /\ LET busy == Cardinality({i \in 1..Len(work) : work[i].pc \in InHandler})
       IN  /\ slots = IF Parallel THEN busy ELSE 0
           /\ Len(work) > 0 => busy <= IF Parallel THEN Places ELSE 1

(***************************************************************************)
(* What the next request tells the model is what happened: it carries the  *)
(* prompt or continues the last reply it answers, and behind the items of  *)
(* each reply stands one output for each call, in their order, whatever    *)
(* order they finished in.  An output that reports a success is the end of *)
(* a handler that was entered once for that call; a tool that is withheld  *)
(* and a server that is not configured give none.  Where an MCP server may *)
(* send several messages, over pipes and in an event stream, a success is  *)
(* the one with the number of the request: its reply, or, with an empty    *)
(* result, a request of the server that happens to have that number; never *)
(* a notification or the reply to another request.  A JSON body of a POST  *)
(* is the one message there is and is not asked for its number: only there *)
(* a success can be any message, or no message.  An output without a       *)
(* handler reports an error, and needs a cancelled context.                *)
(***************************************************************************)
OutputsAnswerCalls ==
    LET told == IF loop.pc = "tools" THEN Len(replies) - 1 ELSE Len(replies)
        Shape(k, tag, s) == [i \in 1..Len(s) |-> [tag |-> tag, it |-> k, ix |-> i]]
        Slice(k) == Shape(k, "item", replies[k])
                   \o (IF k <= told THEN Shape(k, "output", ToolCalls(replies[k])) ELSE <<>>)
        How(x) == {r.did : r \in {r \in ran : r.it = x.it /\ r.ix = x.ix}}
        input == Body.input
    IN  /\ Body.previous_response_id = told
        /\ [n \in 1..Len(input) |-> [tag |-> input[n].tag, it |-> input[n].it, ix |-> input[n].ix]]
             = (IF told = 0 THEN <<[tag |-> "prompt", it |-> 0, ix |-> 0]>> ELSE <<>>)
               \o FlattenSeq([k \in 1..Len(replies) |-> Slice(k)])
        /\ \A n \in 1..Len(input) :
             LET x == input[n]
                 tool == ToolCalls(replies[x.it])[x.ix]
             IN  x.tag = "output" =>
                   /\ Cardinality(How(x)) <= 1
                   /\ How(x) = {} => x.out = "error" /\ cancelled
                   /\ x.out # "error" => tool \in offered
                   /\ x.out \in {"reply", "empty"} => Does[tool] \in DOMAIN servers
                   /\ x.out = "text" => How(x) = {"output"}
                   /\ x.out = "reply" => How(x) \in {{"reply"}, {"plainReply"}}
                   /\ x.out = "empty" => How(x) \in {{"request"}, {"plainNote"}, {"nothing"}}
                   /\ How(x) \cap {"plainReply", "plainNote", "nothing"} # {}
                        => servers[Does[tool]] # "stdio"
                   /\ x.out = "error" =>
                        How(x) \subseteq {"fail", "panic", "missing", "mcpError"}
=============================================================================

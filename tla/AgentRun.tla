------------------------------ MODULE AgentRun ------------------------------
(***************************************************************************)
(* A process with its provider registry, and one call of an agent in it.   *)
(* In kkode-agent, and in a program built on the packages, the provider is *)
(* looked up and RunPrepared drives the tool loop, or Agent.Stream feeds a *)
(* caller; such an agent has no MCP servers.  In the gateway a run is      *)
(* posted, checked, queued and assembled first, and then drives the tool   *)
(* loop.  The context of the call may end at any moment (Cancel of the run *)
(* manager, a timeout, the end of a request).                              *)
(***************************************************************************)
EXTENDS Assembly, ToolLoop, EventStream

CONSTANTS
    Asked       \* provider names a call may be made with

VARIABLES
    mode        \* "none", "loop", "stream", "refused" (no such provider, no stream)

callVars == <<kind, cancelled, servers, offered, http>>
vars == <<registryVars, assemblyVars, callVars, loopVars, streamVars, mode>>

Init ==
    /\ RegistryInit
    /\ resources = Stored /\ edits = 0 /\ since = {} /\ job = NoJob
    /\ kind = "none" /\ cancelled = FALSE /\ http = Idle
    /\ servers = <<>> /\ offered = Tools
    /\ loop = NoLoop /\ req = NoRequest
    /\ work = <<>> /\ slots = 0 /\ replies = <<>> /\ ran = {}
    /\ source = NoSource /\ reader = NoReader /\ chan = NoChan
    /\ caller = "off" /\ got = <<>>
    /\ mode = "none"

\* BuildProvider: the entry at i, the one its converters come from, and the
\* routes of an HTTP JSON source.
Buildable(i) ==
    /\ i # 0 /\ Converter(registry, i) # 0
    /\ registry[i].kind = "httpjson" => registry[i].routes

\* The name is resolved; an unknown provider is refused, and so is one that
\* cannot be built, or cannot stream when it should, and a stream whose
\* prompt the input guardrail withholds.
Resolve(name) ==
    /\ boot = "up" /\ mode = "none" /\ job.pc = "none"
    /\ LET i == Find(registry, name)
       IN  IF ~Buildable(i) THEN mode' = "refused" /\ UNCHANGED <<kind, http, loop>>
           ELSE /\ kind' = registry[i].kind
                /\ \/ /\ mode' = "loop"
                      /\ \E parallel \in BOOLEAN : LoopStarts(parallel)
                   \/ /\ registry[i].streams
                      /\ mode' = "stream" /\ http' = Sent
                      /\ UNCHANGED loop
                   \/ mode' = "refused" /\ UNCHANGED <<http, loop>>
    /\ UNCHANGED <<registryVars, assemblyVars, cancelled, servers, offered,
                   req, work, slots, replies, ran, streamVars>>

\* The starter has its agent: the session runtime calls RunPrepared.
StartRun ==
    /\ Assembled /\ Buildable(Find(registry, job.req.provider))
    /\ kind' = registry[Find(registry, job.req.provider)].kind
    /\ mode' = "loop" /\ \E parallel \in BOOLEAN : LoopStarts(parallel)
    /\ UNCHANGED <<registryVars, cancelled, req, work, slots, replies, ran, streamVars>>

\* StreamProvider returns: an error, or a stream whose reader is running.
StreamAnswered ==
    /\ mode = "stream" /\ http.pc = "done"
    /\ http' = Idle
    /\ IF http.end = "ok" THEN StreamOpens
       ELSE caller' = "stopped" /\ UNCHANGED <<source, reader, chan, got>>
    /\ UNCHANGED <<registryVars, assemblyVars, kind, cancelled, servers, offered, loopVars, mode>>

Finished ==
    \/ mode = "refused" \/ job.pc \in {"refused", "failed", "answered"}
    \/ mode = "loop" /\ loop.pc = "done"
    \/ mode = "stream" /\ caller \in {"eof", "stopped", "closed"}

Begun == mode # "none" \/ job.pc # "none"

Cancel ==
    /\ mode \in {"loop", "stream"} \/ job.pc \in {"queued", "assembling"}
    /\ ~cancelled /\ ~Finished
    /\ cancelled' = TRUE
    /\ UNCHANGED <<registryVars, assemblyVars, kind, servers, offered, http,
                   loopVars, streamVars, mode>>

\* The process is told to stop; the deferred functions of main remove the
\* providers it added.
Stop ==
    /\ boot = "up" /\ (Begun => Finished)
    /\ boot' = "stopping"
    /\ UNCHANGED <<registry, batch, added, assemblyVars, callVars, loopVars, streamVars, mode>>

Registry == RegistryNext /\ UNCHANGED <<assemblyVars, callVars, loopVars, streamVars, mode>>
Pass ==
    /\ PassNext \/ (mode = "none" /\ \E r \in Requests : Post(r) \/ Peek(r))
    /\ UNCHANGED <<registryVars, callVars, loopVars, streamVars, mode>>

Preview ==
    /\ Previewed /\ Buildable(Find(registry, job.req.provider))
    /\ UNCHANGED <<registryVars, kind, cancelled, http, loopVars, streamVars, mode>>

\* Other clients change the table while the run is on its way.
Edit ==
    /\ (InPass \/ job.pc = "queued") /\ EditNext
    /\ UNCHANGED <<registryVars, callVars, loopVars, streamVars, mode>>

Call == CallNext /\ UNCHANGED <<registryVars, assemblyVars, servers, offered, loopVars, streamVars, mode>>
Loop == LoopNext /\ UNCHANGED <<registryVars, assemblyVars, servers, offered, streamVars, mode>>
Stream == StreamNext /\ UNCHANGED <<registryVars, assemblyVars, callVars, loopVars, mode>>

Next ==
    \/ Registry \/ Stop
    \/ Pass \/ Edit \/ StartRun \/ Preview
    \/ \E name \in Asked : Resolve(name)
    \/ Cancel \/ StreamAnswered
    \/ Call \/ Loop \/ Stream

\* A query returns and the run's turn comes (RunManager shows that it does
\* when earlier runs end).  An attempt ends (the HTTP client has a timeout,
\* a process and an SDK turn are taken to end), a timer fires, a handler
\* returns, an MCP server answers or its timeout strikes; a source goes on or
\* ends; the caller keeps receiving.  Nobody has to post, cancel or close.
Prepares ==
    \/ PassNext /\ UNCHANGED <<registryVars, callVars, loopVars, streamVars, mode>>
    \/ StartRun \/ Preview
Works == Prepares \/ Call \/ Loop \/ StreamAnswered
Reads == ReaderNext /\ UNCHANGED <<registryVars, assemblyVars, callVars, loopVars, mode>>
Receives == Recv /\ UNCHANGED <<registryVars, assemblyVars, callVars, loopVars, mode>>
Spec == Init /\ [][Next]_vars /\ WF_vars(Works) /\ WF_vars(Reads) /\ WF_vars(Receives)

-----------------------------------------------------------------------------
TypeOK ==
    /\ RegistryTypeOK /\ AssemblyTypeOK /\ CallTypeOK /\ LoopTypeOK /\ StreamTypeOK
    /\ kind \in Kinds \union {"none"} /\ cancelled \in BOOLEAN /\ offered \subseteq Tools
    /\ mode \in {"none", "loop", "stream", "refused"}

(***************************************************************************)
(* What has begun ends: a posted run is refused, fails or is answered, no  *)
(* place of the semaphore is lost to a handler that panics, no goroutine   *)
(* of the loop or reader waits for the other side for ever, retries run    *)
(* out, and a caller that keeps receiving reaches the end of the stream.   *)
(***************************************************************************)
CallEnds == Begun ~> Finished
=============================================================================

---------------------------- MODULE AgentRegistry ----------------------------
(***************************************************************************)
(* The push-agent connections of one source: the WebSocket handlers        *)
(* (api/agent_ws.py) and the registry (agent_registry.py) on the event     *)
(* loop, the worker threads that send commands and wait                    *)
(* (collectors/agent.py), and the agent's side of a connection (client.go).*)
(*                                                                         *)
(* One action is what the event loop does between two awaits.  Connections *)
(* of other sources are independent: the registry is keyed by source.      *)
(* File content and its byte count are abstracted to a number of chunks.   *)
(***************************************************************************)
EXTENDS Integers, Sequences, FiniteSets

CONSTANTS
    Conns,      \* WebSocket connections the agent opens, each used once
    NoConn,
    Requests,   \* command ids (uuid4), each used once
    Fetches,    \* the requests that are streamed fetches; the others are lists
    Slots,      \* maxParallelCommands of the agent
    Limit,      \* max_fetch_bytes, in chunks
    MaxChunks,  \* bound on the chunks of a file
    MaxFaults   \* bound on the messages a faulty agent makes up

ASSUME ConnsAssumption == NoConn \notin Conns
ASSUME FetchesAssumption == Fetches \subseteq Requests
ASSUME CountsAssumption ==
    Slots \in Nat \ {0} /\ Limit \in Nat /\ MaxChunks \in Nat /\ MaxFaults \in Nat

VARIABLES
    registered,  \* _connections[source_id].websocket
    handler,     \* agent_connect, per connection
    net,         \* the socket: what is on its way down to the agent and up
    job,         \* the agent's goroutine for a command, per connection
    cmd,         \* _send_command with its future and its _Stream
    dest,        \* fetch_file's destination file
    faults       \* messages made up so far

vars == <<registered, handler, net, job, cmd, dest, faults>>

Command == [type: {"list", "fetch", "cancel"}, id: Requests]

\* A fetch_chunk with its seq, the closing result of a streamed fetch with the
\* number of chunks it claims, any other *_result, or a *_error.
Message ==
    [type: {"chunk", "streamed_result"}, id: Fetches, seq: 0..MaxChunks]
        \cup [type: {"result", "error"}, id: Requests, seq: {0}]

Reply(type, r, seq) == [type |-> type, id |-> r, seq |-> seq]

\* What a future holds: nothing yet, a result or an exception.
Futures == {"none", "pending", "result", "cancelled",
            "not_connected", "agent_error", "write_error"}

NoJob == [pc |-> "none", cancelled |-> FALSE, sent |-> 0]

NoResult == [streamed |-> FALSE, chunks |-> 0]

NotConnected == [open |-> FALSE, down |-> <<>>, up |-> <<>>]

Init ==
    /\ registered = NoConn
    /\ handler = [c \in Conns |-> [pc |-> "new", old |-> NoConn]]
    /\ net = [c \in Conns |-> NotConnected]
    /\ job = [c \in Conns |-> [r \in Requests |-> NoJob]]
    /\ cmd = [r \in Requests |->
                [pc |-> "idle", conn |-> NoConn, future |-> "none",
                 result |-> NoResult, next |-> 0, ok |-> FALSE]]
    /\ dest = [r \in Requests |-> [file |-> "absent", content |-> <<>>]]
    /\ faults = 0

(***************************************************************************)
(* The registry.                                                           *)
(***************************************************************************)

\* connection.pending of c: from _send_command's start to its finally.
Pending(c) == {r \in Requests : cmd[r].pc \in {"sending", "waiting"} /\ cmd[r].conn = c}

\* Mutant: the commands of the connection are left waiting.
FailPending_none(c) == cmd

\* _fail_pending
FailPending(c) ==
    [r \in Requests |->
        IF r \in Pending(c) /\ cmd[r].future = "pending"
        THEN [cmd[r] EXCEPT !.future = "not_connected"] ELSE cmd[r]]

\* The socket closes; what was on its way up may be lost from some message on.
Closed(c) ==
    {[open |-> FALSE, down |-> <<>>, up |-> SubSeq(net[c].up, 1, n)] :
        n \in 0..Len(net[c].up)}

\* The agent's end of a closed connection: cancelAll, and nothing it sends arrives.
JobsEnded(c) == [job EXCEPT ![c] = [r \in Requests |-> NoJob]]

\* An agent connects and is registered.  Nothing is awaited before the receive
\* loop unless a connection was replaced.  The commit of agent_last_seen_at may
\* raise, and the handler then ends outside its try: nothing is unregistered.
Connect(c) ==
    /\ handler[c].pc = "new"
    /\ registered' = c
    /\ cmd' = FailPending(registered)
    /\ \/ /\ registered # NoConn
          /\ handler' = [handler EXCEPT ![c] = [pc |-> "closing_old", old |-> registered]]
          /\ net' = [net EXCEPT ![c].open = TRUE]
       \/ /\ registered = NoConn
          /\ handler' = [handler EXCEPT ![c].pc = "serving"]
          /\ net' = [net EXCEPT ![c].open = TRUE]
       \/ /\ registered = NoConn
          /\ handler' = [handler EXCEPT ![c].pc = "crashed"]
          /\ UNCHANGED net
    /\ UNCHANGED <<job, dest, faults>>

\* The replaced socket is closed, then the commit succeeds or raises.
CloseReplaced(c) ==
    /\ handler[c].pc = "closing_old"
    /\ \E old \in Closed(handler[c].old) :
        \/ /\ handler' = [handler EXCEPT ![c] = [pc |-> "serving", old |-> NoConn]]
           /\ net' = [net EXCEPT ![handler[c].old] = old]
        \/ /\ handler' = [handler EXCEPT ![c] = [pc |-> "crashed", old |-> NoConn]]
           /\ net' = [net EXCEPT ![handler[c].old] = old, ![c] = NotConnected]
    /\ job' = JobsEnded(handler[c].old)
    /\ UNCHANGED <<registered, cmd, dest, faults>>

\* Mutant: unregister without its websocket argument.
Unregister_any(c) ==
    /\ registered' = NoConn
    /\ cmd' = FailPending(registered)

\* unregister, given the handler's own websocket
Unregister(c) ==
    \/ /\ registered = c
       /\ registered' = NoConn
       /\ cmd' = FailPending(c)
    \/ /\ registered # c
       /\ UNCHANGED <<registered, cmd>>

\* receive_json meets the end of a closed socket: the finally clause runs.
EndOfStream(c) ==
    /\ handler[c].pc = "serving"
    /\ ~net[c].open /\ net[c].up = <<>>
    /\ handler' = [handler EXCEPT ![c].pc = "ended"]
    /\ Unregister(c)
    /\ UNCHANGED <<net, job, dest, faults>>

\* The network or the agent drops the connection.
Drop(c) ==
    /\ net[c].open
    /\ \E closed \in Closed(c) : net' = [net EXCEPT ![c] = closed]
    /\ job' = JobsEnded(c)
    /\ UNCHANGED <<registered, handler, cmd, dest, faults>>

\* The future a message on connection c may resolve: current connection, command
\* still pending, future not done.
Resolvable(c, r) ==
    registered = c /\ r \in Pending(c) /\ cmd[r].future = "pending"

\* Mutant: a streamed result is believed whatever arrived before it.
Resolved_unchecked(m) ==
    IF m.type = "error" THEN [cmd[m.id] EXCEPT !.future = "agent_error"]
    ELSE [cmd[m.id] EXCEPT !.future = "result",
            !.result = [streamed |-> m.type = "streamed_result", chunks |-> m.seq]]

\* resolve_response: an error, a streamed result that is complete or not, or any
\* other result.
Resolved(m) ==
    IF m.type = "error" \/ (m.type = "streamed_result" /\ m.seq # cmd[m.id].next)
    THEN [cmd[m.id] EXCEPT !.future = "agent_error"]
    ELSE [cmd[m.id] EXCEPT !.future = "result",
            !.result = [streamed |-> m.type = "streamed_result", chunks |-> m.seq]]

\* The receive loop takes a *_result or *_error message.
ReceiveResponse(c) ==
    /\ handler[c].pc = "serving"
    /\ net[c].up # <<>>
    /\ LET m == Head(net[c].up)
       IN /\ m.type # "chunk"
          /\ cmd' = IF Resolvable(c, m.id) THEN [cmd EXCEPT ![m.id] = Resolved(m)] ELSE cmd
    /\ net' = [net EXCEPT ![c].up = Tail(@)]
    /\ UNCHANGED <<registered, handler, job, dest, faults>>

\* The chunk is the next one and stays within the limit.
ChunkFits(m) == m.seq = cmd[m.id].next /\ cmd[m.id].next < Limit

\* The receive loop takes a fetch_chunk: ignored, refused, or handed to a thread
\* that writes it to the sink while the loop goes on with other things.
ReceiveChunk(c) ==
    /\ handler[c].pc = "serving"
    /\ net[c].up # <<>>
    /\ LET m == Head(net[c].up)
       IN /\ m.type = "chunk"
          /\ \/ /\ ~Resolvable(c, m.id)
                /\ UNCHANGED <<cmd, handler>>
             \/ /\ Resolvable(c, m.id) /\ ~ChunkFits(m)
                /\ cmd' = [cmd EXCEPT ![m.id].future = "agent_error"]
                /\ UNCHANGED handler
             \/ /\ Resolvable(c, m.id) /\ ChunkFits(m)
                /\ handler' = [handler EXCEPT ![c] =
                                 [pc |-> "writing", old |-> @.old, req |-> m.id, seq |-> m.seq]]
                /\ UNCHANGED cmd
    /\ net' = [net EXCEPT ![c].up = Tail(@)]
    /\ UNCHANGED <<registered, job, dest, faults>>

Serving(c) == [handler EXCEPT ![c] = [pc |-> "serving", old |-> @.old]]

\* The chunk is written to the open sink and counted, wherever the command is now.
WriteDone(c) ==
    /\ handler[c].pc = "writing"
    /\ LET r == handler[c].req
       IN /\ dest[r].file = "open"
          /\ dest' = [dest EXCEPT ![r].content = Append(@, handler[c].seq)]
          /\ cmd' = [cmd EXCEPT ![r].next = @ + 1]
    /\ handler' = Serving(c)
    /\ UNCHANGED <<registered, net, job, faults>>

WriteError(r) ==
    IF cmd[r].future = "pending" THEN [cmd EXCEPT ![r].future = "write_error"] ELSE cmd

\* The write raises: disk full, or the sink was closed after the command gave up.
WriteFails(c) ==
    /\ handler[c].pc = "writing"
    /\ cmd' = WriteError(handler[c].req)
    /\ handler' = Serving(c)
    /\ UNCHANGED <<registered, net, job, dest, faults>>

(***************************************************************************)
(* A command: fetch_file or list_directory in a worker thread and          *)
(* _send_command on the loop.                                              *)
(***************************************************************************)

Kind(r) == IF r \in Fetches THEN "fetch" ELSE "list"

SentDown(c, type, r) ==
    IF net[c].open THEN [net EXCEPT ![c].down = Append(@, [type |-> type, id |-> r])] ELSE net

\* fetch_file opens the destination; _send_command looks the connection up,
\* enters the command as pending and starts to send it.
SendCommand(r) ==
    /\ cmd[r].pc = "idle"
    /\ dest' = [dest EXCEPT ![r].file = IF r \in Fetches THEN "open" ELSE "absent"]
    /\ \/ /\ registered = NoConn
          /\ cmd' = [cmd EXCEPT ![r].pc = "returned"]
          /\ UNCHANGED net
       \/ /\ registered # NoConn
          /\ cmd' = [cmd EXCEPT ![r].pc = "sending", ![r].conn = registered,
                                ![r].future = "pending"]
          /\ net' = SentDown(registered, Kind(r), r)
    /\ UNCHANGED <<registered, handler, job, faults>>

\* send_json returns.
SendDone(r) ==
    /\ cmd[r].pc = "sending"
    /\ cmd' = [cmd EXCEPT ![r].pc = "waiting"]
    /\ UNCHANGED <<registered, handler, net, job, dest, faults>>

\* The finally clause after a failure: no longer pending, a fetch is cancelled.
GivenUp(r, future) ==
    /\ cmd' = [cmd EXCEPT ![r].pc = "returned", ![r].future = future]
    /\ net' = IF r \in Fetches THEN SentDown(cmd[r].conn, "cancel", r) ELSE net
    /\ UNCHANGED <<registered, handler, job, dest, faults>>

\* send_json raises: the socket is closed.
SendFails(r) ==
    /\ cmd[r].pc = "sending"
    /\ ~net[cmd[r].conn].open
    /\ GivenUp(r, cmd[r].future)

\* The future is done.
WaitDone(r) ==
    /\ cmd[r].pc = "waiting"
    /\ \/ /\ cmd[r].future = "result"
          /\ cmd' = [cmd EXCEPT ![r].pc = "returned", ![r].ok = TRUE]
          /\ UNCHANGED <<registered, handler, net, job, dest, faults>>
       \/ /\ cmd[r].future \notin {"pending", "result"}
          /\ GivenUp(r, cmd[r].future)

\* A timeout.  wait_for cancels a list's future; a fetch that took too long to send
\* gives up without looking at its future.
Timeout(r) ==
    \/ /\ cmd[r].pc = "waiting" /\ cmd[r].future = "pending"
       /\ GivenUp(r, IF r \in Fetches THEN "pending" ELSE "cancelled")
    \/ /\ cmd[r].pc = "sending" /\ r \in Fetches
       /\ GivenUp(r, cmd[r].future)

\* Mutant: a failed fetch leaves what it wrote.
FetchedFile_kept(r) ==
    IF cmd[r].ok /\ ~cmd[r].result.streamed THEN [file |-> "whole", content |-> <<>>]
    ELSE [dest[r] EXCEPT !.file = "closed"]

\* fetch_file: the sink is closed; a failure unlinks it, an old agent's answer
\* holds the whole content.
FetchedFile(r) ==
    CASE ~cmd[r].ok -> [file |-> "absent", content |-> <<>>]
      [] cmd[r].ok /\ cmd[r].result.streamed -> [dest[r] EXCEPT !.file = "closed"]
      [] cmd[r].ok /\ ~cmd[r].result.streamed -> [file |-> "whole", content |-> <<>>]

\* fetch_file raises over an old agent's answer, outside the try that unlinks: it is over
\* the limit (and unlinked), cannot be decoded, or cannot be written.
RefusedFiles(r) ==
    {[file |-> "absent", content |-> <<>>], [dest[r] EXCEPT !.file = "closed"],
     [file |-> "partial", content |-> <<>>]}

\* The worker thread has the outcome.
Return(r) ==
    /\ cmd[r].pc = "returned"
    /\ \/ /\ cmd' = [cmd EXCEPT ![r].pc = "done"]
          /\ dest' = IF r \in Fetches THEN [dest EXCEPT ![r] = FetchedFile(r)] ELSE dest
       \/ /\ r \in Fetches /\ cmd[r].ok /\ ~cmd[r].result.streamed
          /\ cmd' = [cmd EXCEPT ![r].pc = "refused", ![r].ok = FALSE]
          /\ \E file \in RefusedFiles(r) : dest' = [dest EXCEPT ![r] = file]
    /\ UNCHANGED <<registered, handler, net, job, faults>>

(***************************************************************************)
(* The agent.                                                              *)
(***************************************************************************)

\* connectAndServe's loop: a command gets a goroutine, "cancel" reaches its context.
AgentRead(c) ==
    /\ net[c].open /\ net[c].down # <<>>
    /\ LET m == Head(net[c].down)
       IN job' = IF m.type # "cancel" THEN [job EXCEPT ![c][m.id].pc = "queued"]
                 ELSE IF job[c][m.id].pc \in {"queued", "running"}
                      THEN [job EXCEPT ![c][m.id].cancelled = TRUE] ELSE job
    /\ net' = [net EXCEPT ![c].down = Tail(@)]
    /\ UNCHANGED <<registered, handler, cmd, dest, faults>>

\* A goroutine gets one of the slots.
AgentStart(c, r) ==
    /\ job[c][r].pc = "queued"
    /\ Cardinality({q \in Requests : job[c][q].pc = "running"}) < Slots
    /\ job' = [job EXCEPT ![c][r].pc = "running"]
    /\ UNCHANGED <<registered, handler, net, cmd, dest, faults>>

SentUp(c, m) == [net EXCEPT ![c].up = Append(@, m)]

\* serveCommand's next chunk, which also notices a cancelled context.
AgentChunk(c, r) ==
    /\ net[c].open /\ job[c][r].pc = "running" /\ r \in Fetches
    /\ job[c][r].sent < MaxChunks
    /\ \/ /\ job[c][r].cancelled
          /\ job' = [job EXCEPT ![c][r].pc = "ended"]
          /\ UNCHANGED net
       \/ /\ ~job[c][r].cancelled
          /\ job' = [job EXCEPT ![c][r].sent = @ + 1]
          /\ net' = SentUp(c, Reply("chunk", r, job[c][r].sent))
    /\ UNCHANGED <<registered, handler, cmd, dest, faults>>

\* End of file, an error, or the single answer to a list or of an old agent.
AgentAnswer(c, r) ==
    /\ net[c].open /\ job[c][r].pc = "running"
    /\ job' = [job EXCEPT ![c][r].pc = "ended"]
    /\ \/ /\ r \in Fetches
          /\ net' = SentUp(c, Reply("streamed_result", r, job[c][r].sent))
       \/ /\ job[c][r].sent = 0
          /\ net' = SentUp(c, Reply("result", r, 0))
       \/ net' = SentUp(c, Reply("error", r, 0))
    /\ UNCHANGED <<registered, handler, cmd, dest, faults>>

\* An agent at fault sends something else.
AgentFault(c) ==
    /\ net[c].open
    /\ faults < MaxFaults
    /\ \E m \in Message : net' = SentUp(c, m)
    /\ faults' = faults + 1
    /\ UNCHANGED <<registered, handler, job, cmd, dest>>

HandlerStep(c) ==
    \/ Connect(c) \/ CloseReplaced(c) \/ EndOfStream(c)
    \/ ReceiveResponse(c) \/ ReceiveChunk(c) \/ WriteDone(c) \/ WriteFails(c)

CommandStep(r) ==
    \/ SendCommand(r) \/ SendDone(r) \/ SendFails(r) \/ WaitDone(r)
    \/ Timeout(r) \/ Return(r)

AgentStep(c) ==
    \/ AgentRead(c) \/ AgentFault(c)
    \/ \E r \in Requests : AgentStart(c, r) \/ AgentChunk(c, r) \/ AgentAnswer(c, r)

Next ==
    \/ \E c \in Conns : HandlerStep(c) \/ Drop(c) \/ AgentStep(c)
    \/ \E r \in Requests : CommandStep(r)

\* The event loop runs every callback that is ready, a write ends one way or the
\* other, and a send ends by the time its socket is closed.  No timeout is assumed
\* to fire, and nothing of the agent.
Fairness ==
    /\ \A c \in Conns :
        /\ WF_vars(EndOfStream(c)) /\ WF_vars(CloseReplaced(c))
        /\ WF_vars(ReceiveResponse(c)) /\ WF_vars(ReceiveChunk(c))
        /\ WF_vars(WriteDone(c) \/ WriteFails(c))
    /\ \A r \in Requests :
        WF_vars(SendDone(r) \/ SendFails(r)) /\ WF_vars(WaitDone(r)) /\ WF_vars(Return(r))

Spec == Init /\ [][Next]_vars
FairSpec == Spec /\ Fairness

(***************************************************************************)
(* Properties.                                                             *)
(***************************************************************************)

HandlerState ==
    [pc: {"new", "closing_old", "serving", "crashed", "ended"}, old: Conns \cup {NoConn}]
        \cup [pc: {"writing"}, old: Conns \cup {NoConn}, req: Fetches, seq: 0..MaxChunks]

\* Every variable has its type; a counted chunk never passes the limit.
TypeOK ==
    /\ registered \in Conns \cup {NoConn}
    /\ handler \in [Conns -> HandlerState]
    /\ net \in [Conns -> [open: BOOLEAN, down: Seq(Command), up: Seq(Message)]]
    /\ job \in [Conns -> [Requests ->
                [pc: {"none", "queued", "running", "ended"}, cancelled: BOOLEAN,
                 sent: 0..MaxChunks]]]
    /\ cmd \in [Requests ->
                [pc: {"idle", "sending", "waiting", "returned", "done", "refused"},
                 conn: Conns \cup {NoConn}, future: Futures,
                 result: [streamed: BOOLEAN, chunks: 0..MaxChunks],
                 next: 0..Limit, ok: BOOLEAN]]
    /\ dest \in [Requests -> [file: {"absent", "open", "closed", "whole", "partial"},
                              content: Seq(0..MaxChunks)]]
    /\ faults \in Nat

\* No command waits for a connection that nobody will answer on: it is the
\* registered one, or the future was failed when it was replaced or removed.
WaitsOnlyOnTheRegistered ==
    \A r \in Requests :
        (cmd[r].pc \in {"sending", "waiting"} /\ cmd[r].future = "pending")
            => cmd[r].conn = registered

\* A fetch that succeeds has every chunk once and in order, as many as the agent
\* says it sent and no more than the limit; one that fails leaves no file, not even by
\* a write still under way (but see NoFileAfterFailure for one that is refused).
WholeFileOrNone ==
    \A r \in Fetches : cmd[r].pc = "done" =>
        \/ /\ cmd[r].ok /\ dest[r].file = "closed"
           /\ Len(dest[r].content) = cmd[r].result.chunks
           /\ cmd[r].result.chunks <= Limit
           /\ \A i \in 1..Len(dest[r].content) : dest[r].content[i] = i - 1
        \/ cmd[r].ok /\ dest[r].file = "whole"
        \/ ~cmd[r].ok /\ dest[r] = [file |-> "absent", content |-> <<>>]

\* collectors/agent.py: "no partial file left behind".  The code does not keep it: the answer
\* of an old agent is decoded and written outside the try that unlinks the file.
NoFileAfterFailure ==
    \A r \in Fetches :
        (cmd[r].pc \in {"done", "refused"} /\ ~cmd[r].ok) => dest[r].file = "absent"

CallOf(r) ==
    CASE cmd[r].pc = "idle" -> "idle"
      [] cmd[r].pc = "done" -> IF cmd[r].ok THEN "returned" ELSE "raised"
      [] cmd[r].pc = "refused" -> "refused"
      [] OTHER -> "running"

Promise == INSTANCE Fetching WITH
    Requests <- Fetches,
    call <- [r \in Fetches |-> CallOf(r)],
    file <- [r \in Fetches |-> dest[r]]

\* Whatever connections come and go, and however writes, timeouts and late messages
\* interleave, fetch_file keeps its promise: the file is filled in order, there is none after
\* it has raised (but over an old agent's answer), and once the call has ended nothing is
\* ever written to it again.
KeepsPromise == Promise!FetchSpec

\* A handler that ends takes only its own registration with it, never that of the
\* connection that replaced it.
OnlyOwnUnregistered ==
    [][(registered' = NoConn /\ registered # NoConn) =>
        handler[registered].pc = "serving" /\ handler'[registered].pc = "ended"]_vars

\* unregister's promise: once the handler of a dropped connection runs, a command
\* that waits on it is answered, without any timeout.
DroppedCommandsReturn ==
    \A r \in Requests : \A c \in Conns :
        (r \in Pending(c) /\ handler[c].pc \in {"serving", "writing"} /\ ~net[c].open)
            ~> (cmd[r].pc \in {"done", "refused"})

\* The registry "tracks live push-agent WebSocket connections" (agent_registry.py):
\* the registered connection still has a handler.  The code does not keep it: a commit
\* that raises after register ends the handler outside its try.
RegisteredIsLive ==
    registered # NoConn => handler[registered].pc \notin {"crashed", "ended"}

=============================================================================

------------------------ MODULE AgentRegistry_proofs ------------------------
(***************************************************************************)
(* No command waits on a connection that is gone, a fetched file is whole  *)
(* or not there, and fetch_file keeps the promise of module Fetching: for  *)
(* any connections, requests and limits, with any faulty agent.            *)
(***************************************************************************)
EXTENDS AgentRegistry, SequenceTheorems, TLAPS

(***************************************************************************)
(* The inductive invariant.                                                *)
(***************************************************************************)

\* A command under way has a connection, and waits only for the registered one.
WaitInv ==
    \A r \in Requests :
        cmd[r].pc \in {"sending", "waiting"} =>
            /\ cmd[r].conn \in Conns
            /\ cmd[r].future = "pending" => cmd[r].conn = registered

\* The handler that writes a chunk is that of the command's own connection, the chunk is
\* the next one, and no result was believed meanwhile.
WriteInv ==
    \A c \in Conns : handler[c].pc = "writing" =>
        /\ cmd[handler[c].req].conn = c
        /\ cmd[handler[c].req].pc # "idle"
        /\ cmd[handler[c].req].future # "result"
        /\ handler[c].seq = cmd[handler[c].req].next
        /\ cmd[handler[c].req].next < Limit

InOrder(content) == \A i \in 1..Len(content) : content[i] = i - 1

\* The destination of one fetch: nothing yet, open and filled as far as was counted, or
\* what the call left behind.
FileInvOf(r) ==
    /\ cmd[r].pc = "idle" =>
        dest[r] = [file |-> "absent", content |-> <<>>] /\ cmd[r].next = 0 /\ ~cmd[r].ok
    /\ cmd[r].pc \in {"sending", "waiting", "returned"} =>
        /\ dest[r].file = "open"
        /\ Len(dest[r].content) = cmd[r].next
        /\ InOrder(dest[r].content)
    /\ cmd[r].pc = "done" =>
        \/ /\ cmd[r].ok /\ dest[r].file = "closed"
           /\ Len(dest[r].content) = cmd[r].result.chunks
           /\ cmd[r].result.chunks <= Limit
           /\ InOrder(dest[r].content)
        \/ cmd[r].ok /\ dest[r].file = "whole"
        \/ ~cmd[r].ok /\ dest[r] = [file |-> "absent", content |-> <<>>]
    /\ cmd[r].pc = "refused" => dest[r].file # "open"
    /\ cmd[r].ok => cmd[r].future = "result"
    /\ cmd[r].future = "result" /\ cmd[r].result.streamed =>
        cmd[r].result.chunks = cmd[r].next

FileInv == \A r \in Fetches : FileInvOf(r)

\* A handler that closes a replaced connection has one to close.
ReplacedInv == \A c \in Conns : handler[c].pc = "closing_old" => handler[c].old \in Conns

IInv == TypeOK /\ ReplacedInv /\ WaitInv /\ WriteInv /\ FileInv

\* The state of one command and of one file.
CommandState ==
    [pc: {"idle", "sending", "waiting", "returned", "done", "refused"},
     conn: Conns \cup {NoConn}, future: Futures,
     result: [streamed: BOOLEAN, chunks: 0..MaxChunks], next: 0..Limit, ok: BOOLEAN]

FileState == [file: {"absent", "open", "closed", "whole", "partial"}, content: Seq(0..MaxChunks)]

Socket == [open: BOOLEAN, down: Seq(Command), up: Seq(Message)]

Job == [pc: {"none", "queued", "running", "ended"}, cancelled: BOOLEAN, sent: 0..MaxChunks]

(***************************************************************************)
(* What the operators of the model do to a command and a socket.           *)
(***************************************************************************)

\* Failing the pending commands of a connection leaves them well typed.
LEMMA FailPendingTyped ==
    ASSUME TypeOK, NEW c \in Conns \cup {NoConn}
    PROVE  FailPending(c) \in [Requests -> CommandState]
<1>1. cmd \in [Requests -> CommandState]
    BY DEF TypeOK, CommandState
<1>2. ASSUME NEW q \in Requests
      PROVE  [cmd[q] EXCEPT !.future = "not_connected"] \in CommandState
    BY <1>1 DEF CommandState, Futures
<1> QED BY <1>1, <1>2 DEF FailPending

\* _fail_pending answers the pending commands of a connection and touches nothing else.
LEMMA FailPendingFacts ==
    ASSUME TypeOK, NEW c \in Conns \cup {NoConn}, NEW r \in Requests
    PROVE  /\ \/ FailPending(c)[r] = cmd[r]
              \/ /\ cmd[r].future = "pending"
                 /\ FailPending(c)[r] = [cmd[r] EXCEPT !.future = "not_connected"]
           /\ cmd[r].pc \in {"sending", "waiting"} /\ cmd[r].conn = c
                => FailPending(c)[r].future # "pending"
<1>1. cmd[r] \in CommandState
    BY DEF TypeOK, CommandState
<1>2. [cmd[r] EXCEPT !.future = "not_connected"].future = "not_connected"
    BY <1>1 DEF CommandState
<1> QED BY <1>2 DEF FailPending, Pending

\* A socket that closes keeps its type, and only what was on its way up.
LEMMA ClosedTyped ==
    ASSUME TypeOK, NEW c \in Conns, NEW s \in Closed(c)
    PROVE  s \in Socket
<1>1. net[c] \in Socket /\ net[c].up \in Seq(Message)
    BY DEF TypeOK, Socket
<1>2. ASSUME NEW n \in 0..Len(net[c].up)
      PROVE  SubSeq(net[c].up, 1, n) \in Seq(Message)
    BY <1>1, SubSeqProperties
<1>3. <<>> \in Seq(Command)
    OBVIOUS
<1>4. PICK n \in 0..Len(net[c].up) :
        s = [open |-> FALSE, down |-> <<>>, up |-> SubSeq(net[c].up, 1, n)]
    BY DEF Closed
<1> QED BY <1>2, <1>3, <1>4 DEF Socket

LEMMA SentDownTyped ==
    ASSUME TypeOK, NEW c \in Conns, NEW r \in Requests, NEW type \in {"list", "fetch", "cancel"}
    PROVE  SentDown(c, type, r) \in [Conns -> Socket]
<1>1. net \in [Conns -> Socket]
    BY DEF TypeOK, Socket
<1>2. [type |-> type, id |-> r] \in Command
    BY DEF Command
<1>3. Append(net[c].down, [type |-> type, id |-> r]) \in Seq(Command)
    BY <1>1, <1>2, AppendProperties DEF Socket
<1> QED BY <1>1, <1>3 DEF SentDown, Socket

LEMMA SentUpTyped ==
    ASSUME TypeOK, NEW c \in Conns, NEW m \in Message
    PROVE  SentUp(c, m) \in [Conns -> Socket]
<1>1. net \in [Conns -> Socket]
    BY DEF TypeOK, Socket
<1>2. Append(net[c].up, m) \in Seq(Message)
    BY <1>1, AppendProperties DEF Socket
<1> QED BY <1>1, <1>2 DEF SentUp, Socket

LEMMA ReadUpTyped ==
    ASSUME TypeOK, NEW c \in Conns, net[c].up # <<>>
    PROVE  /\ Head(net[c].up) \in Message
           /\ [net EXCEPT ![c].up = Tail(@)] \in [Conns -> Socket]
<1>1. net \in [Conns -> Socket] /\ net[c].up \in Seq(Message)
    BY DEF TypeOK, Socket
<1>2. Head(net[c].up) \in Message /\ Tail(net[c].up) \in Seq(Message)
    BY <1>1, HeadTailProperties
<1> QED BY <1>1, <1>2 DEF Socket

\* A message resolves a future that was pending, and changes nothing but the answer; a
\* streamed result is believed only when it claims the chunks that were counted.
LEMMA ResolvedFacts ==
    ASSUME TypeOK, NEW m \in Message
    PROVE  /\ Resolved(m) \in CommandState
           /\ Resolved(m).pc = cmd[m.id].pc
           /\ Resolved(m).conn = cmd[m.id].conn
           /\ Resolved(m).next = cmd[m.id].next
           /\ Resolved(m).ok = cmd[m.id].ok
           /\ Resolved(m).future \in {"agent_error", "result"}
           /\ Resolved(m).future = "result" /\ Resolved(m).result.streamed
                => Resolved(m).result.chunks = cmd[m.id].next
<1>1. m.id \in Requests /\ m.seq \in 0..MaxChunks
    BY FetchesAssumption, CountsAssumption DEF Message
<1>2. cmd[m.id] \in CommandState
    BY <1>1 DEF TypeOK, CommandState
<1> QED BY <1>1, <1>2 DEF Resolved, CommandState, Futures

(***************************************************************************)
(* Types.                                                                  *)
(***************************************************************************)

TypeInv ==
    /\ registered \in Conns \cup {NoConn}
    /\ handler \in [Conns -> HandlerState]
    /\ net \in [Conns -> Socket]
    /\ job \in [Conns -> [Requests -> Job]]
    /\ cmd \in [Requests -> CommandState]
    /\ dest \in [Requests -> FileState]
    /\ faults \in Nat

LEMMA TypeInvIsTypeOK == TypeInv <=> TypeOK
BY DEF TypeInv, TypeOK, Socket, Job, CommandState, FileState

LEMMA InitTyped == Init => TypeInv
<1> SUFFICES ASSUME Init PROVE TypeInv
    OBVIOUS
<1>1. NotConnected \in Socket
    BY DEF NotConnected, Socket
<1>2. NoJob \in Job
    BY CountsAssumption DEF NoJob, Job
<1>3. [pc |-> "idle", conn |-> NoConn, future |-> "none", result |-> NoResult, next |-> 0,
       ok |-> FALSE] \in CommandState
    BY CountsAssumption DEF CommandState, Futures, NoResult
<1>4. [file |-> "absent", content |-> <<>>] \in FileState
    BY DEF FileState
<1>5. [pc |-> "new", old |-> NoConn] \in HandlerState
    BY DEF HandlerState
<1> QED BY <1>1, <1>2, <1>3, <1>4, <1>5 DEF Init, TypeInv

\* The edits of one command that the actions make.
LEMMA FutureTyped ==
    ASSUME TypeInv, NEW r \in Requests, NEW f \in Futures
    PROVE  [cmd EXCEPT ![r].future = f] \in [Requests -> CommandState]
<1>1. cmd \in [Requests -> CommandState]
    BY DEF TypeInv
<1>2. [cmd[r] EXCEPT !.future = f] \in CommandState
    BY <1>1 DEF CommandState
<1> QED BY <1>1, <1>2

LEMMA NextTyped ==
    ASSUME TypeInv, NEW r \in Requests, cmd[r].next < Limit
    PROVE  [cmd EXCEPT ![r].next = @ + 1] \in [Requests -> CommandState]
<1>1. cmd \in [Requests -> CommandState]
    BY DEF TypeInv
<1>2. cmd[r].next + 1 \in 0..Limit
    BY <1>1, CountsAssumption DEF CommandState
<1>3. [cmd[r] EXCEPT !.next = @ + 1] \in CommandState
    BY <1>1, <1>2 DEF CommandState
<1> QED BY <1>1, <1>3

LEMMA PcTyped ==
    ASSUME TypeInv, NEW r \in Requests,
           NEW pc \in {"idle", "sending", "waiting", "returned", "done"}
    PROVE  [cmd EXCEPT ![r].pc = pc] \in [Requests -> CommandState]
<1>1. cmd \in [Requests -> CommandState]
    BY DEF TypeInv
<1>2. [cmd[r] EXCEPT !.pc = pc] \in CommandState
    BY <1>1 DEF CommandState
<1> QED BY <1>1, <1>2

LEMMA ReturnedTyped ==
    ASSUME TypeInv, NEW r \in Requests, NEW f \in Futures
    PROVE  [cmd EXCEPT ![r].pc = "returned", ![r].future = f] \in [Requests -> CommandState]
<1>1. cmd \in [Requests -> CommandState]
    BY DEF TypeInv
<1>2. [cmd[r] EXCEPT !.pc = "returned", !.future = f] \in CommandState
    BY <1>1 DEF CommandState
<1> QED BY <1>1, <1>2

LEMMA OutcomeTyped ==
    ASSUME TypeInv, NEW r \in Requests
    PROVE  /\ [cmd EXCEPT ![r].pc = "returned", ![r].ok = TRUE] \in [Requests -> CommandState]
           /\ [cmd EXCEPT ![r].pc = "done", ![r].ok = FALSE] \in [Requests -> CommandState]
           /\ [cmd EXCEPT ![r].pc = "refused", ![r].ok = FALSE] \in [Requests -> CommandState]
<1>1. cmd \in [Requests -> CommandState]
    BY DEF TypeInv
<1>2. /\ [cmd[r] EXCEPT !.pc = "returned", !.ok = TRUE] \in CommandState
      /\ [cmd[r] EXCEPT !.pc = "done", !.ok = FALSE] \in CommandState
      /\ [cmd[r] EXCEPT !.pc = "refused", !.ok = FALSE] \in CommandState
    BY <1>1 DEF CommandState
<1> QED BY <1>1, <1>2

LEMMA SentTyped ==
    ASSUME TypeInv, NEW r \in Requests, registered \in Conns
    PROVE  [cmd EXCEPT ![r].pc = "sending", ![r].conn = registered, ![r].future = "pending"]
                \in [Requests -> CommandState]
<1>1. cmd \in [Requests -> CommandState]
    BY DEF TypeInv
<1>2. [cmd[r] EXCEPT !.pc = "sending", !.conn = registered, !.future = "pending"]
            \in CommandState
    BY <1>1 DEF CommandState, Futures
<1> QED BY <1>1, <1>2

\* The steps of a handler.
LEMMA HandlerTyped ==
    ASSUME TypeInv, WriteInv, ReplacedInv, NEW c \in Conns, HandlerStep(c)
    PROVE  TypeInv'
<1> USE DEF TypeInv
<1>0. TypeOK
    BY TypeInvIsTypeOK
<1>1. /\ handler[c] \in HandlerState
      /\ handler[c].pc # "writing" => handler[c].old \in Conns \cup {NoConn}
    BY DEF HandlerState
<1>2. ASSUME NEW pc \in {"new", "closing_old", "serving", "crashed", "ended"},
             NEW old \in Conns \cup {NoConn}
      PROVE  [pc |-> pc, old |-> old] \in HandlerState
    BY DEF HandlerState
<1>3. \A d \in Conns \cup {NoConn} : FailPending(d) \in [Requests -> CommandState]
    BY <1>0, FailPendingTyped
<1>4. CASE Connect(c)
    <2>1. handler[c] \in [pc: {"new"}, old: Conns \cup {NoConn}]
        BY <1>4, <1>1 DEF Connect, HandlerState
    <2>3. \A pc \in {"serving", "crashed"} : [handler[c] EXCEPT !.pc = pc] \in HandlerState
        BY <2>1 DEF HandlerState
    <2>4. handler' \in [Conns -> HandlerState]
        BY <1>4, <2>3, <1>2 DEF Connect
    <2>2. net' \in [Conns -> Socket]
        BY <1>4 DEF Connect, Socket
    <2> QED BY <1>4, <2>2, <2>4, <1>3 DEF Connect
<1>5. CASE CloseReplaced(c)
    <2>1. handler[c].old \in Conns
        BY <1>5 DEF CloseReplaced, ReplacedInv
    <2>2. PICK old \in Closed(handler[c].old) :
            \/ /\ handler' = [handler EXCEPT ![c] = [pc |-> "serving", old |-> NoConn]]
               /\ net' = [net EXCEPT ![handler[c].old] = old]
            \/ /\ handler' = [handler EXCEPT ![c] = [pc |-> "crashed", old |-> NoConn]]
               /\ net' = [net EXCEPT ![handler[c].old] = old, ![c] = NotConnected]
        BY <1>5 DEF CloseReplaced
    <2>3. old \in Socket /\ NotConnected \in Socket
        BY <2>1, <1>0, ClosedTyped DEF NotConnected, Socket
    <2>4. handler' \in [Conns -> HandlerState]
        <3>1. /\ [pc |-> "serving", old |-> NoConn] \in HandlerState
              /\ [pc |-> "crashed", old |-> NoConn] \in HandlerState
            BY <1>2
        <3> QED BY <2>2, <3>1
    <2>6. net' \in [Conns -> Socket]
        <3>1. [net EXCEPT ![handler[c].old] = old] \in [Conns -> Socket]
            BY <2>1, <2>3
        <3> QED BY <2>2, <2>3, <3>1
    <2>5. job' \in [Conns -> [Requests -> Job]]
        BY <1>5, <2>1, CountsAssumption DEF CloseReplaced, JobsEnded, NoJob, Job
    <2> QED BY <1>5, <2>4, <2>5, <2>6 DEF CloseReplaced
<1>6. CASE EndOfStream(c)
    <2>1. handler' \in [Conns -> HandlerState]
        BY <1>6, <1>1, <1>2 DEF EndOfStream, HandlerState
    <2> QED BY <1>6, <2>1, <1>3 DEF EndOfStream, Unregister
<1>7. CASE ReceiveResponse(c)
    <2>1. /\ Head(net[c].up) \in Message
          /\ net' \in [Conns -> Socket]
        BY <1>7, <1>0, ReadUpTyped DEF ReceiveResponse
    <2>2. Resolved(Head(net[c].up)) \in CommandState
        BY <2>1, <1>0, ResolvedFacts
    <2>3. cmd' \in [Requests -> CommandState]
        BY <2>2, <1>7 DEF ReceiveResponse
    <2> QED BY <1>7, <2>1, <2>3 DEF ReceiveResponse
<1>8. CASE ReceiveChunk(c)
    <2> DEFINE m == Head(net[c].up)
    <2>1. /\ m \in Message
          /\ net' \in [Conns -> Socket]
        BY <1>8, <1>0, ReadUpTyped DEF ReceiveChunk
    <2>2. m.type = "chunk"
        BY <1>8 DEF ReceiveChunk
    <2>3. m.id \in Fetches /\ m.seq \in 0..MaxChunks
        BY <2>1, <2>2 DEF Message
    <2>4. [pc |-> "writing", old |-> handler[c].old, req |-> m.id, seq |-> m.seq] \in HandlerState
        BY <2>3, <1>1, <1>8 DEF HandlerState, ReceiveChunk
    <2>5. [cmd EXCEPT ![m.id].future = "agent_error"] \in [Requests -> CommandState]
        BY <2>3, FetchesAssumption, FutureTyped DEF Futures
    <2> HIDE DEF m
    <2>6. handler' \in [Conns -> HandlerState] /\ cmd' \in [Requests -> CommandState]
        BY <2>4, <2>5, <1>8 DEF ReceiveChunk, m
    <2> QED BY <1>8, <2>1, <2>6 DEF ReceiveChunk
<1>9. CASE WriteDone(c)
    <2>1. handler[c].req \in Fetches /\ handler[c].seq \in 0..MaxChunks
          /\ handler[c].old \in Conns \cup {NoConn}
        BY <1>1, <1>9 DEF WriteDone, HandlerState
    <2>2. cmd[handler[c].req].next < Limit
        BY <1>9 DEF WriteInv, WriteDone
    <2>3. cmd' \in [Requests -> CommandState]
        BY <2>1, <2>2, <1>9, FetchesAssumption, NextTyped DEF WriteDone
    <2>4. Append(dest[handler[c].req].content, handler[c].seq) \in Seq(0..MaxChunks)
        BY <2>1, FetchesAssumption, AppendProperties DEF FileState
    <2>5. dest' \in [Requests -> FileState]
        BY <2>1, <2>4, <1>9, FetchesAssumption DEF WriteDone, FileState
    <2>6. handler' \in [Conns -> HandlerState]
        BY <2>1, <1>2, <1>9 DEF WriteDone, Serving
    <2> QED BY <1>9, <2>3, <2>5, <2>6 DEF WriteDone
<1>10. CASE WriteFails(c)
    <2>1. handler[c].req \in Fetches /\ handler[c].old \in Conns \cup {NoConn}
        BY <1>1, <1>10 DEF WriteFails, HandlerState
    <2>2. cmd' \in [Requests -> CommandState]
        BY <2>1, <1>10, FetchesAssumption, FutureTyped DEF WriteFails, WriteError, Futures
    <2>3. handler' \in [Conns -> HandlerState]
        BY <2>1, <1>2, <1>10 DEF WriteFails, Serving
    <2> QED BY <1>10, <2>2, <2>3 DEF WriteFails
<1> QED BY <1>4, <1>5, <1>6, <1>7, <1>8, <1>9, <1>10 DEF HandlerStep

\* The steps of a command.
LEMMA CommandTyped ==
    ASSUME TypeInv, WaitInv, NEW r \in Requests, CommandStep(r)
    PROVE  TypeInv'
<1> USE DEF TypeInv
<1>0. TypeOK
    BY TypeInvIsTypeOK
<1>1. /\ cmd[r] \in CommandState /\ dest[r] \in FileState
      /\ \A f \in {"absent", "open", "closed"} : [dest[r] EXCEPT !.file = f] \in FileState
      /\ [file |-> "absent", content |-> <<>>] \in FileState
      /\ [file |-> "whole", content |-> <<>>] \in FileState
    <2>1. cmd[r] \in CommandState /\ dest[r] \in FileState
        OBVIOUS
    <2>2. <<>> \in Seq(0..MaxChunks)
        OBVIOUS
    <2> QED BY <2>1, <2>2 DEF FileState
<1>2. cmd[r].future \in Futures
    BY <1>1 DEF CommandState
<1>3. ASSUME NEW f \in Futures, GivenUp(r, f), cmd[r].conn \in Conns
      PROVE  TypeInv'
    <2>1. SentDown(cmd[r].conn, "cancel", r) \in [Conns -> Socket]
        BY <1>0, <1>3, SentDownTyped
    <2>2. [cmd EXCEPT ![r].pc = "returned", ![r].future = f] \in [Requests -> CommandState]
        BY ReturnedTyped
    <2> QED BY <1>3, <2>1, <2>2 DEF GivenUp
<1>4. CASE SendCommand(r)
    <2>1. dest' \in [Requests -> FileState]
        BY <1>4, <1>1 DEF SendCommand
    <2>2. CASE registered = NoConn
        <3>1. cmd' \in [Requests -> CommandState]
            BY <1>4, <2>2, PcTyped DEF SendCommand
        <3> QED BY <1>4, <2>1, <2>2, <3>1 DEF SendCommand
    <2>3. CASE registered # NoConn
        <3>1. "pending" \in Futures /\ registered \in Conns
            BY <2>3 DEF Futures
        <3>2. cmd' \in [Requests -> CommandState]
            BY <1>4, <2>3, <3>1, SentTyped DEF SendCommand
        <3>3. net' \in [Conns -> Socket]
            BY <1>4, <2>3, <3>1, <1>0, SentDownTyped DEF SendCommand, Kind
        <3> QED BY <1>4, <2>1, <3>2, <3>3 DEF SendCommand
    <2> QED BY <2>2, <2>3
<1>5. CASE SendDone(r)
    <2>1. cmd' \in [Requests -> CommandState]
        BY <1>5, PcTyped DEF SendDone
    <2> QED BY <1>5, <2>1 DEF SendDone
<1>6. CASE SendFails(r)
    BY <1>6, <1>2, <1>3 DEF SendFails, WaitInv
<1>7. CASE WaitDone(r)
    <2>1. CASE GivenUp(r, cmd[r].future)
        BY <1>7, <2>1, <1>2, <1>3 DEF WaitDone, WaitInv
    <2>2. CASE ~GivenUp(r, cmd[r].future)
        <3>1. cmd' \in [Requests -> CommandState]
            BY <1>7, <2>2, OutcomeTyped DEF WaitDone
        <3> QED BY <1>7, <2>2, <3>1 DEF WaitDone
    <2> QED BY <2>1, <2>2
<1>8. CASE Timeout(r)
    <2>1. "pending" \in Futures /\ "cancelled" \in Futures
        BY DEF Futures
    <2> QED BY <1>8, <2>1, <1>2, <1>3 DEF Timeout, WaitInv
<1>9. CASE Return(r)
    <2>1. FetchedFile(r) \in FileState /\ RefusedFiles(r) \subseteq FileState
        BY <1>1 DEF FetchedFile, RefusedFiles, FileState
    <2>2. dest' \in [Requests -> FileState]
        BY <1>9, <1>1, <2>1 DEF Return
    <2>3. cmd' \in [Requests -> CommandState]
        <3>1. \/ cmd' = [cmd EXCEPT ![r].pc = "done"]
              \/ cmd' = [cmd EXCEPT ![r].pc = "refused", ![r].ok = FALSE]
            BY <1>9 DEF Return
        <3>2. [cmd EXCEPT ![r].pc = "done"] \in [Requests -> CommandState]
            BY PcTyped
        <3> HIDE DEF TypeInv
        <3>3. [cmd EXCEPT ![r].pc = "refused", ![r].ok = FALSE] \in [Requests -> CommandState]
            BY OutcomeTyped
        <3> QED BY ONLY <3>1, <3>2, <3>3
    <2> QED BY <1>9, <2>2, <2>3 DEF Return
<1> QED BY <1>4, <1>5, <1>6, <1>7, <1>8, <1>9 DEF CommandStep

\* The steps of the agent, and a connection that drops.
LEMMA AgentTyped ==
    ASSUME TypeInv, NEW c \in Conns, AgentStep(c) \/ Drop(c)
    PROVE  TypeInv'
<1> USE DEF TypeInv
<1>0. TypeOK
    BY TypeInvIsTypeOK
<1>1. \A r \in Requests : job[c][r] \in Job /\ job[c][r].sent \in 0..MaxChunks
    BY DEF Job
<1>2. ASSUME NEW r \in Requests, NEW pc \in {"queued", "running", "ended"}
      PROVE  [job EXCEPT ![c][r].pc = pc] \in [Conns -> [Requests -> Job]]
    <2>1. [job[c][r] EXCEPT !.pc = pc] \in Job
        BY <1>1 DEF Job
    <2>2. [job[c] EXCEPT ![r] = [@ EXCEPT !.pc = pc]] \in [Requests -> Job]
        BY <2>1
    <2> QED BY <2>2
<1>3. ASSUME NEW type \in {"chunk", "streamed_result"}, NEW r \in Fetches,
             NEW seq \in 0..MaxChunks
      PROVE  SentUp(c, Reply(type, r, seq)) \in [Conns -> Socket]
    BY <1>0, SentUpTyped DEF Reply, Message
<1>4. ASSUME NEW type \in {"result", "error"}, NEW r \in Requests
      PROVE  SentUp(c, Reply(type, r, 0)) \in [Conns -> Socket]
    BY <1>0, SentUpTyped DEF Reply, Message
<1>5. CASE Drop(c)
    <2>1. PICK closed \in Closed(c) : net' = [net EXCEPT ![c] = closed]
        BY <1>5 DEF Drop
    <2>2. net' \in [Conns -> Socket]
        BY <2>1, <1>0, ClosedTyped
    <2>3. job' \in [Conns -> [Requests -> Job]]
        BY <1>5, CountsAssumption DEF Drop, JobsEnded, NoJob, Job
    <2> QED BY <1>5, <2>2, <2>3 DEF Drop
<1>6. CASE AgentRead(c)
    <2> DEFINE m == Head(net[c].down)
    <2>1. net[c].down \in Seq(Command) /\ net[c].down # <<>>
        BY <1>6 DEF AgentRead, Socket
    <2>2. m \in Command /\ Tail(net[c].down) \in Seq(Command)
        BY <2>1, HeadTailProperties
    <2>3. net' \in [Conns -> Socket]
        BY <1>6, <2>2 DEF AgentRead, Socket
    <2>4. m.id \in Requests
        BY <2>2 DEF Command
    <2>5. [job[c][m.id] EXCEPT !.cancelled = TRUE] \in Job
        BY <2>4, <1>1 DEF Job
    <2>6. [job[c] EXCEPT ![m.id] = [@ EXCEPT !.cancelled = TRUE]] \in [Requests -> Job]
        BY <2>4, <2>5
    <2>7. [job EXCEPT ![c][m.id].cancelled = TRUE] \in [Conns -> [Requests -> Job]]
        BY <2>6
    <2>8. job' \in [Conns -> [Requests -> Job]]
        BY <1>6, <2>4, <2>7, <1>2 DEF AgentRead
    <2> QED BY <1>6, <2>3, <2>8 DEF AgentRead
<1>7. CASE AgentFault(c)
    <2>1. net' \in [Conns -> Socket]
        BY <1>7, <1>0, SentUpTyped DEF AgentFault
    <2> QED BY <1>7, <2>1, CountsAssumption DEF AgentFault
<1>8. ASSUME NEW r \in Requests, AgentStart(c, r)
      PROVE  TypeInv'
    BY <1>8, <1>2 DEF AgentStart
<1>9. ASSUME NEW r \in Requests, AgentChunk(c, r)
      PROVE  TypeInv'
    <2>1. CASE job[c][r].cancelled
        BY <1>9, <2>1, <1>2 DEF AgentChunk
    <2>2. CASE ~job[c][r].cancelled
        <3>1. job[c][r].sent + 1 \in 0..MaxChunks
            BY <1>9, <1>1, CountsAssumption DEF AgentChunk
        <3>2. [job[c][r] EXCEPT !.sent = job[c][r].sent + 1] \in Job
            BY <3>1, <1>1 DEF Job
        <3>3. job' = [job EXCEPT ![c] = [job[c] EXCEPT ![r] =
                                            [job[c][r] EXCEPT !.sent = job[c][r].sent + 1]]]
            BY <1>9, <2>2 DEF AgentChunk
        <3>4. job' \in [Conns -> [Requests -> Job]]
            BY <3>2, <3>3
        <3>5. net' \in [Conns -> Socket]
            BY <1>9, <2>2, <1>1, <1>3 DEF AgentChunk
        <3> QED BY <1>9, <3>4, <3>5 DEF AgentChunk
    <2> QED BY <2>1, <2>2
<1>10. ASSUME NEW r \in Requests, AgentAnswer(c, r)
       PROVE  TypeInv'
    <2>1. job' \in [Conns -> [Requests -> Job]]
        BY <1>10, <1>2 DEF AgentAnswer
    <2>2. net' \in [Conns -> Socket]
        BY <1>10, <1>1, <1>3, <1>4 DEF AgentAnswer
    <2> QED BY <1>10, <2>1, <2>2 DEF AgentAnswer
<1> QED BY <1>5, <1>6, <1>7, <1>8, <1>9, <1>10 DEF AgentStep

LEMMA TypeStep == IInv /\ [Next]_vars => TypeOK'
<1> SUFFICES ASSUME IInv, [Next]_vars PROVE TypeInv'
    BY TypeInvIsTypeOK, PTL
<1>1. TypeInv /\ WaitInv /\ WriteInv /\ ReplacedInv
    BY TypeInvIsTypeOK DEF IInv
<1>2. CASE Next
    BY <1>1, <1>2, HandlerTyped, CommandTyped, AgentTyped DEF Next
<1>3. CASE UNCHANGED vars
    BY <1>1, <1>3 DEF vars, TypeInv
<1> QED BY <1>2, <1>3

(***************************************************************************)
(* The four parts of the invariant that are not types.                     *)
(***************************************************************************)

SemInv == ReplacedInv /\ WaitInv /\ WriteInv /\ FileInv

\* A step that touches no command, no file and no handler keeps them.
LEMMA QuietStep ==
    ASSUME SemInv, registered' = registered, handler' = handler, cmd' = cmd, dest' = dest
    PROVE  SemInv'
BY DEF SemInv, ReplacedInv, WaitInv, WriteInv, FileInv, FileInvOf, InOrder

\* What is written to a file and what its command knows of it are the same as before.
LEMMA SameFetch ==
    ASSUME NEW r \in Fetches, FileInvOf(r), cmd'[r] = cmd[r], dest'[r] = dest[r]
    PROVE  FileInvOf(r)'
BY DEF FileInvOf, InOrder

\* A command whose future fails knows no less of its file.
LEMMA FailedFetch ==
    ASSUME NEW r \in Fetches, FileInvOf(r), dest'[r] = dest[r],
           cmd'[r].pc = cmd[r].pc, cmd'[r].ok = cmd[r].ok, cmd'[r].next = cmd[r].next,
           cmd'[r].result = cmd[r].result, cmd[r].future # "result",
           cmd'[r].future # "result"
    PROVE  FileInvOf(r)'
BY DEF FileInvOf, InOrder

\* A future that fails: what the invariant says is kept.
LEMMA FutureFails ==
    ASSUME TypeInv, SemInv, dest' = dest, cmd' \in [Requests -> CommandState],
           \A r \in Requests :
                \/ cmd'[r] = cmd[r]
                \/ /\ cmd[r].future = "pending"
                   /\ \E f \in {"agent_error", "write_error", "not_connected"} :
                        cmd'[r] = [cmd[r] EXCEPT !.future = f]
    PROVE  /\ FileInv'
           /\ \A r \in Requests :
                /\ cmd'[r].pc = cmd[r].pc /\ cmd'[r].conn = cmd[r].conn
                /\ cmd'[r].next = cmd[r].next
                /\ cmd'[r].future = "pending" => cmd[r].future = "pending"
                /\ cmd'[r].future = "result" => cmd[r].future = "result"
<1>1. \A r \in Requests : cmd[r] \in CommandState
    BY DEF TypeInv
<1>2. ASSUME NEW r \in Requests, NEW f \in {"agent_error", "write_error", "not_connected"},
             cmd'[r] = [cmd[r] EXCEPT !.future = f]
      PROVE  /\ cmd'[r].pc = cmd[r].pc /\ cmd'[r].conn = cmd[r].conn
             /\ cmd'[r].next = cmd[r].next /\ cmd'[r].ok = cmd[r].ok
             /\ cmd'[r].result = cmd[r].result /\ cmd'[r].future = f
    BY <1>1, <1>2 DEF CommandState
<1>3. FileInv'
    <2> SUFFICES ASSUME NEW r \in Fetches PROVE FileInvOf(r)'
        BY DEF FileInv
    <2>1. r \in Requests /\ FileInvOf(r)
        BY FetchesAssumption DEF SemInv, FileInv
    <2>2. CASE cmd'[r] = cmd[r]
        BY <2>1, <2>2, SameFetch
    <2>3. CASE cmd'[r] # cmd[r]
        BY <2>1, <2>3, <1>2, FailedFetch
    <2> QED BY <2>2, <2>3
<1> QED BY <1>2, <1>3

\* A handler of its own kind: what a record of it may look like.
LEMMA HandlerFacts ==
    ASSUME TypeInv, NEW c \in Conns
    PROVE  /\ handler[c].pc = "writing" =>
                handler[c].req \in Fetches /\ handler[c].seq \in 0..MaxChunks
           /\ handler[c].pc # "writing" =>
                handler[c] \in [pc: {"new", "closing_old", "serving", "crashed", "ended"},
                                old: Conns \cup {NoConn}]
BY DEF TypeInv, HandlerState

\* Writers that go on writing do so under the invariant when their command keeps its
\* connection and its count and no result came.
LEMMA WritersKept ==
    ASSUME TypeInv, SemInv,
           \A c \in Conns : handler'[c].pc = "writing" => handler'[c] = handler[c],
           \A c \in Conns : handler'[c].pc = "writing" =>
                LET r == handler[c].req
                IN /\ cmd'[r].conn = cmd[r].conn /\ cmd'[r].next = cmd[r].next
                   /\ cmd[r].pc # "idle" => cmd'[r].pc # "idle"
                   /\ cmd'[r].future = "result" => cmd[r].future = "result"
    PROVE  WriteInv'
BY DEF SemInv, WriteInv

LEMMA ConnectKeeps ==
    ASSUME TypeInv, TypeInv', SemInv, NEW c \in Conns, Connect(c)
    PROVE  SemInv'
<1>1. TypeOK /\ registered \in Conns \cup {NoConn}
    BY TypeInvIsTypeOK DEF TypeInv
<1>2. \A r \in Requests :
        /\ \/ cmd'[r] = cmd[r]
           \/ /\ cmd[r].future = "pending"
              /\ cmd'[r] = [cmd[r] EXCEPT !.future = "not_connected"]
        /\ cmd[r].pc \in {"sending", "waiting"} /\ cmd[r].conn = registered
                => cmd'[r].future # "pending"
    BY <1>1, FailPendingFacts DEF Connect
<1>3. /\ FileInv'
      /\ \A r \in Requests :
            /\ cmd'[r].pc = cmd[r].pc /\ cmd'[r].conn = cmd[r].conn
            /\ cmd'[r].next = cmd[r].next
            /\ cmd'[r].future = "pending" => cmd[r].future = "pending"
            /\ cmd'[r].future = "result" => cmd[r].future = "result"
    <2>1. dest' = dest /\ cmd' \in [Requests -> CommandState]
        BY DEF Connect, TypeInv
    <2> QED BY <2>1, <1>2, FutureFails
<1>4. WaitInv'
    BY <1>2, <1>3 DEF SemInv, WaitInv
<1>5. \A d \in Conns : d # c => handler'[d] = handler[d]
    BY DEF Connect, TypeInv
<1>6. handler'[c].pc # "writing" /\ (handler'[c].pc = "closing_old" => handler'[c].old \in Conns)
    <2>1. handler[c] \in [pc: {"new", "closing_old", "serving", "crashed", "ended"},
                          old: Conns \cup {NoConn}]
        BY HandlerFacts DEF Connect
    <2>2. handler \in [Conns -> HandlerState]
        BY DEF TypeInv
    <2> QED BY <1>1, <2>1, <2>2 DEF Connect
<1>7. ReplacedInv'
    BY <1>5, <1>6 DEF SemInv, ReplacedInv
<1>8. WriteInv'
    <2>1. \A d \in Conns : handler'[d].pc = "writing" =>
            handler'[d] = handler[d] /\ handler[d].req \in Requests
        BY <1>5, <1>6, HandlerFacts, FetchesAssumption
    <2> QED BY <2>1, <1>3, WritersKept
<1> QED BY <1>3, <1>4, <1>7, <1>8 DEF SemInv

LEMMA CloseReplacedKeeps ==
    ASSUME TypeInv, SemInv, NEW c \in Conns, CloseReplaced(c)
    PROVE  SemInv'
<1>1. registered' = registered /\ cmd' = cmd /\ dest' = dest
    BY DEF CloseReplaced
<1>2. \A d \in Conns : d # c => handler'[d] = handler[d]
    BY DEF CloseReplaced, TypeInv
<1>3. handler'[c].pc \in {"serving", "crashed"}
    BY DEF CloseReplaced, TypeInv
<1>4. WaitInv' /\ FileInv'
    BY <1>1 DEF SemInv, WaitInv, FileInv, FileInvOf, InOrder
<1>5. ReplacedInv' /\ WriteInv'
    BY <1>1, <1>2, <1>3 DEF SemInv, ReplacedInv, WriteInv
<1> QED BY <1>4, <1>5 DEF SemInv

LEMMA EndOfStreamKeeps ==
    ASSUME TypeInv, TypeInv', SemInv, NEW c \in Conns, EndOfStream(c)
    PROVE  SemInv'
<1>1. TypeOK /\ c \in Conns \cup {NoConn}
    BY TypeInvIsTypeOK
<1>2. \A r \in Requests :
        /\ \/ cmd'[r] = cmd[r]
           \/ /\ cmd[r].future = "pending"
              /\ cmd'[r] = [cmd[r] EXCEPT !.future = "not_connected"]
        /\ cmd[r].pc \in {"sending", "waiting"} /\ cmd[r].conn = registered
                => cmd'[r].future # "pending" \/ registered' = registered
    BY <1>1, FailPendingFacts DEF EndOfStream, Unregister
<1>3. /\ FileInv'
      /\ \A r \in Requests :
            /\ cmd'[r].pc = cmd[r].pc /\ cmd'[r].conn = cmd[r].conn
            /\ cmd'[r].next = cmd[r].next
            /\ cmd'[r].future = "pending" => cmd[r].future = "pending"
            /\ cmd'[r].future = "result" => cmd[r].future = "result"
    <2>1. dest' = dest /\ cmd' \in [Requests -> CommandState]
        BY DEF EndOfStream, TypeInv
    <2> QED BY <2>1, <1>2, FutureFails
<1>4. WaitInv'
    BY <1>2, <1>3 DEF SemInv, WaitInv
<1>5. \A d \in Conns : d # c => handler'[d] = handler[d]
    BY DEF EndOfStream, TypeInv
<1>6. handler'[c].pc = "ended"
    <2>1. handler[c] \in [pc: {"new", "closing_old", "serving", "crashed", "ended"},
                          old: Conns \cup {NoConn}]
        BY HandlerFacts DEF EndOfStream
    <2>2. handler \in [Conns -> HandlerState]
        BY DEF TypeInv
    <2> QED BY <2>1, <2>2 DEF EndOfStream
<1>7. ReplacedInv'
    BY <1>5, <1>6 DEF SemInv, ReplacedInv
<1>8. WriteInv'
    <2>1. \A d \in Conns : handler'[d].pc = "writing" =>
            handler'[d] = handler[d] /\ handler[d].req \in Requests
        BY <1>5, <1>6, HandlerFacts, FetchesAssumption
    <2> QED BY <2>1, <1>3, WritersKept
<1> QED BY <1>3, <1>4, <1>7, <1>8 DEF SemInv

LEMMA ReceiveResponseKeeps ==
    ASSUME TypeInv, SemInv, NEW c \in Conns, ReceiveResponse(c)
    PROVE  SemInv'
<1> DEFINE m == Head(net[c].up)
<1>1. TypeOK /\ cmd \in [Requests -> CommandState]
    BY TypeInvIsTypeOK DEF TypeInv
<1>2. m \in Message /\ m.id \in Requests
    <2>1. m \in Message
        BY <1>1, ReadUpTyped DEF ReceiveResponse
    <2> QED BY <2>1, FetchesAssumption DEF Message
<1>3. registered' = registered /\ handler' = handler /\ dest' = dest
    BY DEF ReceiveResponse
<1>4. CASE ~Resolvable(c, m.id)
    <2>1. cmd' = cmd
        BY <1>4 DEF ReceiveResponse
    <2> QED BY <2>1, <1>3, QuietStep
<1>5. CASE Resolvable(c, m.id)
    <2>1. cmd' = [cmd EXCEPT ![m.id] = Resolved(m)]
        BY <1>5 DEF ReceiveResponse
    <2>2. \A r \in Requests : r # m.id => cmd'[r] = cmd[r]
        BY <2>1, <1>1
    <2>3. cmd'[m.id] = Resolved(m)
        BY <2>1, <1>1, <1>2
    <2>4. /\ cmd'[m.id].pc = cmd[m.id].pc /\ cmd'[m.id].conn = cmd[m.id].conn
          /\ cmd'[m.id].next = cmd[m.id].next /\ cmd'[m.id].ok = cmd[m.id].ok
          /\ cmd'[m.id].future \in {"agent_error", "result"}
          /\ cmd'[m.id].future = "result" /\ cmd'[m.id].result.streamed
                => cmd'[m.id].result.chunks = cmd[m.id].next
        BY <2>3, <1>1, <1>2, ResolvedFacts
    <2>5. /\ cmd[m.id].pc \in {"sending", "waiting"} /\ cmd[m.id].conn = c
          /\ cmd[m.id].future = "pending" /\ registered = c
        BY <1>5 DEF Resolvable, Pending
    <2>6. WaitInv'
        BY <2>2, <2>4, <1>3 DEF SemInv, WaitInv
    <2>7. WriteInv'
        <3> SUFFICES ASSUME NEW d \in Conns, handler[d].pc = "writing"
                     PROVE  /\ cmd'[handler[d].req].conn = d
                            /\ cmd'[handler[d].req].pc # "idle"
                            /\ cmd'[handler[d].req].future # "result"
                            /\ handler[d].seq = cmd'[handler[d].req].next
                            /\ cmd'[handler[d].req].next < Limit
            BY <1>3 DEF WriteInv
        <3>1. handler[d].req \in Requests
            BY HandlerFacts, FetchesAssumption
        <3>2. handler[d].req # m.id
            BY <2>5 DEF SemInv, WriteInv, ReceiveResponse
        <3> QED BY <3>1, <3>2, <2>2 DEF SemInv, WriteInv
    <2>8. FileInv'
        <3> SUFFICES ASSUME NEW r \in Fetches PROVE FileInvOf(r)'
            BY DEF FileInv
        <3>1. r \in Requests /\ FileInvOf(r)
            BY FetchesAssumption DEF SemInv, FileInv
        <3>2. CASE r # m.id
            BY <3>1, <3>2, <2>2, <1>3, SameFetch
        <3>3. CASE r = m.id
            BY <3>1, <3>3, <2>4, <2>5, <1>3 DEF FileInvOf, InOrder
        <3> QED BY <3>2, <3>3
    <2>9. ReplacedInv'
        BY <1>3 DEF SemInv, ReplacedInv
    <2> QED BY <2>6, <2>7, <2>8, <2>9 DEF SemInv
<1> QED BY <1>4, <1>5

\* The refusal of a chunk and a failed write.
LEMMA FailedFutureKeeps ==
    ASSUME TypeInv, TypeInv', SemInv, NEW c \in Conns, NEW r \in Requests,
           registered' = registered, dest' = dest,
           handler' = handler \/ handler' = Serving(c),
           NEW f \in {"agent_error", "write_error"},
           \/ cmd' = cmd
           \/ cmd[r].future = "pending" /\ cmd' = [cmd EXCEPT ![r].future = f]
    PROVE  SemInv'
<1>1. cmd \in [Requests -> CommandState] /\ cmd' \in [Requests -> CommandState]
    BY DEF TypeInv
<1>2. \A q \in Requests :
        \/ cmd'[q] = cmd[q]
        \/ /\ cmd[q].future = "pending"
           /\ cmd'[q] = [cmd[q] EXCEPT !.future = f]
    BY <1>1
<1>3. /\ FileInv'
      /\ \A q \in Requests :
            /\ cmd'[q].pc = cmd[q].pc /\ cmd'[q].conn = cmd[q].conn
            /\ cmd'[q].next = cmd[q].next
            /\ cmd'[q].future = "pending" => cmd[q].future = "pending"
            /\ cmd'[q].future = "result" => cmd[q].future = "result"
    BY <1>1, <1>2, FutureFails
<1>4. WaitInv'
    BY <1>3 DEF SemInv, WaitInv
<1>5. \A d \in Conns : handler'[d] = handler[d] \/ handler'[d].pc = "serving"
    BY DEF Serving, TypeInv
<1>6. ReplacedInv'
    BY <1>5 DEF SemInv, ReplacedInv
<1>7. WriteInv'
    <2>1. \A d \in Conns : handler'[d].pc = "writing" =>
            handler'[d] = handler[d] /\ handler[d].req \in Requests
        BY <1>5, HandlerFacts, FetchesAssumption
    <2> QED BY <2>1, <1>3, WritersKept
<1> QED BY <1>3, <1>4, <1>6, <1>7 DEF SemInv

LEMMA ReceiveChunkKeeps ==
    ASSUME TypeInv, TypeInv', SemInv, NEW c \in Conns, ReceiveChunk(c)
    PROVE  SemInv'
<1> DEFINE m == Head(net[c].up)
<1>1. TypeOK /\ handler \in [Conns -> HandlerState]
    BY TypeInvIsTypeOK DEF TypeInv
<1>2. m \in Message /\ m.id \in Requests
    <2>1. m \in Message
        BY <1>1, ReadUpTyped DEF ReceiveChunk
    <2> QED BY <2>1, FetchesAssumption DEF Message
<1>3. registered' = registered /\ dest' = dest
    BY DEF ReceiveChunk
<1>4. CASE ~Resolvable(c, m.id)
    <2>1. cmd' = cmd /\ handler' = handler
        BY <1>4 DEF ReceiveChunk
    <2> QED BY <2>1, <1>3, QuietStep
<1>5. CASE Resolvable(c, m.id) /\ ~ChunkFits(m)
    <2>1. handler' = handler /\ cmd' = [cmd EXCEPT ![m.id].future = "agent_error"]
        BY <1>5 DEF ReceiveChunk
    <2>2. cmd[m.id].future = "pending"
        BY <1>5 DEF Resolvable
    <2> HIDE DEF m
    <2> QED BY <2>1, <2>2, <1>2, <1>3, FailedFutureKeeps
<1>6. CASE Resolvable(c, m.id) /\ ChunkFits(m)
    <2>1. /\ cmd' = cmd
          /\ handler' = [handler EXCEPT ![c] =
                            [pc |-> "writing", old |-> @.old, req |-> m.id, seq |-> m.seq]]
        BY <1>6 DEF ReceiveChunk
    <2>2. \A d \in Conns : d # c => handler'[d] = handler[d]
        BY <2>1, <1>1
    <2>3. handler'[c].pc = "writing" /\ handler'[c].req = m.id /\ handler'[c].seq = m.seq
        BY <2>1, <1>1
    <2>4. /\ cmd[m.id].conn = c /\ cmd[m.id].pc # "idle" /\ cmd[m.id].future # "result"
          /\ m.seq = cmd[m.id].next /\ cmd[m.id].next < Limit
        BY <1>6 DEF Resolvable, Pending, ChunkFits
    <2>5. WaitInv' /\ FileInv'
        BY <2>1, <1>3 DEF SemInv, WaitInv, FileInv, FileInvOf, InOrder
    <2> HIDE DEF m
    <2>6. WriteInv' /\ ReplacedInv'
        BY <2>1, <2>2, <2>3, <2>4 DEF SemInv, WriteInv, ReplacedInv
    <2> QED BY <2>5, <2>6 DEF SemInv
<1> QED BY <1>4, <1>5, <1>6

LEMMA WriteFailsKeeps ==
    ASSUME TypeInv, TypeInv', SemInv, NEW c \in Conns, WriteFails(c)
    PROVE  SemInv'
<1> DEFINE r == handler[c].req
<1>1. r \in Requests
    BY HandlerFacts, FetchesAssumption DEF WriteFails
<1>2. /\ registered' = registered /\ dest' = dest /\ handler' = Serving(c)
      /\ \/ cmd' = cmd
         \/ cmd[r].future = "pending" /\ cmd' = [cmd EXCEPT ![r].future = "write_error"]
    BY DEF WriteFails, WriteError
<1> HIDE DEF r
<1> QED BY <1>1, <1>2, FailedFutureKeeps

\* One more chunk in order.
LEMMA NextInOrder ==
    ASSUME NEW s \in Seq(0..MaxChunks), NEW n \in Nat, Len(s) = n, InOrder(s)
    PROVE  Len(Append(s, n)) = n + 1 /\ InOrder(Append(s, n))
<1>1. /\ Len(Append(s, n)) = n + 1
      /\ \A i \in 1..n + 1 : Append(s, n)[i] = IF i <= n THEN s[i] ELSE n
    OBVIOUS
<1>2. \A i \in 1..n : s[i] = i - 1
    BY DEF InOrder
<1>3. ASSUME NEW i \in 1..Len(Append(s, n)) PROVE Append(s, n)[i] = i - 1
    <2>1. CASE i <= n
        BY <2>1, <1>1, <1>2
    <2>2. CASE ~(i <= n)
        BY <2>2, <1>1
    <2> QED BY <2>1, <2>2
<1> QED BY <1>1, <1>3 DEF InOrder

\* The chunk that is written is the next one, by the only handler that could write it.
LEMMA WriteDoneKeeps ==
    ASSUME TypeInv, SemInv, NEW c \in Conns, WriteDone(c)
    PROVE  SemInv'
<1> DEFINE r == handler[c].req
<1>1. r \in Fetches /\ r \in Requests
    BY HandlerFacts, FetchesAssumption DEF WriteDone
<1>2. cmd \in [Requests -> CommandState] /\ dest \in [Requests -> FileState]
    BY DEF TypeInv
<1>3. /\ cmd[r].conn = c /\ cmd[r].pc # "idle" /\ cmd[r].future # "result"
      /\ handler[c].seq = cmd[r].next /\ dest[r].file = "open"
    BY DEF WriteDone, SemInv, WriteInv
<1>4. /\ dest' = [dest EXCEPT ![r].content = Append(@, handler[c].seq)]
      /\ cmd' = [cmd EXCEPT ![r].next = @ + 1]
      /\ registered' = registered /\ handler' = Serving(c)
    BY DEF WriteDone
<1> HIDE DEF r
<1>5. \A q \in Requests : q # r => cmd'[q] = cmd[q] /\ dest'[q] = dest[q]
    BY <1>2, <1>4
<1>6. cmd'[r] = [cmd[r] EXCEPT !.next = cmd[r].next + 1]
    BY <1>1, <1>2, <1>4
<1>7. /\ cmd'[r].pc = cmd[r].pc /\ cmd'[r].conn = cmd[r].conn /\ cmd'[r].ok = cmd[r].ok
      /\ cmd'[r].future = cmd[r].future /\ cmd'[r].next = cmd[r].next + 1
    BY <1>1, <1>2, <1>6 DEF CommandState
<1>8. \A d \in Conns : d # c => handler'[d] = handler[d]
    BY <1>4 DEF Serving, TypeInv
<1>9. handler'[c].pc = "serving"
    BY <1>4 DEF Serving, TypeInv
<1>10. WaitInv'
    BY <1>4, <1>5, <1>7 DEF SemInv, WaitInv
<1>11. ReplacedInv'
    BY <1>8, <1>9 DEF SemInv, ReplacedInv
<1>12. WriteInv'
    <2>1. \A d \in Conns : handler'[d].pc = "writing" =>
            /\ handler'[d] = handler[d] /\ handler[d].req \in Requests
            /\ handler[d].req # r
        BY <1>3, <1>8, <1>9, HandlerFacts, FetchesAssumption DEF SemInv, WriteInv
    <2> QED BY <2>1, <1>5, WritersKept
<1>13. FileInv'
    <2> SUFFICES ASSUME NEW q \in Fetches PROVE FileInvOf(q)'
        BY DEF FileInv
    <2>1. q \in Requests /\ FileInvOf(q)
        BY FetchesAssumption DEF SemInv, FileInv
    <2>2. CASE q # r
        BY <2>1, <2>2, <1>5, SameFetch
    <2>3. CASE q = r
        <3>1. /\ dest'[r].file = "open"
              /\ dest'[r].content = Append(dest[r].content, cmd[r].next)
            BY <1>1, <1>2, <1>3, <1>4 DEF FileState
        <3>2. /\ cmd[r].pc \in {"sending", "waiting", "returned"}
              /\ Len(dest[r].content) = cmd[r].next /\ InOrder(dest[r].content)
            BY <2>1, <2>3, <1>1, <1>2, <1>3 DEF FileInvOf, CommandState
        <3>3. dest[r].content \in Seq(0..MaxChunks) /\ cmd[r].next \in Nat
            BY <1>1, <1>2, CountsAssumption DEF FileState, CommandState
        <3>4. Len(dest'[r].content) = cmd'[r].next /\ InOrder(dest'[r].content)
            BY <3>1, <3>2, <3>3, <1>7, NextInOrder
        <3>5. cmd[r].ok => cmd[r].future = "result"
            BY <2>1, <2>3 DEF FileInvOf
        <3> QED BY <2>3, <3>1, <3>2, <3>4, <3>5, <1>3, <1>7 DEF FileInvOf, InOrder
    <2> QED BY <2>2, <2>3
<1> QED BY <1>10, <1>11, <1>12, <1>13 DEF SemInv

\* One command moves on, keeping its count; the others and every handler stay.
LEMMA CommandMoves ==
    ASSUME TypeInv, SemInv, NEW r \in Requests,
           registered' = registered, handler' = handler,
           \A q \in Requests : q # r => cmd'[q] = cmd[q] /\ dest'[q] = dest[q],
           r \in Fetches => FileInvOf(r)',
           cmd'[r].pc \in {"sending", "waiting"} =>
                /\ cmd'[r].conn \in Conns
                /\ cmd'[r].future = "pending" => cmd'[r].conn = registered,
           cmd[r].pc # "idle" =>
                /\ cmd'[r].pc # "idle" /\ cmd'[r].conn = cmd[r].conn
                /\ cmd'[r].next = cmd[r].next
                /\ cmd'[r].future = "result" => cmd[r].future = "result"
    PROVE  SemInv'
<1>1. ReplacedInv'
    BY DEF SemInv, ReplacedInv
<1>2. WaitInv'
    BY DEF SemInv, WaitInv
<1>3. WriteInv'
    <2> SUFFICES ASSUME NEW d \in Conns, handler[d].pc = "writing"
                 PROVE  /\ cmd'[handler[d].req].conn = d
                        /\ cmd'[handler[d].req].pc # "idle"
                        /\ cmd'[handler[d].req].future # "result"
                        /\ handler[d].seq = cmd'[handler[d].req].next
                        /\ cmd'[handler[d].req].next < Limit
        BY DEF WriteInv
    <2>1. handler[d].req \in Requests
        BY HandlerFacts, FetchesAssumption
    <2>2. CASE handler[d].req = r
        BY <2>1, <2>2 DEF SemInv, WriteInv
    <2>3. CASE handler[d].req # r
        BY <2>1, <2>3 DEF SemInv, WriteInv
    <2> QED BY <2>2, <2>3
<1>4. FileInv'
    <2> SUFFICES ASSUME NEW q \in Fetches PROVE FileInvOf(q)'
        BY DEF FileInv
    <2>1. q \in Requests /\ FileInvOf(q)
        BY FetchesAssumption DEF SemInv, FileInv
    <2>2. CASE q # r
        BY <2>1, <2>2, SameFetch
    <2>3. CASE q = r
        BY <2>3
    <2> QED BY <2>2, <2>3
<1> QED BY <1>1, <1>2, <1>3, <1>4 DEF SemInv

LEMMA SendCommandKeeps ==
    ASSUME TypeInv, SemInv, NEW r \in Requests, SendCommand(r)
    PROVE  SemInv'
<1>1. cmd \in [Requests -> CommandState] /\ dest \in [Requests -> FileState]
    BY DEF TypeInv
<1>2. registered' = registered /\ handler' = handler /\ cmd[r].pc = "idle"
    BY DEF SendCommand
<1>3. \A q \in Requests : q # r => cmd'[q] = cmd[q] /\ dest'[q] = dest[q]
    BY <1>1 DEF SendCommand
<1>4. \/ registered = NoConn /\ cmd' = [cmd EXCEPT ![r].pc = "returned"]
      \/ /\ registered # NoConn
         /\ cmd' = [cmd EXCEPT ![r].pc = "sending", ![r].conn = registered,
                               ![r].future = "pending"]
    BY DEF SendCommand
<1>5. \/ cmd'[r] = [cmd[r] EXCEPT !.pc = "returned"]
      \/ /\ registered # NoConn
         /\ cmd'[r] = [cmd[r] EXCEPT !.pc = "sending", !.conn = registered,
                                     !.future = "pending"]
    BY <1>1, <1>4
<1>6. /\ cmd'[r].next = cmd[r].next /\ cmd'[r].ok = cmd[r].ok
      /\ \/ cmd'[r].pc = "returned" /\ cmd'[r].future = cmd[r].future
               /\ cmd'[r].result = cmd[r].result
         \/ /\ cmd'[r].pc = "sending" /\ cmd'[r].future = "pending"
            /\ cmd'[r].conn = registered /\ registered # NoConn
    BY <1>1, <1>5 DEF CommandState
<1>7. registered # NoConn => registered \in Conns
    BY DEF TypeInv
<1>8. ASSUME r \in Fetches PROVE FileInvOf(r)'
    <2>1. FileInvOf(r)
        BY <1>8 DEF SemInv, FileInv
    <2>2. dest'[r].file = "open" /\ dest'[r].content = dest[r].content
        BY <1>1, <1>8 DEF SendCommand, FileState
    <2>3. dest[r].content = <<>> /\ cmd[r].next = 0 /\ ~cmd[r].ok
        BY <1>2, <2>1 DEF FileInvOf
    <2> QED BY <2>1, <2>2, <2>3, <1>2, <1>6 DEF FileInvOf, InOrder
<1> QED BY <1>2, <1>3, <1>6, <1>7, <1>8, CommandMoves

LEMMA SendDoneKeeps ==
    ASSUME TypeInv, SemInv, NEW r \in Requests, SendDone(r)
    PROVE  SemInv'
<1>1. cmd \in [Requests -> CommandState]
    BY DEF TypeInv
<1>2. /\ registered' = registered /\ handler' = handler /\ dest' = dest
      /\ cmd[r].pc = "sending" /\ cmd' = [cmd EXCEPT ![r].pc = "waiting"]
    BY DEF SendDone
<1>3. \A q \in Requests : q # r => cmd'[q] = cmd[q]
    BY <1>1, <1>2
<1>4. cmd'[r] = [cmd[r] EXCEPT !.pc = "waiting"]
    BY <1>1, <1>2
<1>5. /\ cmd'[r].pc = "waiting" /\ cmd'[r].conn = cmd[r].conn /\ cmd'[r].next = cmd[r].next
      /\ cmd'[r].ok = cmd[r].ok /\ cmd'[r].future = cmd[r].future
      /\ cmd'[r].result = cmd[r].result
    BY <1>1, <1>4 DEF CommandState
<1>6. ASSUME r \in Fetches PROVE FileInvOf(r)'
    BY <1>2, <1>5, <1>6 DEF SemInv, FileInv, FileInvOf, InOrder
<1>7. cmd[r].conn \in Conns /\ (cmd[r].future = "pending" => cmd[r].conn = registered)
    BY <1>2 DEF SemInv, WaitInv
<1> QED BY <1>2, <1>3, <1>5, <1>6, <1>7, CommandMoves

\* A command that gives up, its future a failure.
LEMMA GivenUpKeeps ==
    ASSUME TypeInv, SemInv, NEW r \in Requests, NEW f \in Futures,
           cmd[r].pc \in {"sending", "waiting"}, f = cmd[r].future \/ f # "result",
           r \in Fetches /\ cmd[r].ok => f = "result", GivenUp(r, f)
    PROVE  SemInv'
<1>1. cmd \in [Requests -> CommandState]
    BY DEF TypeInv
<1>2. /\ registered' = registered /\ handler' = handler /\ dest' = dest
      /\ cmd' = [cmd EXCEPT ![r].pc = "returned", ![r].future = f]
    BY DEF GivenUp
<1>3. \A q \in Requests : q # r => cmd'[q] = cmd[q]
    BY <1>1, <1>2
<1>4. cmd'[r] = [cmd[r] EXCEPT !.pc = "returned", !.future = f]
    BY <1>1, <1>2
<1>5. /\ cmd'[r].pc = "returned" /\ cmd'[r].conn = cmd[r].conn /\ cmd'[r].next = cmd[r].next
      /\ cmd'[r].ok = cmd[r].ok /\ cmd'[r].future = f
      /\ cmd'[r].result = cmd[r].result
    BY <1>1, <1>4 DEF CommandState
<1>6. ASSUME r \in Fetches PROVE FileInvOf(r)'
    BY <1>2, <1>5, <1>6 DEF SemInv, FileInv, FileInvOf, InOrder
<1> QED BY <1>2, <1>3, <1>5, <1>6, CommandMoves

LEMMA WaitEndsKeeps ==
    ASSUME TypeInv, SemInv, NEW r \in Requests, SendFails(r) \/ WaitDone(r) \/ Timeout(r)
    PROVE  SemInv'
<1>1. cmd \in [Requests -> CommandState] /\ cmd[r].future \in Futures
    BY DEF TypeInv, CommandState
<1>2. r \in Fetches => (cmd[r].ok => cmd[r].future = "result")
    BY DEF SemInv, FileInv, FileInvOf
<1>3. CASE SendFails(r)
    BY <1>1, <1>2, <1>3, GivenUpKeeps DEF SendFails
<1>4. CASE Timeout(r)
    <2>1. "pending" \in Futures /\ "cancelled" \in Futures
        BY DEF Futures
    <2> QED BY <2>1, <1>1, <1>2, <1>4, GivenUpKeeps DEF Timeout
<1>5. CASE WaitDone(r)
    <2>1. cmd[r].pc = "waiting"
        BY <1>5 DEF WaitDone
    <2>2. CASE GivenUp(r, cmd[r].future)
        BY <2>1, <2>2, <1>1, <1>2, GivenUpKeeps
    <2>3. CASE ~GivenUp(r, cmd[r].future)
        <3>1. /\ registered' = registered /\ handler' = handler /\ dest' = dest
              /\ cmd[r].future = "result"
              /\ cmd' = [cmd EXCEPT ![r].pc = "returned", ![r].ok = TRUE]
            BY <1>5, <2>3 DEF WaitDone
        <3>2. \A q \in Requests : q # r => cmd'[q] = cmd[q]
            BY <1>1, <3>1
        <3>3. cmd'[r] = [cmd[r] EXCEPT !.pc = "returned", !.ok = TRUE]
            BY <1>1, <3>1
        <3>4. /\ cmd'[r].pc = "returned" /\ cmd'[r].conn = cmd[r].conn
              /\ cmd'[r].next = cmd[r].next /\ cmd'[r].future = "result"
              /\ cmd'[r].result = cmd[r].result
            BY <1>1, <3>1, <3>3 DEF CommandState
        <3>5. ASSUME r \in Fetches PROVE FileInvOf(r)'
            BY <2>1, <3>1, <3>4, <3>5 DEF SemInv, FileInv, FileInvOf, InOrder
        <3> QED BY <3>1, <3>2, <3>4, <3>5, CommandMoves
    <2> QED BY <2>2, <2>3
<1> QED BY <1>3, <1>4, <1>5

\* The worker thread closes the file, and keeps or removes it.
LEMMA ReturnKeeps ==
    ASSUME TypeInv, SemInv, NEW r \in Requests, Return(r)
    PROVE  SemInv'
<1>1. cmd \in [Requests -> CommandState] /\ dest \in [Requests -> FileState]
    BY DEF TypeInv
<1>2. registered' = registered /\ handler' = handler /\ cmd[r].pc = "returned"
    BY DEF Return
<1>3. \A q \in Requests : q # r => cmd'[q] = cmd[q] /\ dest'[q] = dest[q]
    BY <1>1 DEF Return
<1>4. \/ /\ cmd' = [cmd EXCEPT ![r].pc = "done"]
         /\ r \in Fetches => dest' = [dest EXCEPT ![r] = FetchedFile(r)]
      \/ /\ cmd' = [cmd EXCEPT ![r].pc = "refused", ![r].ok = FALSE]
         /\ \E file \in RefusedFiles(r) : dest' = [dest EXCEPT ![r] = file]
    BY DEF Return
<1>5. \/ /\ cmd'[r] = [cmd[r] EXCEPT !.pc = "done"]
         /\ r \in Fetches => dest'[r] = FetchedFile(r)
      \/ /\ cmd'[r] = [cmd[r] EXCEPT !.pc = "refused", !.ok = FALSE]
         /\ dest'[r].file # "open"
    <2>1. \A file \in RefusedFiles(r) : file.file # "open"
        BY <1>1 DEF RefusedFiles, FileState
    <2> QED BY <1>1, <1>4, <2>1
<1>6. /\ cmd'[r].conn = cmd[r].conn /\ cmd'[r].next = cmd[r].next
      /\ cmd'[r].future = cmd[r].future /\ cmd'[r].result = cmd[r].result
      /\ \/ /\ cmd'[r].pc = "done" /\ cmd'[r].ok = cmd[r].ok
            /\ r \in Fetches => dest'[r] = FetchedFile(r)
         \/ cmd'[r].pc = "refused" /\ ~cmd'[r].ok /\ dest'[r].file # "open"
    BY <1>1, <1>5 DEF CommandState
<1>7. ASSUME r \in Fetches PROVE FileInvOf(r)'
    <2>1. FileInvOf(r) /\ cmd[r].next \in 0..Limit /\ Limit \in Nat
        BY <1>1, <1>7, CountsAssumption DEF SemInv, FileInv, CommandState
    <2>2. CASE cmd'[r].pc = "refused" /\ ~cmd'[r].ok /\ dest'[r].file # "open"
        BY <2>1, <2>2, <1>6 DEF FileInvOf, InOrder
    <2>3. CASE cmd'[r].pc = "done" /\ cmd'[r].ok = cmd[r].ok /\ dest'[r] = FetchedFile(r)
        <3>1. CASE ~cmd[r].ok
            BY <2>1, <2>3, <3>1, <1>6 DEF FileInvOf, FetchedFile
        <3>2. CASE cmd[r].ok /\ ~cmd[r].result.streamed
            BY <2>1, <2>3, <3>2, <1>6 DEF FileInvOf, FetchedFile
        <3>3. CASE cmd[r].ok /\ cmd[r].result.streamed
            <4>1. dest'[r] = [dest[r] EXCEPT !.file = "closed"]
                BY <2>3, <3>3 DEF FetchedFile
            <4>2. dest'[r].file = "closed" /\ dest'[r].content = dest[r].content
                BY <1>1, <4>1 DEF FileState
            <4>3. cmd[r].result.chunks = cmd[r].next /\ cmd[r].result.chunks <= Limit
                BY <2>1, <3>3 DEF FileInvOf
            <4> QED BY <2>1, <2>3, <3>3, <4>2, <4>3, <1>2, <1>6 DEF FileInvOf, InOrder
        <3> QED BY <3>1, <3>2, <3>3
    <2> QED BY <2>2, <2>3, <1>6, <1>7
<1> QED BY <1>2, <1>3, <1>6, <1>7, CommandMoves

(***************************************************************************)
(* The invariant, and the properties that follow from it.                  *)
(***************************************************************************)

LEMMA InitInv == Init => IInv
<1> SUFFICES ASSUME Init PROVE IInv
    OBVIOUS
<1>1. TypeOK
    BY InitTyped, TypeInvIsTypeOK
<1>2. ReplacedInv /\ WaitInv /\ WriteInv
    BY DEF Init, ReplacedInv, WaitInv, WriteInv
<1>3. FileInv
    BY FetchesAssumption DEF Init, FileInv, FileInvOf
<1> QED BY <1>1, <1>2, <1>3 DEF IInv

LEMMA NextInv == IInv /\ [Next]_vars => IInv'
<1> SUFFICES ASSUME IInv, [Next]_vars PROVE IInv'
    OBVIOUS
<1>1. TypeInv /\ SemInv
    BY TypeInvIsTypeOK DEF IInv, SemInv
<1>2. TypeOK'
    BY TypeStep
<1>3. TypeInv'
    BY <1>2, TypeInvIsTypeOK, PTL
<1>4. SemInv'
    <2>1. CASE UNCHANGED vars
        BY <1>1, <2>1, QuietStep DEF vars
    <2>2. ASSUME NEW c \in Conns, HandlerStep(c) PROVE SemInv'
        BY <1>1, <1>3, <2>2, ConnectKeeps, CloseReplacedKeeps, EndOfStreamKeeps,
           ReceiveResponseKeeps, ReceiveChunkKeeps, WriteDoneKeeps, WriteFailsKeeps
           DEF HandlerStep
    <2>3. ASSUME NEW c \in Conns, Drop(c) \/ AgentStep(c) PROVE SemInv'
        <3>1. registered' = registered /\ handler' = handler /\ cmd' = cmd /\ dest' = dest
            BY <2>3 DEF Drop, AgentStep, AgentRead, AgentStart, AgentChunk, AgentAnswer,
                        AgentFault
        <3> QED BY <1>1, <3>1, QuietStep
    <2>4. ASSUME NEW r \in Requests, CommandStep(r) PROVE SemInv'
        BY <1>1, <2>4, SendCommandKeeps, SendDoneKeeps, WaitEndsKeeps, ReturnKeeps
           DEF CommandStep
    <2> QED BY <2>1, <2>2, <2>3, <2>4 DEF Next
<1> QED BY <1>2, <1>4 DEF IInv, SemInv

\* The inductive invariant holds in every reachable state of the handlers in
\* api/agent_ws.py, the registry and the commands, whatever the agent sends.
THEOREM SpecIInv == Spec => []IInv
BY InitInv, NextInv, PTL DEF Spec

\* Type correctness; in particular the count of received chunks stays within
\* max_fetch_bytes, for any number of connections, commands and faulty messages.
THEOREM SpecTypeOK == Spec => []TypeOK
<1>1. IInv => TypeOK
    BY DEF IInv
<1> QED BY SpecIInv, <1>1, PTL

\* register, unregister and _fail_pending leave no command waiting on a connection that
\* is not the registered one, in any order of connections, drops and commands.
THEOREM SpecWaits == Spec => []WaitsOnlyOnTheRegistered
<1>1. IInv => WaitsOnlyOnTheRegistered
    BY DEF IInv, WaitInv, WaitsOnlyOnTheRegistered
<1> QED BY SpecIInv, <1>1, PTL

\* fetch_file ends with the whole file, every chunk once and in order, or with no file,
\* unless it refuses an old agent's answer: whatever a faulty agent sends and whenever a
\* timeout or a late write falls.
THEOREM SpecWholeFileOrNone == Spec => []WholeFileOrNone
<1>1. IInv => WholeFileOrNone
    BY DEF IInv, FileInv, FileInvOf, InOrder, WholeFileOrNone
<1> QED BY SpecIInv, <1>1, PTL

\* agent_connect's finally clause takes no other handler's registration away.
THEOREM SpecOnlyOwnUnregistered == Spec => OnlyOwnUnregistered
<1> DEFINE Own == (registered' = NoConn /\ registered # NoConn) =>
                    handler[registered].pc = "serving" /\ handler'[registered].pc = "ended"
<1>1. IInv /\ [Next]_vars => Own
    <2> SUFFICES ASSUME IInv, [Next]_vars, registered' = NoConn, registered # NoConn
                 PROVE  handler[registered].pc = "serving" /\ handler'[registered].pc = "ended"
        OBVIOUS
    <2>1. PICK c \in Conns : HandlerStep(c)
        <3>1. \A c \in Conns : Drop(c) \/ AgentStep(c) => registered' = registered
            BY DEF Drop, AgentStep, AgentRead, AgentStart, AgentChunk, AgentAnswer, AgentFault
        <3>2. \A r \in Requests : CommandStep(r) => registered' = registered
            BY DEF CommandStep, SendCommand, SendDone, SendFails, WaitDone, Timeout, Return,
                   GivenUp
        <3> QED BY <3>1, <3>2 DEF Next, vars
    <2>2. EndOfStream(c) /\ registered = c
        BY <2>1, ConnsAssumption DEF HandlerStep, Connect, CloseReplaced, EndOfStream, Unregister,
           ReceiveResponse, ReceiveChunk, WriteDone, WriteFails
    <2>3. TypeInv
        BY TypeInvIsTypeOK DEF IInv
    <2>4. handler \in [Conns -> HandlerState]
        BY <2>3 DEF TypeInv
    <2>5. handler[c] \in [pc: {"new", "closing_old", "serving", "crashed", "ended"},
                          old: Conns \cup {NoConn}]
        BY <2>2, <2>3, HandlerFacts DEF EndOfStream
    <2> QED BY <2>2, <2>4, <2>5 DEF EndOfStream
<1> QED BY SpecIInv, <1>1, PTL DEF Spec, OnlyOwnUnregistered

(***************************************************************************)
(* fetch_file keeps its promise.                                           *)
(***************************************************************************)

LEMMA InitPromised == Init => Promise!FetchInit
BY FetchesAssumption DEF Init, CallOf, Promise!FetchInit, Promise!NoFile

\* A step that leaves every fetch where it was, as its caller sees it.
LEMMA PromiseStutter ==
    ASSUME \A r \in Fetches : CallOf(r)' = CallOf(r) /\ dest'[r] = dest[r]
    PROVE  UNCHANGED Promise!fetchVars
BY DEF Promise!fetchVars

\* A caller sees the stage of its command and its outcome only.
LEMMA SameCall ==
    ASSUME NEW r, cmd'[r].pc = cmd[r].pc, cmd'[r].ok = cmd[r].ok
    PROVE  CallOf(r)' = CallOf(r)
BY DEF CallOf

\* The steps of a handler: a chunk that is written fills the file, any other is not seen.
LEMMA HandlerPromised ==
    ASSUME TypeInv, SemInv, NEW c \in Conns, HandlerStep(c)
    PROVE  Promise!FetchNext \/ UNCHANGED Promise!fetchVars
<1>1. /\ cmd \in [Requests -> CommandState] /\ dest \in [Requests -> FileState]
      /\ TypeOK /\ Fetches \subseteq Requests
    BY TypeInvIsTypeOK, FetchesAssumption DEF TypeInv
<1>2. ASSUME dest' = dest, \A r \in Requests : cmd'[r].pc = cmd[r].pc /\ cmd'[r].ok = cmd[r].ok
      PROVE  UNCHANGED Promise!fetchVars
    BY <1>1, <1>2, SameCall, PromiseStutter
<1>3. ASSUME NEW r \in Requests, NEW f \in Futures, cmd' = [cmd EXCEPT ![r].future = f]
      PROVE  \A q \in Requests : cmd'[q].pc = cmd[q].pc /\ cmd'[q].ok = cmd[q].ok
    BY <1>1, <1>3 DEF CommandState
<1>4. "agent_error" \in Futures /\ "write_error" \in Futures
    BY DEF Futures
<1>5. ASSUME NEW d \in Conns \cup {NoConn}, cmd' = FailPending(d)
      PROVE  \A q \in Requests : cmd'[q].pc = cmd[q].pc /\ cmd'[q].ok = cmd[q].ok
    <2>1. ASSUME NEW q \in Requests
          PROVE  [cmd[q] EXCEPT !.future = "not_connected"].pc = cmd[q].pc
                    /\ [cmd[q] EXCEPT !.future = "not_connected"].ok = cmd[q].ok
        BY <1>1 DEF CommandState
    <2> QED BY <1>1, <1>5, <2>1, FailPendingFacts
<1>6. CASE Connect(c)
    <2>1. registered \in Conns \cup {NoConn} /\ cmd' = FailPending(registered) /\ dest' = dest
        BY <1>6 DEF Connect, TypeInv
    <2> QED BY <2>1, <1>2, <1>5
<1>7. CASE CloseReplaced(c)
    BY <1>7, <1>2 DEF CloseReplaced
<1>8. CASE EndOfStream(c)
    <2>1. dest' = dest /\ (cmd' = cmd \/ cmd' = FailPending(c))
        BY <1>8 DEF EndOfStream, Unregister
    <2> QED BY <2>1, <1>2, <1>5
<1>9. CASE ReceiveResponse(c)
    <2> DEFINE m == Head(net[c].up)
    <2>1. dest' = dest /\ (cmd' = cmd \/ cmd' = [cmd EXCEPT ![m.id] = Resolved(m)])
        BY <1>9 DEF ReceiveResponse
    <2>2. m \in Message /\ m.id \in Requests
        <3>1. m \in Message
            BY <1>1, <1>9, ReadUpTyped DEF ReceiveResponse
        <3> QED BY <3>1, <1>1 DEF Message
    <2>3. Resolved(m).pc = cmd[m.id].pc /\ Resolved(m).ok = cmd[m.id].ok
        BY <1>1, <2>2, ResolvedFacts
    <2> HIDE DEF m
    <2>4. \A q \in Requests : cmd'[q].pc = cmd[q].pc /\ cmd'[q].ok = cmd[q].ok
        BY <1>1, <2>1, <2>2, <2>3
    <2> QED BY <2>1, <2>4, <1>2
<1>10. CASE ReceiveChunk(c)
    <2> DEFINE m == Head(net[c].up)
    <2>1. dest' = dest /\ (cmd' = cmd \/ cmd' = [cmd EXCEPT ![m.id].future = "agent_error"])
        BY <1>10 DEF ReceiveChunk
    <2>2. m \in Message /\ m.id \in Requests
        <3>1. m \in Message
            BY <1>1, <1>10, ReadUpTyped DEF ReceiveChunk
        <3> QED BY <3>1, <1>1 DEF Message
    <2> HIDE DEF m
    <2> QED BY <2>1, <2>2, <1>2, <1>3, <1>4
<1>11. CASE WriteFails(c)
    <2> DEFINE r == handler[c].req
    <2>1. r \in Requests
        BY <1>1, <1>11, HandlerFacts DEF WriteFails
    <2>2. dest' = dest /\ (cmd' = cmd \/ cmd' = [cmd EXCEPT ![r].future = "write_error"])
        BY <1>11 DEF WriteFails, WriteError
    <2> HIDE DEF r
    <2> QED BY <2>1, <2>2, <1>2, <1>3, <1>4
<1>12. CASE WriteDone(c)
    <2>1. PICK r \in Fetches : r = handler[c].req /\ r \in Requests
        BY <1>1, <1>12, HandlerFacts DEF WriteDone
    <2>2. /\ dest' = [dest EXCEPT ![r].content = Append(@, handler[c].seq)]
          /\ cmd' = [cmd EXCEPT ![r].next = @ + 1] /\ dest[r].file = "open"
          /\ handler[c].seq = cmd[r].next
        BY <2>1, <1>12 DEF WriteDone, SemInv, WriteInv
    <2>3. /\ cmd[r].pc \in {"sending", "waiting", "returned"}
          /\ Len(dest[r].content) = cmd[r].next
        <3>1. FileInvOf(r)
            BY DEF SemInv, FileInv
        <3>2. cmd[r].pc \in {"idle", "sending", "waiting", "returned", "done", "refused"}
            BY <1>1, <2>1 DEF CommandState
        <3> QED BY <3>1, <3>2, <2>1, <2>2 DEF FileInvOf
    <2>4. \A q \in Requests : cmd'[q].pc = cmd[q].pc /\ cmd'[q].ok = cmd[q].ok
        BY <1>1, <2>1, <2>2 DEF CommandState
    <2>5. \A q \in Fetches : CallOf(q)' = CallOf(q)
        BY <1>1, <2>4, SameCall
    <2>6. \A q \in Fetches : dest'[q] =
            IF q = r THEN [dest[r] EXCEPT !.content = Append(@, Len(@))] ELSE dest[q]
        BY <1>1, <2>1, <2>2, <2>3 DEF FileState
    <2>7. CallOf(r) = "running"
        BY <2>3 DEF CallOf
    <2>8. Promise!Fill(r)
        BY <2>1, <2>2, <2>5, <2>6, <2>7 DEF Promise!Fill
    <2> QED BY <2>1, <2>8 DEF Promise!FetchNext
<1> QED BY <1>6, <1>7, <1>8, <1>9, <1>10, <1>11, <1>12 DEF HandlerStep

\* The steps of a command: it starts, goes on unseen, and returns or raises.
LEMMA CommandPromised ==
    ASSUME TypeInv, SemInv, NEW r \in Requests, CommandStep(r)
    PROVE  Promise!FetchNext \/ UNCHANGED Promise!fetchVars
<1>1. /\ cmd \in [Requests -> CommandState] /\ dest \in [Requests -> FileState]
      /\ Fetches \subseteq Requests
    BY FetchesAssumption DEF TypeInv
<1>2. \A q \in Requests : q # r => cmd'[q] = cmd[q] /\ dest'[q] = dest[q]
    BY <1>1 DEF CommandStep, SendCommand, SendDone, SendFails, WaitDone, Timeout, Return, GivenUp
<1>3. \A q \in Fetches : q # r => CallOf(q)' = CallOf(q) /\ dest'[q] = dest[q]
    BY <1>1, <1>2, SameCall
<1>4. CASE r \notin Fetches
    BY <1>3, <1>4, PromiseStutter
<1>5. CASE r \in Fetches /\ SendCommand(r)
    <2>1. CallOf(r) = "idle"
        BY <1>5 DEF SendCommand, CallOf
    <2>2. cmd'[r].pc \in {"returned", "sending"}
        <3>1. \/ cmd'[r] = [cmd[r] EXCEPT !.pc = "returned"]
              \/ cmd'[r] = [cmd[r] EXCEPT !.pc = "sending", !.conn = registered,
                                         !.future = "pending"]
            BY <1>1, <1>5 DEF SendCommand
        <3> QED BY <3>1, <1>1 DEF CommandState
    <2>3. CallOf(r)' = "running"
        BY <2>2 DEF CallOf
    <2>4. dest'[r] = [dest[r] EXCEPT !.file = "open"]
        BY <1>1, <1>5 DEF SendCommand
    <2>5. Promise!Start(r)
        BY <1>3, <1>5, <2>1, <2>3, <2>4 DEF Promise!Start
    <2> QED BY <1>5, <2>5 DEF Promise!FetchNext
<1>6. CASE r \in Fetches /\ (SendDone(r) \/ SendFails(r) \/ WaitDone(r) \/ Timeout(r))
    <2>1. cmd[r].pc \in {"sending", "waiting"} /\ dest' = dest
        BY <1>6 DEF SendDone, SendFails, WaitDone, Timeout, GivenUp
    <2>2. cmd'[r].pc \in {"waiting", "returned"}
        <3>1. ASSUME NEW f, GivenUp(r, f) PROVE cmd'[r].pc = "returned"
            <4>1. cmd'[r] = [cmd[r] EXCEPT !.pc = "returned", !.future = f]
                BY <1>1, <3>1 DEF GivenUp
            <4> QED BY <4>1, <1>1 DEF CommandState
        <3>2. SendDone(r) => cmd'[r].pc = "waiting"
            BY <1>1 DEF SendDone, CommandState
        <3>3. cmd' = [cmd EXCEPT ![r].pc = "returned", ![r].ok = TRUE]
                => cmd'[r].pc = "returned"
            BY <1>1 DEF CommandState
        <3> QED BY <1>6, <3>1, <3>2, <3>3 DEF SendFails, WaitDone, Timeout
    <2>3. CallOf(r)' = CallOf(r)
        BY <2>1, <2>2 DEF CallOf
    <2> QED BY <1>3, <2>1, <2>3, PromiseStutter
<1>7. CASE r \in Fetches /\ Return(r)
    <2>1. CallOf(r) = "running"
        BY <1>7 DEF Return, CallOf
    <2>2. \/ /\ cmd'[r].pc = "done" /\ cmd'[r].ok = cmd[r].ok
             /\ dest'[r] = FetchedFile(r)
          \/ /\ cmd'[r].pc = "refused"
             /\ \/ dest'[r] = [file |-> "absent", content |-> <<>>]
                \/ dest'[r] = [dest[r] EXCEPT !.file = "closed"]
                \/ dest'[r] = [file |-> "partial", content |-> <<>>]
        BY <1>1, <1>7 DEF Return, RefusedFiles, CommandState
    <2>3. CASE /\ cmd'[r].pc = "done" /\ ~cmd'[r].ok
               /\ dest'[r] = [file |-> "absent", content |-> <<>>]
        <3>1. CallOf(r)' = "raised"
            BY <2>3 DEF CallOf
        <3>2. Promise!Raise(r)
            BY <1>3, <1>7, <2>1, <2>3, <3>1 DEF Promise!Raise, Promise!NoFile
        <3> QED BY <1>7, <3>2 DEF Promise!FetchNext
    <2>4. CASE cmd'[r].pc = "done" /\ cmd[r].ok /\ cmd'[r].ok /\ dest'[r] = FetchedFile(r)
        <3>1. CallOf(r)' = "returned"
            BY <2>4 DEF CallOf
        <3>2. \/ dest'[r] = [dest[r] EXCEPT !.file = "closed"]
              \/ dest'[r] = [file |-> "whole", content |-> <<>>]
            BY <2>4 DEF FetchedFile
        <3>3. Promise!Succeed(r)
            BY <1>3, <1>7, <2>1, <3>1, <3>2 DEF Promise!Succeed
        <3> QED BY <1>7, <3>3 DEF Promise!FetchNext
    <2>5. ~cmd[r].ok /\ dest'[r] = FetchedFile(r)
            => dest'[r] = [file |-> "absent", content |-> <<>>]
        BY DEF FetchedFile
    <2>6. CASE /\ cmd'[r].pc = "refused"
               /\ \/ dest'[r] = [file |-> "absent", content |-> <<>>]
                  \/ dest'[r] = [dest[r] EXCEPT !.file = "closed"]
                  \/ dest'[r] = [file |-> "partial", content |-> <<>>]
        <3>1. CallOf(r)' = "refused"
            BY <2>6 DEF CallOf
        <3>2. Promise!Refuse(r)
            BY <1>1, <1>3, <1>7, <2>1, <2>6, <3>1 DEF Promise!Refuse, Promise!NoFile
        <3> QED BY <1>7, <3>2 DEF Promise!FetchNext
    <2> QED BY <2>2, <2>3, <2>4, <2>5, <2>6
<1> QED BY <1>4, <1>5, <1>6, <1>7 DEF CommandStep

\* The registry and the connections implement fetch_file's promise: every step of theirs
\* is a step of module Fetching or is not seen by the caller.
THEOREM SpecKeepsPromise == Spec => KeepsPromise
<1>1. IInv /\ [Next]_vars => [Promise!FetchNext]_Promise!fetchVars
    <2> SUFFICES ASSUME IInv, [Next]_vars
                 PROVE  Promise!FetchNext \/ UNCHANGED Promise!fetchVars
        OBVIOUS
    <2>1. TypeInv /\ SemInv
        BY TypeInvIsTypeOK DEF IInv, SemInv
    <2>2. ASSUME NEW c \in Conns, Drop(c) \/ AgentStep(c)
          PROVE  UNCHANGED Promise!fetchVars
        <3>1. cmd' = cmd /\ dest' = dest
            BY <2>2 DEF Drop, AgentStep, AgentRead, AgentStart, AgentChunk, AgentAnswer,
                        AgentFault
        <3> QED BY <3>1, SameCall, PromiseStutter
    <2>3. CASE UNCHANGED vars
        BY <2>3, SameCall, PromiseStutter DEF vars
    <2> QED BY <2>1, <2>2, <2>3, HandlerPromised, CommandPromised DEF Next
<1> QED BY InitPromised, SpecIInv, <1>1, PTL DEF Spec, KeepsPromise, Promise!FetchSpec
=============================================================================

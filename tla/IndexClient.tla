----------------------------- MODULE IndexClient -----------------------------
(***************************************************************************)
(* The stdio client of the Index server (kcd2_index_adapter/client.py).    *)
(* Threads share one client; one of them, the owner, starts and closes it. *)
(* A request takes the request lock, a fresh id, writes its line and waits *)
(* for the next line that the reader thread has put into the stdout queue. *)
(* Waiting times out, the server answers late, says more than it was asked *)
(* or exits, and a client may be closed and started again: every start has *)
(* a server and a reader of its own, but the queue stays.                  *)
(***************************************************************************)
EXTENDS Naturals, Sequences

CONSTANTS
  Callers,   \* threads that use the client
  Owner,     \* the thread that starts and closes it
  None,      \* no thread, no result
  Capacity,  \* size of the stdout queue
  PipeSize,  \* lines that the server's stdout pipe holds
  StdinSize, \* requests that the server's stdin pipe holds
  MaxStarts, \* bound on starts of the client
  MaxCalls,  \* bound on tool calls
  MaxNoise   \* bound on lines that the server sends unasked

ASSUME ConstantsOK ==
  /\ Owner \in Callers
  /\ None \notin Callers
  /\ Capacity \in Nat \ {0} /\ PipeSize \in Nat \ {0} /\ StdinSize \in Nat \ {0}
  /\ MaxStarts \in Nat /\ MaxCalls \in Nat /\ MaxNoise \in Nat

VARIABLES
  gen,        \* how often the client was started
  handle,     \* whether the client holds a process (self._process)
  ready,      \* self._ready
  lock,       \* holder of self._request_lock
  nextId,     \* self._next_id
  queue,      \* self._stdout_queue
  pc,         \* pc[c]: next step of thread c
  req,        \* req[c]: the request c is making
  alive,      \* whether the server of the last start runs
  stdin,      \* its stdin pipe
  pipe,       \* pipe[g]: stdout pipe of the server of start g
  reader,     \* reader[g]: state of the reader thread of start g
  calls,      \* how many tool calls were made
  noise,      \* how many lines were sent unasked
  got         \* history: the last result handed to a caller, and what it asked

client == <<gen, handle, ready, lock, nextId>>
server == <<alive, stdin, noise>>
vars == <<client, queue, pc, req, server, pipe, reader, calls, got>>

Starts == 1..MaxStarts
Methods == {"initialize", "tools/list", "tools/call"}

\* The ids that requests are given; 0 while a request waits for the lock.
Ids == Nat

Requests == [method : Methods, id : Ids, gen : Starts]

\* A line of stdout: an answer with the id of its request, one without, or one
\* that is too long for the reader.
Answers == [kind : {"answer"}, id : Ids, gen : Starts]
Notice == [kind |-> "notice"]
Overlong == [kind |-> "overlong"]
EOF == [kind |-> "eof"]
Lines == Answers \cup {Notice, Overlong}

Init ==
  /\ gen = 0 /\ handle = FALSE /\ ready = FALSE /\ lock = None /\ nextId = 1
  /\ queue = <<>>
  /\ pc = [c \in Callers |-> "idle"]
  /\ req = [c \in Callers |-> None]
  /\ alive = FALSE /\ stdin = <<>> /\ noise = 0
  /\ pipe = [g \in Starts |-> <<>>]
  /\ reader = [g \in Starts |-> "none"]
  /\ calls = 0
  /\ got = None

Goto(c, step) == pc' = [pc EXCEPT ![c] = step]

\* A request is over: the lock is free, and a start that failed closes the client.
Raise(c) ==
  /\ lock' = None
  /\ Goto(c, IF req[c].method = "tools/call" THEN "idle" ELSE "close")
  /\ UNCHANGED <<gen, handle, ready, nextId, req, got>>

-----------------------------------------------------------------------------
(***************************************************************************)
(* The client.                                                             *)
(***************************************************************************)

\* Mutant: every start counts its requests from 1.
StartFromOne(c) ==
  /\ c = Owner /\ pc[c] = "idle" /\ ~handle /\ gen < MaxStarts
  /\ gen' = gen + 1 /\ handle' = TRUE /\ alive' = TRUE
  /\ stdin' = <<>>
  /\ reader' = [reader EXCEPT ![gen + 1] = "reading"]
  /\ req' = [req EXCEPT ![c] = [method |-> "initialize", id |-> 0, gen |-> gen + 1]]
  /\ nextId' = 1
  /\ Goto(c, "acquire")
  /\ UNCHANGED <<ready, lock, queue, noise, pipe, calls, got>>

\* start: a new server and a new reader on the same queue.
Start(c) ==
  /\ c = Owner /\ pc[c] = "idle" /\ ~handle /\ gen < MaxStarts
  /\ gen' = gen + 1 /\ handle' = TRUE /\ alive' = TRUE
  /\ stdin' = <<>>
  /\ reader' = [reader EXCEPT ![gen + 1] = "reading"]
  /\ req' = [req EXCEPT ![c] = [method |-> "initialize", id |-> 0, gen |-> gen + 1]]
  /\ Goto(c, "acquire")
  /\ UNCHANGED <<ready, lock, nextId, queue, noise, pipe, calls, got>>

\* close: called by the owner, or by a start that failed.
Close(c) ==
  /\ \/ pc[c] = "close"
     \/ c = Owner /\ pc[c] = "idle" /\ handle
  /\ handle' = FALSE /\ ready' = FALSE /\ alive' = FALSE
  /\ Goto(c, "idle")
  /\ UNCHANGED <<gen, lock, nextId, queue, req, stdin, noise, pipe, reader, calls, got>>

\* call_tool looks at ready before it asks for the lock.
CallTool(c) ==
  /\ pc[c] = "idle" /\ ready /\ calls < MaxCalls
  /\ calls' = calls + 1
  /\ req' = [req EXCEPT ![c] = [method |-> "tools/call", id |-> 0, gen |-> gen]]
  /\ Goto(c, "acquire")
  /\ UNCHANGED <<client, queue, server, pipe, reader, got>>

\* Mutant: requests are not kept apart by the lock.
AcquireShared(c) ==
  /\ pc[c] = "acquire"
  /\ lock' = c
  /\ req' = [req EXCEPT ![c].id = nextId]
  /\ nextId' = nextId + 1
  /\ Goto(c, "write")
  /\ UNCHANGED <<gen, handle, ready, queue, server, pipe, reader, calls, got>>

\* _request takes the lock and an id.
Acquire(c) ==
  /\ pc[c] = "acquire"
  /\ lock = None
  /\ lock' = c
  /\ req' = [req EXCEPT ![c].id = nextId]
  /\ nextId' = nextId + 1
  /\ Goto(c, "write")
  /\ UNCHANGED <<gen, handle, ready, queue, server, pipe, reader, calls, got>>

\* _write_message writes to the process of now, and blocks while its stdin is full.
Write(c) ==
  /\ pc[c] = "write"
  /\ handle /\ alive
  /\ Len(stdin) < StdinSize
  /\ req' = [req EXCEPT ![c].gen = gen]
  /\ stdin' = Append(stdin, req'[c])
  /\ Goto(c, "wait")
  /\ UNCHANGED <<client, queue, alive, noise, pipe, reader, calls, got>>

WriteFails(c) ==
  /\ pc[c] = "write"
  /\ ~(handle /\ alive)
  /\ Raise(c)
  /\ UNCHANGED <<queue, server, pipe, reader, calls>>

\* A result for a caller.  A start goes on from initialize to tools/list and is
\* then ready, unless the answer is not what the contract expects.
Deliver(c, line) ==
  /\ lock' = None
  /\ got' = [asked |-> [id |-> req[c].id, gen |-> req[c].gen],
             given |-> [id |-> line.id, gen |-> line.gen]]
  /\ \/ /\ req[c].method = "tools/call"
        /\ Goto(c, "idle")
        /\ UNCHANGED <<ready, req>>
     \/ /\ req[c].method = "initialize"
        /\ req' = [req EXCEPT ![c].method = "tools/list"]
        /\ Goto(c, IF handle /\ alive THEN "acquire" ELSE "close")
        /\ UNCHANGED ready
     \/ /\ req[c].method = "tools/list"
        /\ ready' = TRUE
        /\ Goto(c, "idle")
        /\ UNCHANGED req
     \/ /\ req[c].method # "tools/call"
        /\ Goto(c, "close")
        /\ UNCHANGED <<ready, req>>
  /\ UNCHANGED <<gen, handle, nextId>>

\* The first line decides: the answer, or an error; nothing is skipped.
Take(c) ==
  /\ pc[c] = "wait"
  /\ queue # <<>>
  /\ queue' = Tail(queue)
  /\ IF Head(queue).kind = "answer" /\ Head(queue).id = req[c].id
     THEN Deliver(c, Head(queue))
     ELSE Raise(c)
  /\ UNCHANGED <<server, pipe, reader, calls>>

\* Mutant: a wait that times out begins again with a new deadline.
TimeOutAgain(c) == pc[c] = "wait" /\ UNCHANGED vars

\* The deadline passes.
TimeOut(c) ==
  /\ pc[c] = "wait"
  /\ Raise(c)
  /\ UNCHANGED <<queue, server, pipe, reader, calls>>

\* A reader thread moves a line to the queue, and waits while that is full.  It
\* ends with the stream, with an overlong line, or when the stream is closed
\* under it.
Read(g) ==
  /\ reader[g] = "reading"
  /\ Len(queue) < Capacity
  /\ \/ /\ pipe[g] # <<>>
        /\ queue' = Append(queue, Head(pipe[g]))
        /\ pipe' = [pipe EXCEPT ![g] = Tail(@)]
        /\ reader' = [reader EXCEPT ![g] = IF Head(pipe[g]) = Overlong THEN "ended" ELSE @]
     \/ /\ IF g = gen /\ handle THEN ~alive /\ pipe[g] = <<>> ELSE TRUE
        /\ queue' = Append(queue, EOF)
        /\ pipe' = [pipe EXCEPT ![g] = <<>>]
        /\ reader' = [reader EXCEPT ![g] = "ended"]
  /\ UNCHANGED <<client, pc, req, server, calls, got>>

-----------------------------------------------------------------------------
(***************************************************************************)
(* The server.                                                             *)
(***************************************************************************)

Answer ==
  /\ alive /\ stdin # <<>>
  /\ Len(pipe[gen]) < PipeSize
  /\ \E line \in {[kind |-> "answer", id |-> Head(stdin).id, gen |-> Head(stdin).gen], Overlong} :
       pipe' = [pipe EXCEPT ![gen] = Append(@, line)]
  /\ stdin' = Tail(stdin)
  /\ UNCHANGED <<client, queue, pc, req, alive, noise, reader, calls, got>>

Notify ==
  /\ alive /\ noise < MaxNoise
  /\ Len(pipe[gen]) < PipeSize
  /\ pipe' = [pipe EXCEPT ![gen] = Append(@, Notice)]
  /\ noise' = noise + 1
  /\ UNCHANGED <<client, queue, pc, req, alive, stdin, reader, calls, got>>

Exit ==
  /\ alive
  /\ alive' = FALSE
  /\ UNCHANGED <<client, queue, pc, req, stdin, noise, pipe, reader, calls, got>>

Server == Answer \/ Notify \/ Exit

Caller(c) ==
  \/ Start(c) \/ Close(c) \/ CallTool(c) \/ Acquire(c) \/ Write(c) \/ WriteFails(c)
  \/ Take(c) \/ TimeOut(c)

Next == Server \/ (\E c \in Callers : Caller(c)) \/ (\E g \in Starts : Read(g))

Spec == Init /\ [][Next]_vars

\* A thread that can go on does, a deadline passes, and a lock that stays free is
\* taken by a thread that waits for it.  The server promises nothing.
Fairness ==
  \A c \in Callers :
    /\ WF_vars(Write(c) \/ WriteFails(c) \/ Take(c) \/ TimeOut(c))
    /\ WF_vars(pc[c] = "close" /\ Close(c))
    /\ WF_vars(Acquire(c))

FairSpec == Spec /\ Fairness

-----------------------------------------------------------------------------
(***************************************************************************)
(* Correctness.                                                            *)
(***************************************************************************)

\* Type invariant; the lock is held exactly by the thread that is in a request.
TypeOK ==
  /\ gen \in 0..MaxStarts /\ handle \in BOOLEAN /\ ready \in BOOLEAN
  /\ lock \in Callers \cup {None} /\ nextId \in Ids
  /\ queue \in Seq(Lines \cup {EOF}) /\ Len(queue) <= Capacity
  /\ pc \in [Callers -> {"idle", "acquire", "write", "wait", "close"}]
  /\ req \in [Callers -> Requests \cup {None}]
  /\ alive \in BOOLEAN /\ stdin \in Seq(Requests) /\ Len(stdin) <= StdinSize
  /\ pipe \in [Starts -> Seq(Lines)] /\ \A g \in Starts : Len(pipe[g]) <= PipeSize
  /\ reader \in [Starts -> {"none", "reading", "ended"}]
  /\ \A c \in Callers : pc[c] \in {"write", "wait"} <=> lock = c

\* A result is the answer that the server of this start gave to this request,
\* never a late answer to another one or a line of an earlier server.
\* (_request, the ids that start does not reset)
OwnAnswer == got # None => got.given = got.asked

\* What makes it so.  A thread that is not idle has a request, and what runs was
\* started.
InUse ==
  /\ \A c \in Callers : pc[c] # "idle" => req[c] \in Requests
  /\ \A c \in Callers : lock = c => req[c].id < nextId
  /\ handle \/ alive \/ ready \/ (\E c \in Callers : pc[c] # "idle") => gen \in Starts

\* A request or an answer under way has an id handed out before: not that of a
\* request about to be written, and of the same start as a request waited for.
Known(x) ==
  /\ x.id < nextId
  /\ \A c \in Callers :
       lock = c /\ req[c].id = x.id => pc[c] = "wait" /\ req[c].gen = x.gen

AllKnown ==
  /\ \A i \in 1..Len(stdin) : Known(stdin[i])
  /\ \A g \in Starts : \A i \in 1..Len(pipe[g]) : pipe[g][i].kind = "answer" => Known(pipe[g][i])
  /\ \A i \in 1..Len(queue) : queue[i].kind = "answer" => Known(queue[i])

OwnAnswerInv == TypeOK /\ InUse /\ AllKnown /\ OwnAnswer

\* A server that has stopped reading blocks a write, which has no deadline.
WriteBlocked ==
  \E c \in Callers : pc[c] = "write" /\ handle /\ alive /\ Len(stdin) = StdinSize

\* Every tool call and every start ends, with a result or an error, however the
\* server behaves, or else a write stays blocked for ever.
\* (_request: the deadline of the wait and the release of the lock)
CallsReturn ==
  \/ <>[]WriteBlocked
  \/ \A c \in Callers : pc[c] # "idle" ~> pc[c] = "idle"
=============================================================================

-------------------------- MODULE IndexClientProofs --------------------------
(***************************************************************************)
(* Proofs about IndexClient, for every number of threads, starts, calls    *)
(* and unasked lines, and for queues and pipes of any size; and about what *)
(* comes cut through it: ResponsePages and ExactInspection, for every      *)
(* artifact, folder, limit, edit and fault.                                *)
(***************************************************************************)
EXTENDS IndexClient, ExactInspection, TLAPS, SequenceTheorems, WellFoundedInduction

-----------------------------------------------------------------------------
(***************************************************************************)
(* Queues.                                                                 *)
(***************************************************************************)

\* Appending adds one element at the end.
LEMMA AppendElements ==
  ASSUME NEW S, NEW s \in Seq(S), NEW x \in S
  PROVE  /\ Append(s, x) \in Seq(S)
         /\ Len(Append(s, x)) = Len(s) + 1
         /\ \A i \in 1..Len(Append(s, x)) :
              \/ i \in 1..Len(s) /\ Append(s, x)[i] = s[i]
              \/ Append(s, x)[i] = x
  OBVIOUS

\* A sequence that is not empty is its first element and the others.
LEMMA HeadAndTail ==
  ASSUME NEW S, NEW s \in Seq(S), s # <<>>
  PROVE  /\ Tail(s) \in Seq(S)
         /\ Len(Tail(s)) = Len(s) - 1
         /\ 1 \in 1..Len(s) /\ Head(s) = s[1] /\ Head(s) \in S
         /\ \A i \in 1..Len(Tail(s)) : i + 1 \in 1..Len(s) /\ Tail(s)[i] = s[i + 1]
  OBVIOUS

-----------------------------------------------------------------------------
(***************************************************************************)
(* Type correctness.                                                       *)
(***************************************************************************)

LEMMA InitInv == Init => OwnAnswerInv
<1> SUFFICES ASSUME Init PROVE OwnAnswerInv
  OBVIOUS
<1> USE ConstantsOK DEF Init
<1>1. handle \in BOOLEAN /\ ready \in BOOLEAN /\ alive \in BOOLEAN
  OBVIOUS
<1>2. /\ pc \in [Callers -> {"idle", "acquire", "write", "wait", "close"}]
      /\ req \in [Callers -> Requests \cup {None}]
      /\ reader \in [Starts -> {"none", "reading", "ended"}]
  OBVIOUS
<1>3. queue \in Seq(Lines \cup {EOF}) /\ Len(queue) <= Capacity
  OBVIOUS
<1>4. stdin \in Seq(Requests) /\ Len(stdin) <= StdinSize
  OBVIOUS
<1>5. pipe \in [Starts -> Seq(Lines)] /\ \A g \in Starts : Len(pipe[g]) <= PipeSize
  OBVIOUS
<1>6. gen \in 0..MaxStarts /\ lock \in Callers \cup {None} /\ nextId \in Ids
  BY DEF Ids
<1>7. \A c \in Callers : pc[c] \in {"write", "wait"} <=> lock = c
  OBVIOUS
<1>8. TypeOK
  BY <1>1, <1>2, <1>3, <1>4, <1>5, <1>6, <1>7 DEF TypeOK
<1>9. InUse /\ AllKnown /\ OwnAnswer
  BY DEF InUse, AllKnown, OwnAnswer
<1> QED
  BY <1>8, <1>9 DEF OwnAnswerInv

LEMMA GotoType ==
  ASSUME TypeOK, NEW c \in Callers,
         NEW s \in {"idle", "acquire", "write", "wait", "close"}, Goto(c, s)
  PROVE  /\ pc' \in [Callers -> {"idle", "acquire", "write", "wait", "close"}]
         /\ pc'[c] = s
         /\ \A d \in Callers \ {c} : pc'[d] = pc[d]
  BY DEF Goto, TypeOK

\* A request that ends with an error frees the lock.
LEMMA RaiseType ==
  ASSUME TypeOK, InUse, NEW c \in Callers, lock = c, Raise(c)
  PROVE  /\ pc' \in [Callers -> {"idle", "acquire", "write", "wait", "close"}]
         /\ lock' = None /\ nextId' = nextId /\ req' = req /\ got' = got
         /\ gen' = gen /\ handle' = handle /\ ready' = ready
         /\ pc'[c] \in {"idle", "close"}
         /\ \A d \in Callers \ {c} : pc'[d] = pc[d]
  BY GotoType DEF Raise

\* So does one that gets a result.
LEMMA DeliverType ==
  ASSUME TypeOK, InUse, NEW c \in Callers, lock = c, NEW line, Deliver(c, line)
  PROVE  /\ pc' \in [Callers -> {"idle", "acquire", "write", "wait", "close"}]
         /\ req' \in [Callers -> Requests \cup {None}]
         /\ req'[c] \in Requests
         /\ \A d \in Callers \ {c} : req'[d] = req[d]
         /\ pc'[c] \in {"idle", "acquire", "close"}
         /\ \A d \in Callers \ {c} : pc'[d] = pc[d]
         /\ lock' = None /\ nextId' = nextId /\ gen' = gen /\ handle' = handle
         /\ ready' \in BOOLEAN
         /\ ready' # ready => req[c].method = "tools/list"
         /\ got' = [asked |-> [id |-> req[c].id, gen |-> req[c].gen],
                    given |-> [id |-> line.id, gen |-> line.gen]]
<1>1. req[c] \in Requests
  BY DEF TypeOK, InUse
<1>2. [req[c] EXCEPT !.method = "tools/list"] \in Requests
  BY <1>1 DEF Requests, Methods
<1>3. /\ req' \in [Callers -> Requests \cup {None}] /\ req'[c] \in Requests
      /\ \A d \in Callers \ {c} : req'[d] = req[d]
  BY <1>1, <1>2 DEF Deliver, TypeOK
<1>4. /\ pc' \in [Callers -> {"idle", "acquire", "write", "wait", "close"}]
      /\ pc'[c] \in {"idle", "acquire", "close"}
      /\ \A d \in Callers \ {c} : pc'[d] = pc[d]
  BY GotoType DEF Deliver
<1>5. ready' \in BOOLEAN /\ (ready' # ready => req[c].method = "tools/list")
  BY DEF Deliver, TypeOK
<1> QED
  BY <1>3, <1>4, <1>5 DEF Deliver

-----------------------------------------------------------------------------
(***************************************************************************)
(* What is known stays known.                                              *)
(***************************************************************************)

\* Known, of the next state.
NextKnown(x) ==
  /\ x.id < nextId'
  /\ \A c \in Callers :
       lock' = c /\ req'[c].id = x.id => pc'[c] = "wait" /\ req'[c].gen = x.gen

\* A step that neither hands out an id nor writes: the lock is given up, or kept
\* with the request of its holder.
LEMMA KnownKept ==
  ASSUME TypeOK, nextId' = nextId,
         \/ lock' = None
         \/ /\ lock' = lock
            /\ \A c \in Callers : lock = c => pc'[c] = pc[c] /\ req'[c] = req[c]
  PROVE  \A x : Known(x) => NextKnown(x)
  BY ConstantsOK DEF Known, NextKnown

\* Handing out an id.
LEMMA KnownAcquire ==
  ASSUME TypeOK, NEW c \in Callers, lock' = c, nextId' = nextId + 1, req'[c].id = nextId
  PROVE  \A x : x.id \in Nat /\ Known(x) => NextKnown(x)
  BY ConstantsOK DEF Known, NextKnown, TypeOK, Ids

\* The requests in the pipes and the answers on their way.
Underway ==
  /\ \A i \in 1..Len(stdin') : NextKnown(stdin'[i])
  /\ \A g \in Starts : \A i \in 1..Len(pipe'[g]) :
       pipe'[g][i].kind = "answer" => NextKnown(pipe'[g][i])
  /\ \A i \in 1..Len(queue') : queue'[i].kind = "answer" => NextKnown(queue'[i])

LEMMA UnderwayKnown == Underway => AllKnown'
  BY DEF Underway, AllKnown, Known, NextKnown

\* What was under way has an id.
LEMMA HasId ==
  ASSUME TypeOK
  PROVE  /\ \A i \in 1..Len(stdin) : stdin[i].id \in Nat
         /\ \A g \in Starts : \A i \in 1..Len(pipe[g]) :
              pipe[g][i].kind = "answer" => pipe[g][i].id \in Nat
         /\ \A i \in 1..Len(queue) : queue[i].kind = "answer" => queue[i].id \in Nat
<1>1. \A r \in Requests : r.id \in Nat
  BY DEF Requests, Ids
<1>2. \A l \in Lines \cup {EOF} : l.kind = "answer" => l.id \in Nat
  BY DEF Lines, Answers, Notice, Overlong, EOF, Ids
<1>3. /\ \A i \in 1..Len(stdin) : stdin[i] \in Requests
      /\ \A i \in 1..Len(queue) : queue[i] \in Lines \cup {EOF}
  BY DEF TypeOK
<1>4. ASSUME NEW g \in Starts PROVE \A i \in 1..Len(pipe[g]) : pipe[g][i] \in Lines
  <2>1. pipe[g] \in Seq(Lines)
    BY DEF TypeOK
  <2> QED
    BY <2>1
<1> QED
  BY <1>1, <1>2, <1>3, <1>4

\* Nothing new under way: all is known if what was known is.
LEMMA NothingNew ==
  ASSUME TypeOK, AllKnown, UNCHANGED <<stdin, pipe, queue>>,
         \A x : x.id \in Nat /\ Known(x) => NextKnown(x)
  PROVE  AllKnown'
<1>1. Underway
  BY HasId DEF AllKnown, Underway
<1> QED
  BY <1>1, UnderwayKnown

-----------------------------------------------------------------------------
(***************************************************************************)
(* The steps of the callers.                                               *)
(***************************************************************************)

\* What TypeOK says of the pipes, the queue and the server, kept when they are.
LEMMA RestType ==
  ASSUME TypeOK, UNCHANGED <<queue, stdin, pipe, reader>>
  PROVE  /\ queue' \in Seq(Lines \cup {EOF}) /\ Len(queue') <= Capacity
         /\ stdin' \in Seq(Requests) /\ Len(stdin') <= StdinSize
         /\ pipe' \in [Starts -> Seq(Lines)]
         /\ \A g \in Starts : Len(pipe'[g]) <= PipeSize
         /\ reader' \in [Starts -> {"none", "reading", "ended"}]
  BY DEF TypeOK

LEMMA StartStep ==
  ASSUME OwnAnswerInv, NEW c \in Callers, Start(c)
  PROVE  OwnAnswerInv'
<1> DEFINE r == [method |-> "initialize", id |-> 0, gen |-> gen + 1]
<1>1. TypeOK /\ InUse /\ AllKnown /\ OwnAnswer
  BY DEF OwnAnswerInv
<1>2. gen' = gen + 1 /\ gen + 1 \in Starts /\ gen' \in 0..MaxStarts
  BY <1>1, ConstantsOK DEF Start, TypeOK, Starts
<1>3. r \in Requests
  BY <1>2 DEF Requests, Methods, Ids
<1>4. /\ req' \in [Callers -> Requests \cup {None}] /\ req'[c] \in Requests
      /\ \A d \in Callers \ {c} : req'[d] = req[d]
  BY <1>1, <1>3 DEF Start, TypeOK
<1>5. /\ pc' \in [Callers -> {"idle", "acquire", "write", "wait", "close"}]
      /\ pc'[c] = "acquire" /\ \A d \in Callers \ {c} : pc'[d] = pc[d]
  BY <1>1, GotoType DEF Start
<1>6. lock # c /\ lock' = lock /\ nextId' = nextId /\ UNCHANGED <<queue, pipe, got>>
  BY <1>1, ConstantsOK DEF Start, TypeOK
<1>7. TypeOK'
  <2>1. handle' \in BOOLEAN /\ ready' \in BOOLEAN /\ alive' \in BOOLEAN
    BY <1>1 DEF Start, TypeOK
  <2>2. reader' \in [Starts -> {"none", "reading", "ended"}]
    BY <1>1, <1>2 DEF Start, TypeOK
  <2>3. stdin' \in Seq(Requests) /\ Len(stdin') <= StdinSize
    BY ConstantsOK DEF Start
  <2>4. \A d \in Callers : pc'[d] \in {"write", "wait"} <=> lock' = d
    BY <1>1, <1>5, <1>6 DEF TypeOK
  <2>5. lock' \in Callers \cup {None} /\ nextId' \in Ids
    BY <1>1, <1>6 DEF TypeOK
  <2>6. /\ queue' \in Seq(Lines \cup {EOF}) /\ Len(queue') <= Capacity
        /\ pipe' \in [Starts -> Seq(Lines)] /\ \A g \in Starts : Len(pipe'[g]) <= PipeSize
    BY <1>1, <1>6 DEF TypeOK
  <2> QED
    BY <1>2, <1>4, <1>5, <2>1, <2>2, <2>3, <2>4, <2>5, <2>6 DEF TypeOK
<1>8. InUse'
  <2>1. \A d \in Callers : pc'[d] # "idle" => req'[d] \in Requests
    BY <1>1, <1>4, <1>5 DEF InUse
  <2>2. \A d \in Callers : lock' = d => req'[d].id < nextId'
    BY <1>1, <1>4, <1>6 DEF InUse
  <2> QED
    BY <1>2, <2>1, <2>2 DEF InUse
<1>9. AllKnown'
  <2>1. \A x : Known(x) => NextKnown(x)
    BY <1>1, <1>4, <1>5, <1>6, KnownKept
  <2>2. Len(stdin') = 0
    BY DEF Start
  <2>3. Underway
    BY <1>1, <1>6, <2>1, <2>2 DEF Underway, AllKnown
  <2> QED
    BY <2>3, UnderwayKnown
<1> QED
  BY <1>1, <1>6, <1>7, <1>8, <1>9 DEF OwnAnswerInv, OwnAnswer

LEMMA CloseStep ==
  ASSUME OwnAnswerInv, NEW c \in Callers, Close(c)
  PROVE  OwnAnswerInv'
<1>1. TypeOK /\ InUse /\ AllKnown /\ OwnAnswer
  BY DEF OwnAnswerInv
<1>2. /\ pc' \in [Callers -> {"idle", "acquire", "write", "wait", "close"}]
      /\ pc'[c] = "idle" /\ \A d \in Callers \ {c} : pc'[d] = pc[d]
  BY <1>1, GotoType DEF Close
<1>3. /\ lock # c
      /\ UNCHANGED <<gen, lock, nextId, queue, req, stdin, noise, pipe, reader, calls, got>>
  BY <1>1 DEF Close, TypeOK
<1>4. handle' = FALSE /\ ready' = FALSE /\ alive' = FALSE
  BY DEF Close
<1>5. TypeOK'
  <2>1. \A d \in Callers : pc'[d] \in {"write", "wait"} <=> lock' = d
    BY <1>1, <1>2, <1>3 DEF TypeOK
  <2>2. handle' \in BOOLEAN /\ ready' \in BOOLEAN /\ alive' \in BOOLEAN
    BY <1>4
  <2>3. /\ gen' \in 0..MaxStarts /\ lock' \in Callers \cup {None} /\ nextId' \in Ids
        /\ req' \in [Callers -> Requests \cup {None}]
    BY <1>1, <1>3 DEF TypeOK
  <2> QED
    BY <1>1, <1>2, <1>3, <2>1, <2>2, <2>3, RestType DEF TypeOK
<1>6. InUse'
  BY <1>1, <1>2, <1>3, <1>4 DEF InUse
<1>7. AllKnown'
  <2>1. \A x : Known(x) => NextKnown(x)
    BY <1>1, <1>2, <1>3, KnownKept
  <2> QED
    BY <1>1, <1>3, <2>1, NothingNew
<1> QED
  BY <1>1, <1>3, <1>5, <1>6, <1>7 DEF OwnAnswerInv, OwnAnswer

LEMMA CallToolStep ==
  ASSUME OwnAnswerInv, NEW c \in Callers, CallTool(c)
  PROVE  OwnAnswerInv'
<1>1. TypeOK /\ InUse /\ AllKnown /\ OwnAnswer
  BY DEF OwnAnswerInv
<1>2. [method |-> "tools/call", id |-> 0, gen |-> gen] \in Requests
  <2>1. gen \in Starts
    BY <1>1 DEF InUse, CallTool
  <2> QED
    BY <2>1 DEF Requests, Methods, Ids
<1>3. /\ req' \in [Callers -> Requests \cup {None}] /\ req'[c] \in Requests
      /\ \A d \in Callers \ {c} : req'[d] = req[d]
  BY <1>1, <1>2 DEF CallTool, TypeOK
<1>4. /\ pc' \in [Callers -> {"idle", "acquire", "write", "wait", "close"}]
      /\ pc'[c] = "acquire" /\ \A d \in Callers \ {c} : pc'[d] = pc[d]
  BY <1>1, GotoType DEF CallTool
<1>5. /\ lock # c
      /\ UNCHANGED <<gen, handle, ready, lock, nextId, queue, alive, stdin, pipe, reader, got>>
  BY <1>1 DEF CallTool, TypeOK, client, server
<1>6. TypeOK'
  <2>1. \A d \in Callers : pc'[d] \in {"write", "wait"} <=> lock' = d
    BY <1>1, <1>4, <1>5 DEF TypeOK
  <2>2. handle' \in BOOLEAN /\ ready' \in BOOLEAN /\ alive' \in BOOLEAN
    BY <1>1, <1>5 DEF TypeOK
  <2>3. gen' \in 0..MaxStarts /\ lock' \in Callers \cup {None} /\ nextId' \in Ids
    BY <1>1, <1>5 DEF TypeOK
  <2> QED
    BY <1>1, <1>3, <1>4, <1>5, <2>1, <2>2, <2>3, RestType DEF TypeOK
<1>7. InUse'
  <2>1. \A d \in Callers : pc'[d] # "idle" => req'[d] \in Requests
    BY <1>1, <1>3, <1>4 DEF InUse
  <2>2. \A d \in Callers : lock' = d => req'[d].id < nextId'
    BY <1>1, <1>3, <1>5 DEF InUse
  <2>3. gen' \in Starts
    BY <1>1, <1>5 DEF InUse, CallTool
  <2> QED
    BY <2>1, <2>2, <2>3 DEF InUse
<1>8. AllKnown'
  <2>1. \A x : Known(x) => NextKnown(x)
    BY <1>1, <1>3, <1>4, <1>5, KnownKept
  <2> QED
    BY <1>1, <1>5, <2>1, NothingNew
<1> QED
  BY <1>1, <1>5, <1>6, <1>7, <1>8 DEF OwnAnswerInv, OwnAnswer

LEMMA AcquireStep ==
  ASSUME OwnAnswerInv, NEW c \in Callers, Acquire(c)
  PROVE  OwnAnswerInv'
<1>1. TypeOK /\ InUse /\ AllKnown /\ OwnAnswer
  BY DEF OwnAnswerInv
<1>2. req[c] \in Requests /\ nextId \in Ids /\ nextId + 1 \in Ids
  BY <1>1 DEF Acquire, InUse, TypeOK, Ids
<1>3. [req[c] EXCEPT !.id = nextId] \in Requests
  BY <1>2 DEF Requests
<1>4. /\ req' \in [Callers -> Requests \cup {None}] /\ req'[c] \in Requests
      /\ req'[c].id = nextId /\ \A d \in Callers \ {c} : req'[d] = req[d]
  <2>1. req' = [req EXCEPT ![c] = [req[c] EXCEPT !.id = nextId]]
    BY <1>1 DEF Acquire, TypeOK
  <2>2. [req[c] EXCEPT !.id = nextId].id = nextId
    BY <1>2 DEF Requests
  <2> QED
    BY <1>1, <1>3, <2>1, <2>2 DEF TypeOK
<1>5. /\ pc' \in [Callers -> {"idle", "acquire", "write", "wait", "close"}]
      /\ pc'[c] = "write" /\ \A d \in Callers \ {c} : pc'[d] = pc[d]
  BY <1>1, GotoType DEF Acquire
<1>6. /\ lock = None /\ lock' = c /\ nextId' = nextId + 1
      /\ UNCHANGED <<gen, handle, ready, queue, alive, stdin, pipe, reader, got>>
  BY DEF Acquire, server
<1>7. TypeOK'
  <2>1. \A d \in Callers : pc'[d] \in {"write", "wait"} <=> lock' = d
    BY <1>1, <1>5, <1>6, ConstantsOK DEF TypeOK
  <2>2. handle' \in BOOLEAN /\ ready' \in BOOLEAN /\ alive' \in BOOLEAN
    BY <1>1, <1>6 DEF TypeOK
  <2>3. gen' \in 0..MaxStarts /\ lock' \in Callers \cup {None} /\ nextId' \in Ids
    BY <1>1, <1>2, <1>6 DEF TypeOK
  <2> QED
    BY <1>1, <1>4, <1>5, <1>6, <2>1, <2>2, <2>3, RestType DEF TypeOK
<1>8. InUse'
  <2>1. \A d \in Callers : pc'[d] # "idle" => req'[d] \in Requests
    BY <1>1, <1>4, <1>5 DEF InUse
  <2>2. \A d \in Callers : lock' = d => req'[d].id < nextId'
    BY <1>2, <1>4, <1>6 DEF Ids
  <2>3. gen' \in Starts
    BY <1>1, <1>6 DEF InUse, Acquire
  <2> QED
    BY <2>1, <2>2, <2>3 DEF InUse
<1>9. AllKnown'
  <2>1. \A x : x.id \in Nat /\ Known(x) => NextKnown(x)
    BY <1>1, <1>4, <1>6, KnownAcquire
  <2> QED
    BY <1>1, <1>6, <2>1, NothingNew
<1> QED
  BY <1>1, <1>6, <1>7, <1>8, <1>9 DEF OwnAnswerInv, OwnAnswer

\* A request is written while no answer to it can be under way.
LEMMA WriteStep ==
  ASSUME OwnAnswerInv, NEW c \in Callers, Write(c)
  PROVE  OwnAnswerInv'
<1>1. TypeOK /\ InUse /\ AllKnown /\ OwnAnswer
  BY DEF OwnAnswerInv
<1>2. req[c] \in Requests /\ lock = c /\ gen \in Starts /\ req[c].id < nextId
  BY <1>1 DEF Write, InUse, TypeOK
<1>3. /\ [req[c] EXCEPT !.gen = gen] \in Requests
      /\ [req[c] EXCEPT !.gen = gen].id = req[c].id
      /\ [req[c] EXCEPT !.gen = gen].gen = gen
  BY <1>2 DEF Requests
<1>4. /\ req' \in [Callers -> Requests \cup {None}] /\ req'[c] \in Requests
      /\ req'[c].id = req[c].id /\ req'[c].gen = gen
      /\ \A d \in Callers \ {c} : req'[d] = req[d]
  <2>1. req' = [req EXCEPT ![c] = [req[c] EXCEPT !.gen = gen]]
    BY <1>1 DEF Write, TypeOK
  <2> QED
    BY <1>1, <1>3, <2>1 DEF TypeOK
<1>5. /\ pc' \in [Callers -> {"idle", "acquire", "write", "wait", "close"}]
      /\ pc'[c] = "wait" /\ \A d \in Callers \ {c} : pc'[d] = pc[d]
  BY <1>1, GotoType DEF Write
<1>6. /\ pc[c] = "write" /\ stdin' = Append(stdin, req'[c]) /\ Len(stdin) < StdinSize
      /\ UNCHANGED <<gen, handle, ready, lock, nextId, queue, alive, pipe, reader, got>>
  BY DEF Write, client
<1>7. /\ stdin \in Seq(Requests) /\ stdin' \in Seq(Requests)
      /\ Len(stdin') = Len(stdin) + 1
      /\ \A i \in 1..Len(stdin') :
           \/ i \in 1..Len(stdin) /\ stdin'[i] = stdin[i]
           \/ stdin'[i] = req'[c]
  <2>1. stdin \in Seq(Requests)
    BY <1>1 DEF TypeOK
  <2> QED
    BY <1>4, <1>6, <2>1, AppendElements
<1>8. TypeOK'
  <2>1. \A d \in Callers : pc'[d] \in {"write", "wait"} <=> lock' = d
    BY <1>1, <1>2, <1>5, <1>6 DEF TypeOK
  <2>2. handle' \in BOOLEAN /\ ready' \in BOOLEAN /\ alive' \in BOOLEAN
    BY <1>1, <1>6 DEF TypeOK
  <2>3. gen' \in 0..MaxStarts /\ lock' \in Callers \cup {None} /\ nextId' \in Ids
    BY <1>1, <1>6 DEF TypeOK
  <2>4. stdin' \in Seq(Requests) /\ Len(stdin') <= StdinSize
    BY <1>6, <1>7, ConstantsOK
  <2>5. /\ queue' \in Seq(Lines \cup {EOF}) /\ Len(queue') <= Capacity
        /\ pipe' \in [Starts -> Seq(Lines)] /\ \A g \in Starts : Len(pipe'[g]) <= PipeSize
        /\ reader' \in [Starts -> {"none", "reading", "ended"}]
    BY <1>1, <1>6 DEF TypeOK
  <2> QED
    BY <1>4, <1>5, <2>1, <2>2, <2>3, <2>4, <2>5 DEF TypeOK
<1>9. InUse'
  <2>1. \A d \in Callers : pc'[d] # "idle" => req'[d] \in Requests
    BY <1>1, <1>4, <1>5 DEF InUse
  <2>2. \A d \in Callers : lock' = d => req'[d].id < nextId'
    BY <1>2, <1>4, <1>6
  <2> QED
    BY <1>2, <1>6, <2>1, <2>2 DEF InUse
<1>10. AllKnown'
  <2>1. \A x : Known(x) => NextKnown(x)
    BY <1>2, <1>4, <1>6 DEF Known, NextKnown
  <2>2. NextKnown(req'[c])
    BY <1>2, <1>4, <1>5, <1>6 DEF NextKnown
  <2>3. \A i \in 1..Len(stdin') : NextKnown(stdin'[i])
    BY <1>1, <1>7, <2>1, <2>2 DEF AllKnown
  <2>4. Underway
    BY <1>1, <1>6, <2>1, <2>3 DEF AllKnown, Underway
  <2> QED
    BY <2>4, UnderwayKnown
<1> QED
  BY <1>1, <1>6, <1>8, <1>9, <1>10 DEF OwnAnswerInv, OwnAnswer

\* The queue of the next state holds nothing but lines of this one.
QueueFrom ==
  /\ queue' \in Seq(Lines \cup {EOF}) /\ Len(queue') <= Capacity
  /\ \A i \in 1..Len(queue') : \E j \in 1..Len(queue) : queue'[i] = queue[j]

LEMMA QueueStays ==
  ASSUME TypeOK, queue' = queue
  PROVE  QueueFrom
  BY DEF TypeOK, QueueFrom

LEMMA QueueTail ==
  ASSUME TypeOK, queue # <<>>, queue' = Tail(queue)
  PROVE  /\ QueueFrom
         /\ Head(queue) \in Lines \cup {EOF}
         /\ 1 \in 1..Len(queue) /\ Head(queue) = queue[1]
<1>1. queue \in Seq(Lines \cup {EOF}) /\ Len(queue) <= Capacity /\ Len(queue) \in Nat
  BY DEF TypeOK
<1>2. /\ queue' \in Seq(Lines \cup {EOF}) /\ Len(queue') = Len(queue) - 1
      /\ \A i \in 1..Len(queue') : i + 1 \in 1..Len(queue) /\ queue'[i] = queue[i + 1]
  BY <1>1, HeadAndTail
<1> QED
  BY <1>1, <1>2, HeadAndTail, ConstantsOK DEF QueueFrom

\* The end of a request, but for what it hands over: the lock is free, and what
\* was known is.
LEMMA RequestEnds ==
  ASSUME OwnAnswerInv, NEW c \in Callers, lock = c, lock' = None, nextId' = nextId,
         gen' = gen, handle' = handle, ready' \in BOOLEAN,
         pc' \in [Callers -> {"idle", "acquire", "write", "wait", "close"}],
         pc'[c] \in {"idle", "acquire", "close"},
         \A d \in Callers \ {c} : pc'[d] = pc[d],
         req' \in [Callers -> Requests \cup {None}], req'[c] \in Requests,
         \A d \in Callers \ {c} : req'[d] = req[d],
         QueueFrom, UNCHANGED <<alive, stdin, pipe, reader>>
  PROVE  TypeOK' /\ InUse' /\ AllKnown'
<1>1. TypeOK /\ InUse /\ AllKnown
  BY DEF OwnAnswerInv
<1>2. pc[c] \in {"write", "wait"} /\ gen \in Starts
  BY <1>1 DEF TypeOK, InUse
<1>3. TypeOK'
  <2>1. \A d \in Callers : pc'[d] \in {"write", "wait"} <=> lock' = d
    BY <1>1, ConstantsOK DEF TypeOK
  <2>2. handle' \in BOOLEAN /\ ready' \in BOOLEAN /\ alive' \in BOOLEAN
    BY <1>1 DEF TypeOK
  <2>3. gen' \in 0..MaxStarts /\ lock' \in Callers \cup {None} /\ nextId' \in Ids
    BY <1>1 DEF TypeOK
  <2>4. /\ stdin' \in Seq(Requests) /\ Len(stdin') <= StdinSize
        /\ pipe' \in [Starts -> Seq(Lines)] /\ \A g \in Starts : Len(pipe'[g]) <= PipeSize
        /\ reader' \in [Starts -> {"none", "reading", "ended"}]
    BY <1>1 DEF TypeOK
  <2>5. queue' \in Seq(Lines \cup {EOF}) /\ Len(queue') <= Capacity
    BY DEF QueueFrom
  <2> QED
    BY <2>1, <2>2, <2>3, <2>4, <2>5 DEF TypeOK
<1>4. InUse'
  <2>1. \A d \in Callers : pc'[d] # "idle" => req'[d] \in Requests
    BY <1>1 DEF InUse
  <2>2. \A d \in Callers : lock' = d => req'[d].id < nextId'
    BY ConstantsOK
  <2> QED
    BY <1>2, <2>1, <2>2 DEF InUse
<1>5. AllKnown'
  <2>1. \A x : Known(x) => NextKnown(x)
    BY <1>1, KnownKept
  <2>2. \A i \in 1..Len(queue') : queue'[i].kind = "answer" => NextKnown(queue'[i])
    BY <1>1, <2>1 DEF QueueFrom, AllKnown
  <2>3. Underway
    BY <1>1, <2>1, <2>2 DEF AllKnown, Underway
  <2> QED
    BY <2>3, UnderwayKnown
<1> QED
  BY <1>3, <1>4, <1>5

\* A request that fails: the server is gone, the wait is over, or the line that
\* came is not its answer.
LEMMA RaiseStep ==
  ASSUME OwnAnswerInv, NEW c \in Callers, lock = c, Raise(c),
         QueueFrom, UNCHANGED <<alive, stdin, pipe, reader>>
  PROVE  OwnAnswerInv'
<1>1. TypeOK /\ InUse /\ AllKnown /\ OwnAnswer
  BY DEF OwnAnswerInv
<1>2. /\ pc' \in [Callers -> {"idle", "acquire", "write", "wait", "close"}]
      /\ pc'[c] \in {"idle", "acquire", "close"}
      /\ \A d \in Callers \ {c} : pc'[d] = pc[d]
      /\ lock' = None /\ nextId' = nextId /\ gen' = gen
      /\ handle' = handle /\ ready' = ready /\ req' = req /\ got' = got
  BY <1>1, RaiseType
<1>3. /\ req' \in [Callers -> Requests \cup {None}] /\ req'[c] \in Requests
      /\ \A d \in Callers \ {c} : req'[d] = req[d]
  BY <1>1, <1>2 DEF TypeOK, InUse
<1>4. ready' \in BOOLEAN
  BY <1>1, <1>2 DEF TypeOK
<1>5. TypeOK' /\ InUse' /\ AllKnown'
  BY <1>2, <1>3, <1>4, RequestEnds
<1> QED
  BY <1>1, <1>2, <1>5 DEF OwnAnswerInv, OwnAnswer

LEMMA FailureStep ==
  ASSUME OwnAnswerInv, NEW c \in Callers, WriteFails(c) \/ TimeOut(c)
  PROVE  OwnAnswerInv'
<1>1. TypeOK
  BY DEF OwnAnswerInv
<1>2. lock = c /\ Raise(c) /\ queue' = queue /\ UNCHANGED <<alive, stdin, pipe, reader>>
  BY <1>1 DEF WriteFails, TimeOut, TypeOK, server
<1>3. QueueFrom
  BY <1>1, <1>2, QueueStays
<1> QED
  BY <1>2, <1>3, RaiseStep

\* A line that answers the request that waits is known, so it is of its start.
LEMMA TakeStep ==
  ASSUME OwnAnswerInv, NEW c \in Callers, Take(c)
  PROVE  OwnAnswerInv'
<1>1. TypeOK /\ InUse /\ AllKnown /\ OwnAnswer
  BY DEF OwnAnswerInv
<1>2. /\ pc[c] = "wait" /\ lock = c /\ queue # <<>> /\ queue' = Tail(queue)
      /\ UNCHANGED <<alive, stdin, pipe, reader>>
  BY <1>1 DEF Take, TypeOK, server
<1>3. /\ QueueFrom
      /\ 1 \in 1..Len(queue) /\ Head(queue) = queue[1]
  BY <1>1, <1>2, QueueTail
<1>4. CASE ~(Head(queue).kind = "answer" /\ Head(queue).id = req[c].id)
  <2>1. Raise(c)
    BY <1>4 DEF Take
  <2> QED
    BY <1>2, <1>3, <2>1, RaiseStep
<1>5. CASE Head(queue).kind = "answer" /\ Head(queue).id = req[c].id
  <2>1. Deliver(c, Head(queue))
    BY <1>5 DEF Take
  <2>2. Known(Head(queue))
    BY <1>1, <1>3, <1>5 DEF AllKnown
  <2>3. Head(queue).gen = req[c].gen
    BY <1>2, <1>5, <2>2 DEF Known
  <2>4. /\ pc' \in [Callers -> {"idle", "acquire", "write", "wait", "close"}]
        /\ req' \in [Callers -> Requests \cup {None}]
        /\ req'[c] \in Requests
        /\ \A d \in Callers \ {c} : req'[d] = req[d]
        /\ pc'[c] \in {"idle", "acquire", "close"}
        /\ \A d \in Callers \ {c} : pc'[d] = pc[d]
        /\ lock' = None /\ nextId' = nextId /\ gen' = gen /\ handle' = handle
        /\ ready' \in BOOLEAN
        /\ got' = [asked |-> [id |-> req[c].id, gen |-> req[c].gen],
                   given |-> [id |-> Head(queue).id, gen |-> Head(queue).gen]]
    BY <1>1, <1>2, <2>1, DeliverType
  <2>5. TypeOK' /\ InUse' /\ AllKnown'
    BY <1>2, <1>3, <2>4, RequestEnds
  <2>6. got'.given = got'.asked
    BY <1>5, <2>3, <2>4
  <2> QED
    BY <2>5, <2>6 DEF OwnAnswerInv, OwnAnswer
<1> QED
  BY <1>4, <1>5

-----------------------------------------------------------------------------
(***************************************************************************)
(* The steps of the readers and of the server.                             *)
(***************************************************************************)

\* No step of theirs touches a request.
CallersUntouched ==
  UNCHANGED <<gen, handle, ready, lock, nextId, pc, req, got>>

\* Then only the pipes, the queue and the server have to be looked at.
LEMMA OtherStep ==
  ASSUME OwnAnswerInv, CallersUntouched, alive' \in BOOLEAN, alive' => alive,
         stdin' \in Seq(Requests), Len(stdin') <= StdinSize,
         pipe' \in [Starts -> Seq(Lines)], \A g \in Starts : Len(pipe'[g]) <= PipeSize,
         queue' \in Seq(Lines \cup {EOF}), Len(queue') <= Capacity,
         reader' \in [Starts -> {"none", "reading", "ended"}],
         (\A x : Known(x) => NextKnown(x)) => Underway
  PROVE  OwnAnswerInv'
<1>1. TypeOK /\ InUse /\ OwnAnswer
  BY DEF OwnAnswerInv
<1>2. TypeOK'
  <2>1. handle' \in BOOLEAN /\ ready' \in BOOLEAN
    BY <1>1 DEF TypeOK, CallersUntouched
  <2>2. /\ gen' \in 0..MaxStarts /\ lock' \in Callers \cup {None} /\ nextId' \in Ids
        /\ pc' \in [Callers -> {"idle", "acquire", "write", "wait", "close"}]
        /\ req' \in [Callers -> Requests \cup {None}]
        /\ \A d \in Callers : pc'[d] \in {"write", "wait"} <=> lock' = d
    BY <1>1 DEF TypeOK, CallersUntouched
  <2> QED
    BY <2>1, <2>2 DEF TypeOK
<1>3. InUse'
  <2>1. /\ \A c \in Callers : pc'[c] # "idle" => req'[c] \in Requests
        /\ \A c \in Callers : lock' = c => req'[c].id < nextId'
    BY <1>1 DEF InUse, CallersUntouched
  <2>2. handle' \/ alive' \/ ready' \/ (\E c \in Callers : pc'[c] # "idle")
          => gen' \in Starts
    BY <1>1 DEF InUse, CallersUntouched
  <2> QED
    BY <2>1, <2>2 DEF InUse
<1>4. AllKnown'
  <2>1. \A x : Known(x) => NextKnown(x)
    BY DEF Known, NextKnown, CallersUntouched
  <2> QED
    BY <2>1, UnderwayKnown
<1> QED
  BY <1>1, <1>2, <1>3, <1>4 DEF OwnAnswerInv, OwnAnswer, CallersUntouched

\* A pipe that a line is added to.
LEMMA PipeAppend ==
  ASSUME TypeOK, NEW g \in Starts, NEW line \in Lines, Len(pipe[g]) < PipeSize,
         pipe' = [pipe EXCEPT ![g] = Append(@, line)]
  PROVE  /\ pipe' \in [Starts -> Seq(Lines)] /\ \A h \in Starts : Len(pipe'[h]) <= PipeSize
         /\ \A h \in Starts : \A i \in 1..Len(pipe'[h]) :
              \/ i \in 1..Len(pipe[h]) /\ pipe'[h][i] = pipe[h][i]
              \/ pipe'[h][i] = line
<1>1. /\ pipe \in [Starts -> Seq(Lines)] /\ pipe[g] \in Seq(Lines)
      /\ \A h \in Starts : Len(pipe[h]) <= PipeSize
  BY DEF TypeOK
<1>2. /\ Append(pipe[g], line) \in Seq(Lines) /\ Len(Append(pipe[g], line)) = Len(pipe[g]) + 1
      /\ \A i \in 1..Len(Append(pipe[g], line)) :
           \/ i \in 1..Len(pipe[g]) /\ Append(pipe[g], line)[i] = pipe[g][i]
           \/ Append(pipe[g], line)[i] = line
  BY <1>1, AppendElements
<1>3. Len(pipe[g]) + 1 <= PipeSize
  BY <1>1, ConstantsOK
<1>4. pipe'[g] = Append(pipe[g], line) /\ \A h \in Starts \ {g} : pipe'[h] = pipe[h]
  BY <1>1
<1>5. pipe' \in [Starts -> Seq(Lines)]
  BY <1>1, <1>2
<1>6. ASSUME NEW h \in Starts
      PROVE  /\ Len(pipe'[h]) <= PipeSize
             /\ \A i \in 1..Len(pipe'[h]) :
                  \/ i \in 1..Len(pipe[h]) /\ pipe'[h][i] = pipe[h][i]
                  \/ pipe'[h][i] = line
  <2>1. CASE h = g
    BY <1>2, <1>3, <1>4, <2>1
  <2>2. CASE h # g
    BY <1>1, <1>4, <2>2
  <2> QED
    BY <2>1, <2>2
<1> QED
  BY <1>5, <1>6

LEMMA AnswerStep ==
  ASSUME OwnAnswerInv, Answer
  PROVE  OwnAnswerInv'
<1>1. TypeOK /\ InUse /\ AllKnown
  BY DEF OwnAnswerInv
<1>2. /\ stdin \in Seq(Requests) /\ stdin # <<>> /\ stdin' = Tail(stdin) /\ gen \in Starts
      /\ Len(pipe[gen]) < PipeSize /\ Len(stdin) <= StdinSize
  BY <1>1 DEF Answer, TypeOK, InUse
<1>3. /\ stdin' \in Seq(Requests) /\ Len(stdin') = Len(stdin) - 1
      /\ 1 \in 1..Len(stdin) /\ Head(stdin) = stdin[1] /\ Head(stdin) \in Requests
      /\ \A i \in 1..Len(stdin') : i + 1 \in 1..Len(stdin) /\ stdin'[i] = stdin[i + 1]
  BY <1>2, HeadAndTail
<1>4. PICK line \in {[kind |-> "answer", id |-> Head(stdin).id, gen |-> Head(stdin).gen], Overlong} :
        pipe' = [pipe EXCEPT ![gen] = Append(@, line)]
  BY DEF Answer
<1>5. Known(Head(stdin))
  BY <1>1, <1>3 DEF AllKnown
<1>6. line.kind = "answer" => line.id = Head(stdin).id /\ line.gen = Head(stdin).gen
  BY <1>4 DEF Overlong
<1>7. line \in Lines
  BY <1>3, <1>4 DEF Lines, Answers, Requests
<1>8. /\ pipe' \in [Starts -> Seq(Lines)] /\ \A h \in Starts : Len(pipe'[h]) <= PipeSize
      /\ \A h \in Starts : \A i \in 1..Len(pipe'[h]) :
           \/ i \in 1..Len(pipe[h]) /\ pipe'[h][i] = pipe[h][i]
           \/ pipe'[h][i] = line
  BY <1>1, <1>2, <1>4, <1>7, PipeAppend
<1>9. CallersUntouched /\ alive' = alive /\ queue' = queue /\ reader' = reader
  BY DEF Answer, CallersUntouched, client
<1>10. /\ alive' \in BOOLEAN
       /\ queue' \in Seq(Lines \cup {EOF}) /\ Len(queue') <= Capacity
       /\ reader' \in [Starts -> {"none", "reading", "ended"}]
  BY <1>1, <1>9 DEF TypeOK
<1>11. Len(stdin') <= StdinSize
  BY <1>2, <1>3, ConstantsOK
<1>12. ASSUME \A x : Known(x) => NextKnown(x) PROVE Underway
  <2>1. NextKnown(Head(stdin))
    BY <1>5, <1>12
  <2>2. line.kind = "answer" => NextKnown(line)
    BY <1>6, <2>1 DEF NextKnown
  <2>3. \A i \in 1..Len(stdin') : NextKnown(stdin'[i])
    BY <1>1, <1>3, <1>12 DEF AllKnown
  <2>4. \A h \in Starts : \A i \in 1..Len(pipe'[h]) :
          pipe'[h][i].kind = "answer" => NextKnown(pipe'[h][i])
    BY <1>1, <1>8, <1>12, <2>2 DEF AllKnown
  <2> QED
    BY <1>1, <1>9, <1>12, <2>3, <2>4 DEF AllKnown, Underway
<1> QED
  BY <1>3, <1>8, <1>9, <1>10, <1>11, <1>12, OtherStep

LEMMA NotifyStep ==
  ASSUME OwnAnswerInv, Notify
  PROVE  OwnAnswerInv'
<1>1. TypeOK /\ InUse /\ AllKnown
  BY DEF OwnAnswerInv
<1>2. gen \in Starts /\ Len(pipe[gen]) < PipeSize /\ Notice \in Lines
  BY <1>1 DEF Notify, InUse, Lines
<1>3. /\ pipe' \in [Starts -> Seq(Lines)] /\ \A h \in Starts : Len(pipe'[h]) <= PipeSize
      /\ \A h \in Starts : \A i \in 1..Len(pipe'[h]) :
           \/ i \in 1..Len(pipe[h]) /\ pipe'[h][i] = pipe[h][i]
           \/ pipe'[h][i] = Notice
  BY <1>1, <1>2, PipeAppend DEF Notify
<1>4. /\ CallersUntouched
      /\ alive' = alive /\ queue' = queue /\ reader' = reader /\ stdin' = stdin
  BY DEF Notify, CallersUntouched, client
<1>5. /\ alive' \in BOOLEAN
      /\ queue' \in Seq(Lines \cup {EOF}) /\ Len(queue') <= Capacity
      /\ stdin' \in Seq(Requests) /\ Len(stdin') <= StdinSize
      /\ reader' \in [Starts -> {"none", "reading", "ended"}]
  BY <1>1, <1>4 DEF TypeOK
<1>6. ASSUME \A x : Known(x) => NextKnown(x) PROVE Underway
  <2>1. Notice.kind # "answer"
    BY DEF Notice
  <2>2. \A h \in Starts : \A i \in 1..Len(pipe'[h]) :
          pipe'[h][i].kind = "answer" => NextKnown(pipe'[h][i])
    BY <1>1, <1>3, <1>6, <2>1 DEF AllKnown
  <2> QED
    BY <1>1, <1>4, <1>6, <2>2 DEF AllKnown, Underway
<1> QED
  BY <1>3, <1>4, <1>5, <1>6, OtherStep

LEMMA ExitStep ==
  ASSUME OwnAnswerInv, Exit
  PROVE  OwnAnswerInv'
<1>1. TypeOK /\ InUse /\ AllKnown
  BY DEF OwnAnswerInv
<1>2. /\ CallersUntouched /\ alive' = FALSE
      /\ UNCHANGED <<queue, stdin, pipe, reader>>
  BY DEF Exit, CallersUntouched, client
<1>3. ASSUME \A x : Known(x) => NextKnown(x) PROVE Underway
  BY <1>1, <1>2, <1>3 DEF AllKnown, Underway
<1> QED
  BY <1>1, <1>2, <1>3, RestType, OtherStep

LEMMA ReadStep ==
  ASSUME OwnAnswerInv, NEW g \in Starts, Read(g)
  PROVE  OwnAnswerInv'
<1>1. TypeOK /\ InUse /\ AllKnown
  BY DEF OwnAnswerInv
<1>2. /\ queue \in Seq(Lines \cup {EOF}) /\ Len(queue) < Capacity
      /\ pipe \in [Starts -> Seq(Lines)] /\ pipe[g] \in Seq(Lines)
      /\ \A h \in Starts : Len(pipe[h]) <= PipeSize
  BY <1>1 DEF Read, TypeOK
<1>3. /\ CallersUntouched /\ alive' = alive /\ stdin' = stdin
      /\ alive' \in BOOLEAN /\ stdin' \in Seq(Requests) /\ Len(stdin') <= StdinSize
  BY <1>1 DEF Read, CallersUntouched, client, server, TypeOK
<1>4. reader' \in [Starts -> {"none", "reading", "ended"}]
  BY <1>1 DEF Read, TypeOK
<1> DEFINE Moves(line, rest) ==
      /\ queue' = Append(queue, line)
      /\ pipe' = [pipe EXCEPT ![g] = rest]
      /\ Len(rest) <= Len(pipe[g])
      /\ \A i \in 1..Len(rest) : \E j \in 1..Len(pipe[g]) : rest[i] = pipe[g][j]
      /\ line.kind = "answer" => \E j \in 1..Len(pipe[g]) : line = pipe[g][j]
<1>5. PICK line \in Lines \cup {EOF}, rest \in Seq(Lines) : Moves(line, rest)
  <2>1. CASE /\ pipe[g] # <<>>
             /\ queue' = Append(queue, Head(pipe[g]))
             /\ pipe' = [pipe EXCEPT ![g] = Tail(@)]
    <3>1. /\ Tail(pipe[g]) \in Seq(Lines) /\ Len(Tail(pipe[g])) = Len(pipe[g]) - 1
          /\ Len(pipe[g]) \in Nat
          /\ 1 \in 1..Len(pipe[g]) /\ Head(pipe[g]) = pipe[g][1] /\ Head(pipe[g]) \in Lines
          /\ \A i \in 1..Len(Tail(pipe[g])) :
               i + 1 \in 1..Len(pipe[g]) /\ Tail(pipe[g])[i] = pipe[g][i + 1]
      BY <1>2, <2>1, HeadAndTail
    <3>2. pipe' = [pipe EXCEPT ![g] = Tail(pipe[g])] /\ Len(Tail(pipe[g])) <= Len(pipe[g])
      BY <1>2, <2>1, <3>1
    <3>3. \A i \in 1..Len(Tail(pipe[g])) : \E j \in 1..Len(pipe[g]) : Tail(pipe[g])[i] = pipe[g][j]
      BY <3>1
    <3>4. \E j \in 1..Len(pipe[g]) : Head(pipe[g]) = pipe[g][j]
      BY <3>1
    <3>5. Moves(Head(pipe[g]), Tail(pipe[g]))
      BY <2>1, <3>2, <3>3, <3>4
    <3> QED
      BY <3>1, <3>5
  <2>2. CASE queue' = Append(queue, EOF) /\ pipe' = [pipe EXCEPT ![g] = <<>>]
    <3>1. <<>> \in Seq(Lines) /\ Len(<<>>) = 0 /\ Len(pipe[g]) \in Nat
      BY <1>2
    <3>2. EOF.kind # "answer"
      BY DEF EOF
    <3>3. \A i \in 1..Len(<<>>) : \E j \in 1..Len(pipe[g]) : <<>>[i] = pipe[g][j]
      BY <3>1
    <3>4. Moves(EOF, <<>>)
      BY <2>2, <3>1, <3>2, <3>3
    <3> QED
      BY <3>1, <3>4
  <2> QED
    BY <2>1, <2>2 DEF Read
<1>6. /\ pipe' \in [Starts -> Seq(Lines)] /\ pipe'[g] = rest
      /\ \A h \in Starts \ {g} : pipe'[h] = pipe[h]
  BY <1>2, <1>5
<1>7. ASSUME NEW h \in Starts PROVE Len(pipe'[h]) <= PipeSize
  <2>1. CASE h = g
    BY <1>2, <1>5, <1>6, <2>1, ConstantsOK
  <2>2. CASE h # g
    BY <1>2, <1>6, <2>2
  <2> QED
    BY <2>1, <2>2
<1>8. /\ queue' \in Seq(Lines \cup {EOF}) /\ Len(queue') = Len(queue) + 1
      /\ \A i \in 1..Len(queue') :
           (i \in 1..Len(queue) /\ queue'[i] = queue[i]) \/ queue'[i] = line
  BY <1>2, <1>5, AppendElements
<1>9. Len(queue') <= Capacity
  BY <1>2, <1>8, ConstantsOK
<1>10. ASSUME \A x : Known(x) => NextKnown(x) PROVE Underway
  <2>1. \A j \in 1..Len(pipe[g]) : pipe[g][j].kind = "answer" => NextKnown(pipe[g][j])
    BY <1>1, <1>10 DEF AllKnown
  <2>2. line.kind = "answer" => NextKnown(line)
    BY <1>5, <2>1
  <2>3. \A i \in 1..Len(queue') : queue'[i].kind = "answer" => NextKnown(queue'[i])
    BY <1>1, <1>8, <1>10, <2>2 DEF AllKnown
  <2>4. ASSUME NEW h \in Starts, NEW i \in 1..Len(pipe'[h]), pipe'[h][i].kind = "answer"
        PROVE  NextKnown(pipe'[h][i])
    <3>1. CASE h = g
      BY <1>5, <1>6, <2>1, <2>4, <3>1
    <3>2. CASE h # g
      BY <1>1, <1>6, <1>10, <2>4, <3>2 DEF AllKnown
    <3> QED
      BY <3>1, <3>2
  <2> QED
    BY <1>1, <1>3, <1>10, <2>3, <2>4 DEF AllKnown, Underway
<1> QED
  BY <1>3, <1>4, <1>6, <1>7, <1>8, <1>9, <1>10, OtherStep

-----------------------------------------------------------------------------
(***************************************************************************)
(* The theorems.                                                           *)
(***************************************************************************)

LEMMA StepInv == OwnAnswerInv /\ [Next]_vars => OwnAnswerInv'
<1> SUFFICES ASSUME OwnAnswerInv, [Next]_vars PROVE OwnAnswerInv'
  OBVIOUS
<1>1. ASSUME NEW c \in Callers, Caller(c) PROVE OwnAnswerInv'
  BY <1>1, StartStep, CloseStep, CallToolStep, AcquireStep, WriteStep, FailureStep, TakeStep
     DEF Caller
<1>2. CASE Server
  BY <1>2, AnswerStep, NotifyStep, ExitStep DEF Server
<1>3. ASSUME NEW g \in Starts, Read(g) PROVE OwnAnswerInv'
  BY <1>3, ReadStep
<1>4. CASE UNCHANGED vars
  <2>1. CallersUntouched /\ UNCHANGED <<alive, stdin, pipe, queue, reader>>
    BY <1>4 DEF vars, client, server, CallersUntouched
  <2>2. TypeOK /\ AllKnown
    BY DEF OwnAnswerInv
  <2>3. ASSUME \A x : Known(x) => NextKnown(x) PROVE Underway
    BY <2>1, <2>2, <2>3 DEF AllKnown, Underway
  <2>4. alive' \in BOOLEAN
    BY <2>1, <2>2 DEF TypeOK
  <2> QED
    BY <2>1, <2>2, <2>3, <2>4, RestType, OtherStep
<1> QED
  BY <1>1, <1>2, <1>3, <1>4 DEF Next

LEMMA Invariant == Spec => []OwnAnswerInv
  BY InitInv, StepInv, PTL DEF Spec

\* Variables keep their types, and the lock is held exactly by the thread that is
\* in a request. (client.py, _request)
THEOREM TypeCorrect == Spec => []TypeOK
<1>1. OwnAnswerInv => TypeOK
  BY DEF OwnAnswerInv
<1> QED
  BY <1>1, Invariant, PTL

\* Whoever gets a result gets the answer of the server of this start to the
\* request it made: ids go on over restarts, so no late answer has the id of a
\* request that waits. (client.py, _request and start)
THEOREM AnswersBelong == Spec => []OwnAnswer
<1>1. OwnAnswerInv => OwnAnswer
  BY DEF OwnAnswerInv
<1> QED
  BY <1>1, Invariant, PTL

-----------------------------------------------------------------------------
(***************************************************************************)
(* ResponsePages and ExactInspection: what is cut is recognised.           *)
(***************************************************************************)

\* A set of naturals that is not empty has a least element.
LEMMA LeastNatural ==
  ASSUME NEW T \in SUBSET Nat, T # {}
  PROVE  \E x \in T : \A y \in T : x <= y
  <1> DEFINE R == {ss \in Nat \X Nat : ss[1] < ss[2]}
  <1>1. IsWellFoundedOn(R, Nat)
    BY NatLessThanWellFounded DEF OpToRel
  <1>2. \A x, y \in Nat : y < x => <<y, x>> \in R
    OBVIOUS
  <1> HIDE DEF R
  <1>3. PICK x \in T : \A y \in T : ~ (<<y, x>> \in R)
    BY <1>1, WFMin
  <1>4. \A y \in T : ~ (y < x)
    BY <1>2, <1>3
  <1>5. \A y \in T : x <= y
    BY <1>4
  <1>6. QED
    BY <1>5

\* The second part of two sequences one after the other.
LEMMA SecondPart ==
  ASSUME NEW S, NEW s \in Seq(S), NEW t \in Seq(S), NEW i \in Nat, Len(s) < i, i <= Len(s) + Len(t)
  PROVE  (s \o t)[i] = t[i - Len(s)]
  OBVIOUS

\* The pages are the beginning of the details, to the end if there is no cursor.
PagesInv ==
  /\ detail \in Seq(Nat \ {0})
  /\ pages \in Seq(Nat \X Nat)
  /\ \A i \in 1..Len(pages) : pages[i] = <<i, detail[i]>>
  /\ \/ cursor = -1 /\ Len(pages) = Len(detail)
     \/ cursor = Len(pages) /\ Len(pages) <= Len(detail)

\* An artifact of details is at the beginning.
LEMMA PagesStart == PagesInit => PagesInv
  <1> SUFFICES ASSUME PagesInit PROVE PagesInv
    OBVIOUS
  <1>1. detail \in Seq(Nat \ {0})
    BY PageConstants DEF PagesInit
  <1>2. pages = <<>> /\ cursor = 0 /\ Len(pages) = 0 /\ pages \in Seq(Nat \X Nat)
    BY DEF PagesInit
  <1>3. Len(detail) \in Nat
    BY <1>1
  <1>4. QED
    BY <1>1, <1>2, <1>3 DEF PagesInv

\* A page goes on where the last one ended, with the records as they are.
LEMMA PageStep ==
  ASSUME PagesInv, NEW limit, ReadPage(limit)
  PROVE  PagesInv'
  <1>0. /\ detail \in Seq(Nat \ {0}) /\ detail' = detail /\ Len(detail) \in Nat
        /\ pages \in Seq(Nat \X Nat) /\ Len(pages) \in Nat
        /\ \A i \in 1..Len(detail) : detail[i] \in Nat
    BY DEF PagesInv, ReadPage
  <1>1. cursor = Len(pages) /\ Len(pages) <= Len(detail) /\ cursor \in Nat
    BY <1>0 DEF PagesInv, ReadPage
  <1>2. CASE cursor = Len(detail)
    BY <1>0, <1>1, <1>2 DEF ReadPage, PagesInv
  <1>3. CASE cursor # Len(detail)
    <2>1. PICK k \in PageEnd(cursor + 1, limit) :
            /\ pages' = pages \o [n \in 1..(k - cursor) |-> Stored(cursor + n)]
            /\ cursor' = IF k = Len(detail) THEN -1 ELSE k
      BY <1>3 DEF ReadPage
    <2>2. k \in (cursor + 1)..Len(detail)
      BY DEF PageEnd
    <2>3. k \in Nat /\ cursor < k /\ k <= Len(detail) /\ k - cursor \in Nat
      BY <1>0, <1>1, <2>2
    <2> DEFINE more == [n \in 1..(k - cursor) |-> Stored(cursor + n)]
    <2>4. \A n \in 1..(k - cursor) : Stored(cursor + n) = <<cursor + n, detail[cursor + n]>>
      BY DEF Stored, ReadPage, Opens
    <2>5. \A n \in 1..(k - cursor) : cursor + n \in Nat /\ cursor + n \in 1..Len(detail)
      BY <1>0, <1>1, <2>3
    <2>6. ASSUME NEW n \in 1..(k - cursor) PROVE Stored(cursor + n) \in Nat \X Nat
      <3>1. cursor + n \in Nat /\ detail[cursor + n] \in Nat
        BY <1>0, <2>5
      <3>3. <<cursor + n, detail[cursor + n]>> \in Nat \X Nat
        BY <3>1
      <3> HIDE DEF more
      <3>2. QED
        BY <2>4, <3>3, Zenon
    <2>7. more \in Seq(Nat \X Nat) /\ Len(more) = k - cursor
      <3>1. more \in [1..(k - cursor) -> Nat \X Nat]
        BY <2>6
      <3> HIDE DEF more
      <3>2. QED
        BY <2>3, <3>1
    <2>8. \A n \in 1..(k - cursor) : more[n] = <<cursor + n, detail[cursor + n]>>
      BY <2>4
    <2> HIDE DEF more
    <2>9. pages' = pages \o more
      BY <2>1 DEF more
    <2>10. pages' \in Seq(Nat \X Nat) /\ Len(pages') = k
      BY <1>0, <1>1, <2>3, <2>7, <2>9
    <2>11. ASSUME NEW i \in 1..k PROVE pages'[i] = <<i, detail[i]>>
      <3>1. CASE i <= cursor
        <4>1. i \in 1..Len(pages) /\ pages'[i] = pages[i]
          BY <1>0, <1>1, <2>3, <2>7, <2>9, <3>1
        <4>2. QED
          BY <4>1 DEF PagesInv
      <3>2. CASE ~ (i <= cursor)
        <4>1. i - cursor \in 1..(k - cursor) /\ cursor + (i - cursor) = i
          BY <1>1, <2>3, <3>2
        <4>2. i \in Nat /\ Len(pages) < i /\ i <= Len(pages) + Len(more)
          BY <1>0, <1>1, <2>3, <2>7, <3>2
        <4>4. pages'[i] = more[i - Len(pages)]
          BY <1>0, <2>7, <2>9, <4>2, SecondPart
        <4>3. QED
          BY <1>1, <2>8, <4>1, <4>4
      <3>3. QED
        BY <3>1, <3>2
    <2>12. (cursor' = -1 /\ k = Len(detail)) \/ cursor' = k
      BY <2>1
    <2>13. QED
      BY <1>0, <2>3, <2>10, <2>11, <2>12 DEF PagesInv
  <1>4. QED
    BY <1>2, <1>3

\* Every step of the store and of the reader.
LEMMA PagesSteps == PagesInv /\ [PagesNext]_pageVars => PagesInv'
  <1> SUFFICES ASSUME PagesInv, [PagesNext]_pageVars PROVE PagesInv'
    OBVIOUS
  <1>1. CASE UNCHANGED <<detail, cursor, pages>>
    BY <1>1 DEF PagesInv
  <1>2. CASE \E limit \in PageLimits : ReadPage(limit)
    BY <1>2, PageStep
  <1>3. QED
    BY <1>1, <1>2 DEF PagesNext, WriteRecords, ArtifactDamaged, ArtifactDeleted, pageVars

\* Which is what the reader is promised.
LEMMA PagesWholeHolds == PagesInv => PagesWhole
  <1> SUFFICES ASSUME PagesInv PROVE PagesWhole
    OBVIOUS
  <1>1. Len(pages) \in Nat
    BY DEF PagesInv
  <1>2. QED
    BY <1>1 DEF PagesInv, PagesWhole

ScanPhases == {"list", "stat", "hash", "paks", "done"}

ScanFields == {"phase", "maxFiles", "maxBytes", "maxEntries", "withOrder", "todo", "records", "hashes", "members", "open",
               "opened", "bytes", "entries", "complete", "breach", "limits"}

\* A function, whatever its domain.
IsMap(h) == h = [f \in DOMAIN h |-> h[f]]

\* What was hashed is what was recorded.
HashesAgree(s) == \A f \in DOMAIN s.hashes : f \in DOMAIN s.records /\ s.hashes[f] = s.records[f]

\* What a scan has recorded and hashed in each of its phases.
ScanHolds(s) ==
  /\ DOMAIN s = ScanFields /\ IsMap(s) /\ s.phase \in ScanPhases
  /\ s.todo \subseteq ModFiles /\ DOMAIN s.records \subseteq ModFiles
  /\ IsMap(s.records) /\ IsMap(s.hashes) /\ HashesAgree(s)
  /\ s.phase \in {"list", "stat"} => s.hashes = <<>>
  /\ s.phase \in {"list", "stat", "hash"} => s.members = <<>>
  /\ s.phase = "hash" => DOMAIN s.records \subseteq DOMAIN s.hashes \cup s.todo
  /\ s.phase = "hash" => s.todo \subseteq DOMAIN s.records
  /\ s.open # 0 => s.phase = "hash" /\ s.open \in s.todo
  /\ s.phase = "paks" => s.hashes = s.records
  /\ s.phase = "done" /\ s.complete => s.hashes = s.records
  /\ s.members # <<>> => s.hashes = s.records

\* The first of the files that are left is one of them.
LEMMA FirstIsOne ==
  ASSUME NEW S \in SUBSET Nat, S # {}
  PROVE  First(S) \in S
  <1>1. \E x \in S : \A y \in S : x <= y
    BY LeastNatural
  <1>2. QED
    BY <1>1, Zenon DEF First

\* A scan that ends early is not complete; it keeps what it has.
LEMMA EndedEarly ==
  ASSUME NEW s, ScanHolds(s), NEW t,
         DOMAIN t = ScanFields, IsMap(t), t.phase = "done", t.complete = FALSE, t.open = 0, t.todo = s.todo,
         t.records = s.records, t.hashes = s.hashes, t.members = s.members
  PROVE  ScanHolds(t)
  BY DEF ScanHolds, ScanPhases, HashesAgree

\* However a scan ends early.
LEMMA FailedEnds ==
  ASSUME NEW s, ScanHolds(s), NEW name
  PROVE  /\ ScanHolds(Failed(s)) /\ ScanHolds(Breach(s)) /\ ScanHolds(Limit(s, name))
         /\ ScanHolds(Breach([s EXCEPT !.bytes = @ + 1])) /\ ScanHolds(Limit([s EXCEPT !.bytes = @ + 1], name))
  <1>1. DOMAIN s = ScanFields /\ IsMap(s)
    BY DEF ScanHolds
  <1> DEFINE F == Failed(s)
             B == Breach(s)
             L == Limit(s, name)
             C == Breach([s EXCEPT !.bytes = @ + 1])
             D == Limit([s EXCEPT !.bytes = @ + 1], name)
  <1>2. ScanHolds(F)
    <2>1. /\ DOMAIN F = ScanFields /\ IsMap(F) /\ F.phase = "done" /\ F.complete = FALSE /\ F.open = 0 /\ F.todo = s.todo
          /\ F.records = s.records /\ F.hashes = s.hashes /\ F.members = s.members
      BY <1>1 DEF Failed, IsMap, ScanFields
    <2> HIDE DEF F
    <2>2. QED
      BY <2>1, EndedEarly
  <1>3. ScanHolds(B)
    <2>1. /\ DOMAIN B = ScanFields /\ IsMap(B) /\ B.phase = "done" /\ B.complete = FALSE /\ B.open = 0 /\ B.todo = s.todo
          /\ B.records = s.records /\ B.hashes = s.hashes /\ B.members = s.members
      BY <1>1 DEF Breach, Failed, IsMap, ScanFields
    <2> HIDE DEF B
    <2>2. QED
      BY <2>1, EndedEarly
  <1>4. ScanHolds(L)
    <2>1. /\ DOMAIN L = ScanFields /\ IsMap(L) /\ L.phase = "done" /\ L.complete = FALSE /\ L.open = 0 /\ L.todo = s.todo
          /\ L.records = s.records /\ L.hashes = s.hashes /\ L.members = s.members
      BY <1>1 DEF Limit, Failed, IsMap, ScanFields
    <2> HIDE DEF L
    <2>2. QED
      BY <2>1, EndedEarly
  <1>5. ScanHolds(C)
    <2>1. /\ DOMAIN C = ScanFields /\ IsMap(C) /\ C.phase = "done" /\ C.complete = FALSE /\ C.open = 0 /\ C.todo = s.todo
          /\ C.records = s.records /\ C.hashes = s.hashes /\ C.members = s.members
      BY <1>1 DEF Breach, Failed, IsMap, ScanFields
    <2> HIDE DEF C
    <2>2. QED
      BY <2>1, EndedEarly
  <1>6. ScanHolds(D)
    <2>1. /\ DOMAIN D = ScanFields /\ IsMap(D) /\ D.phase = "done" /\ D.complete = FALSE /\ D.open = 0 /\ D.todo = s.todo
          /\ D.records = s.records /\ D.hashes = s.hashes /\ D.members = s.members
      BY <1>1 DEF Limit, Failed, IsMap, ScanFields
    <2> HIDE DEF D
    <2>2. QED
      BY <2>1, EndedEarly
  <1>7. QED
    BY <1>2, <1>3, <1>4, <1>5, <1>6

\* A new scan has recorded nothing.
LEMMA ScanStart == InspectInit => ScanHolds(scan)
  <1> SUFFICES ASSUME InspectInit PROVE ScanHolds(scan)
    OBVIOUS
  <1>1. PICK f, b, e, o : scan = NewScan(f, b, e, o)
    BY DEF InspectInit
  <1>2. /\ DOMAIN scan = ScanFields /\ IsMap(scan) /\ scan.phase = "list" /\ scan.todo = {}
        /\ scan.records = <<>> /\ scan.hashes = <<>> /\ scan.members = <<>> /\ scan.open = 0
    BY <1>1 DEF NewScan, ScanFields, IsMap
  <1>3. DOMAIN <<>> = {} /\ IsMap(<<>>)
    BY DEF IsMap
  <1>4. QED
    BY <1>2, <1>3 DEF ScanHolds, ScanPhases, HashesAgree

\* Names are listed before anything is recorded.
LEMMA Listing ==
  ASSUME ScanHolds(scan), ListFolder
  PROVE  ScanHolds(scan')
  <1>1. DOMAIN scan = ScanFields /\ IsMap(scan) /\ scan.phase = "list"
    BY DEF ScanHolds, ListFolder
  <1> DEFINE listed == {f \in ModFiles : folder[f] # Missing}
  <1>2. listed \subseteq ModFiles
    OBVIOUS
  <1>3. scan' = [scan EXCEPT !.phase = "stat", !.todo = listed]
    BY DEF ListFolder
  <1> HIDE DEF listed
  <1>4. /\ DOMAIN scan' = ScanFields /\ IsMap(scan') /\ scan'.phase = "stat" /\ scan'.todo = listed
        /\ scan'.records = scan.records /\ scan'.hashes = scan.hashes /\ scan'.members = scan.members /\ scan'.open = scan.open
    BY <1>1, <1>3 DEF IsMap, ScanFields
  <1>5. QED
    BY <1>1, <1>2, <1>4 DEF ScanHolds, ScanPhases, HashesAgree

\* An entry is recorded, or ends the scan.
LEMMA Stating ==
  ASSUME ScanHolds(scan), StatEntry
  PROVE  ScanHolds(scan')
  <1> DEFINE f == First(scan.todo)
             version == folder[f].version
             more == Noted(scan.records, f, version)
  <1>1. /\ DOMAIN scan = ScanFields /\ IsMap(scan) /\ scan.phase = "stat" /\ scan.todo \subseteq ModFiles /\ scan.todo # {}
        /\ scan.hashes = <<>> /\ scan.members = <<>> /\ DOMAIN scan.records \subseteq ModFiles
    BY DEF ScanHolds, StatEntry
  <1>2. f \in scan.todo
    BY <1>1, InspectionAssumption, FirstIsOne
  <1>3. DOMAIN more = {f} \cup DOMAIN scan.records /\ IsMap(more)
    <2> HIDE DEF f, version
    <2>1. QED
      BY DEF Noted, IsMap
  <1>4. \/ scan' = Failed(scan) \/ scan' = Breach(scan) \/ scan' = Limit(scan, "files")
        \/ scan' = [scan EXCEPT !.todo = @ \ {f}, !.records = more]
    BY DEF StatEntry
  <1> HIDE DEF more, f
  <1>5. CASE scan' = [scan EXCEPT !.todo = @ \ {f}, !.records = more]
    <2>1. /\ DOMAIN scan' = ScanFields /\ IsMap(scan') /\ scan'.phase = "stat" /\ scan'.todo = scan.todo \ {f}
          /\ scan'.records = more /\ scan'.hashes = <<>> /\ scan'.members = <<>> /\ scan'.open = scan.open
      BY <1>1, <1>5 DEF IsMap, ScanFields
    <2>2. DOMAIN <<>> = {} /\ IsMap(<<>>)
      BY DEF IsMap
    <2>3. QED
      BY <1>1, <1>2, <1>3, <2>1, <2>2 DEF ScanHolds, ScanPhases, HashesAgree
  <1>6. QED
    BY <1>4, <1>5, FailedEnds

\* What is to be hashed is what was recorded.
LEMMA Enumerating ==
  ASSUME ScanHolds(scan), Enumerated
  PROVE  ScanHolds(scan')
  <1>1. DOMAIN scan = ScanFields /\ IsMap(scan) /\ scan.phase = "stat" /\ scan.hashes = <<>> /\ scan.members = <<>>
    BY DEF ScanHolds, Enumerated
  <1>2. /\ DOMAIN scan' = ScanFields /\ IsMap(scan') /\ scan'.phase = "hash" /\ scan'.todo = DOMAIN scan.records
        /\ scan'.records = scan.records /\ scan'.hashes = <<>> /\ scan'.members = <<>> /\ scan'.open = scan.open
    BY <1>1 DEF IsMap, ScanFields, Enumerated
  <1>3. DOMAIN <<>> = {} /\ IsMap(<<>>)
    BY DEF IsMap
  <1>4. QED
    BY <1>1, <1>2, <1>3 DEF ScanHolds, ScanPhases, HashesAgree

\* A file is opened only to be hashed, and only if it is still what was recorded.
LEMMA Opening ==
  ASSUME ScanHolds(scan), OpenToHash
  PROVE  ScanHolds(scan')
  <1> DEFINE f == First(scan.todo)
  <1>1. /\ DOMAIN scan = ScanFields /\ IsMap(scan) /\ scan.phase = "hash" /\ scan.todo \subseteq ModFiles /\ scan.todo # {}
    BY DEF ScanHolds, OpenToHash
  <1>2. f \in scan.todo
    BY <1>1, InspectionAssumption, FirstIsOne
  <1>4. \/ scan' = Breach(scan) \/ scan' = Limit(scan, "physical_bytes")
        \/ scan' = [scan EXCEPT !.open = f, !.opened = @ + 1]
    BY DEF OpenToHash
  <1> HIDE DEF f
  <1>5. CASE scan' = [scan EXCEPT !.open = f, !.opened = @ + 1]
    <2>1. /\ DOMAIN scan' = ScanFields /\ IsMap(scan') /\ scan'.phase = "hash" /\ scan'.todo = scan.todo
          /\ scan'.records = scan.records /\ scan'.hashes = scan.hashes /\ scan'.members = scan.members /\ scan'.open = f
      BY <1>1, <1>5 DEF IsMap, ScanFields
    <2>2. QED
      BY <1>1, <1>2, <2>1 DEF ScanHolds, ScanPhases, HashesAgree
  <1>6. QED
    BY <1>4, <1>5, FailedEnds

\* What is hashed is what was recorded: another file in its place is a breach.
LEMMA Closing ==
  ASSUME ScanHolds(scan), CloseHashed
  PROVE  ScanHolds(scan')
  <1> DEFINE f == scan.open
             read == IF folder[f].kind = "file" THEN folder[f].version ELSE scan.records[f]
             more == Noted(scan.hashes, f, read)
  <1>1. /\ DOMAIN scan = ScanFields /\ IsMap(scan) /\ scan.phase = "hash" /\ scan.todo \subseteq ModFiles
        /\ f \in scan.todo /\ f \in DOMAIN scan.records /\ scan.members = <<>>
    BY DEF ScanHolds, CloseHashed
  <1>2. CASE folder[f].kind = "file" /\ ~SameIdentity(f)
    <2>1. scan' = Breach([scan EXCEPT !.bytes = @ + 1])
      BY <1>2 DEF CloseHashed
    <2>2. QED
      BY <2>1, FailedEnds
  <1>3. CASE ~(folder[f].kind = "file" /\ ~SameIdentity(f))
    <2>1. read = scan.records[f]
      <3>1. CASE folder[f].kind = "file"
        <4>1. folder[f] = File(scan.records[f])
          BY <1>3, <3>1 DEF SameIdentity
        <4>2. QED
          BY <3>1, <4>1 DEF File
      <3>2. QED
        BY <3>1
    <2>2. /\ DOMAIN more = {f} \cup DOMAIN scan.hashes /\ more[f] = read
          /\ \A g \in DOMAIN scan.hashes : g # f => more[g] = scan.hashes[g]
          /\ IsMap(more)
      <3> HIDE DEF f, read
      <3>1. QED
        BY DEF Noted, IsMap
    <2>3. scan' = [scan EXCEPT !.todo = @ \ {f}, !.open = 0, !.bytes = @ + 1, !.hashes = more]
      BY <1>3 DEF CloseHashed
    <2> HIDE DEF more, read, f
    <2>4. /\ DOMAIN scan' = ScanFields /\ IsMap(scan') /\ scan'.phase = "hash" /\ scan'.todo = scan.todo \ {f}
          /\ scan'.records = scan.records /\ scan'.hashes = more /\ scan'.members = <<>> /\ scan'.open = 0
      BY <1>1, <2>3 DEF IsMap, ScanFields
    <2>5. \A g \in DOMAIN more : g \in DOMAIN scan.records /\ more[g] = scan.records[g]
      BY <1>1, <2>1, <2>2 DEF ScanHolds, HashesAgree
    <2>6. DOMAIN scan.records \subseteq DOMAIN more \cup (scan.todo \ {f})
      BY <1>1, <2>2 DEF ScanHolds
    <2>7. scan.todo \subseteq DOMAIN scan.records /\ DOMAIN scan.records \subseteq ModFiles /\ IsMap(scan.records)
      BY <1>1 DEF ScanHolds
    <2>8. QED
      BY <1>1, <2>2, <2>4, <2>5, <2>6, <2>7 DEF ScanHolds, ScanPhases, HashesAgree
  <1>4. QED
    BY <1>2, <1>3

\* When nothing is left to hash, everything that was recorded is hashed.
LEMMA Hashing ==
  ASSUME ScanHolds(scan), Hashed
  PROVE  ScanHolds(scan')
  <1>1. /\ DOMAIN scan = ScanFields /\ IsMap(scan) /\ scan.phase = "hash" /\ scan.todo = {} /\ scan.open = 0
        /\ scan.members = <<>> /\ IsMap(scan.records) /\ IsMap(scan.hashes) /\ DOMAIN scan.records \subseteq ModFiles
    BY DEF ScanHolds, Hashed
  <1>2. DOMAIN scan.hashes = DOMAIN scan.records /\ \A f \in DOMAIN scan.records : scan.hashes[f] = scan.records[f]
    BY <1>1 DEF ScanHolds, HashesAgree
  <1>3. scan.hashes = scan.records
    BY <1>1, <1>2 DEF IsMap
  <1>4. /\ DOMAIN scan' = ScanFields /\ IsMap(scan') /\ scan'.phase = "paks" /\ scan'.todo = DOMAIN scan.records \cap ModPaks
        /\ scan'.records = scan.records /\ scan'.hashes = scan.hashes /\ scan'.members = <<>> /\ scan'.open = 0
    BY <1>1 DEF IsMap, ScanFields, Hashed
  <1>5. QED
    BY <1>1, <1>3, <1>4 DEF ScanHolds, ScanPhases, HashesAgree

\* A look into a package follows the hashes of every file.
LEMMA Looking ==
  ASSUME ScanHolds(scan), LookIntoPak
  PROVE  ScanHolds(scan')
  <1> DEFINE f == First(scan.todo)
             more == Noted(scan.members, f, folder[f].version)
  <1>1. /\ DOMAIN scan = ScanFields /\ IsMap(scan) /\ scan.phase = "paks" /\ scan.hashes = scan.records /\ scan.open = 0
    BY DEF ScanHolds, LookIntoPak
  <1>2. \/ scan' = Limit(scan, "physical_bytes") \/ scan' = Limit([scan EXCEPT !.bytes = @ + 1], "archive_entries")
        \/ scan' = [scan EXCEPT !.todo = @ \ {f}]
        \/ scan' = [scan EXCEPT !.todo = @ \ {f}, !.bytes = @ + 1, !.entries = @ + 1, !.members = more]
    BY DEF LookIntoPak
  <1> HIDE DEF more, f
  <1>3. ASSUME \/ scan' = [scan EXCEPT !.todo = @ \ {f}]
               \/ scan' = [scan EXCEPT !.todo = @ \ {f}, !.bytes = @ + 1, !.entries = @ + 1, !.members = more]
        PROVE  ScanHolds(scan')
    <2>1. /\ DOMAIN scan' = ScanFields /\ IsMap(scan') /\ scan'.phase = "paks" /\ scan'.todo = scan.todo \ {f}
          /\ scan'.records = scan.records /\ scan'.hashes = scan.hashes /\ scan'.open = 0
      BY <1>1, <1>3 DEF IsMap, ScanFields
    <2>2. QED
      BY <1>1, <2>1 DEF ScanHolds, ScanPhases, HashesAgree
  <1>4. QED
    BY <1>2, <1>3, FailedEnds

\* A scan that is complete has hashed what it recorded.
LEMMA Finishing ==
  ASSUME ScanHolds(scan), FinishScan
  PROVE  ScanHolds(scan')
  <1>1. /\ DOMAIN scan = ScanFields /\ IsMap(scan) /\ scan.phase = "paks" /\ scan.hashes = scan.records /\ scan.open = 0
    BY DEF ScanHolds, FinishScan
  <1>2. \/ scan' = Limit(scan, "physical_bytes") \/ scan' = [scan EXCEPT !.phase = "done"]
        \/ scan' = [scan EXCEPT !.phase = "done", !.bytes = @ + 1, !.opened = @ + 1]
    BY DEF FinishScan
  <1>3. ASSUME \/ scan' = [scan EXCEPT !.phase = "done"]
               \/ scan' = [scan EXCEPT !.phase = "done", !.bytes = @ + 1, !.opened = @ + 1]
        PROVE  ScanHolds(scan')
    <2>1. /\ DOMAIN scan' = ScanFields /\ IsMap(scan') /\ scan'.phase = "done" /\ scan'.todo = scan.todo
          /\ scan'.records = scan.records /\ scan'.hashes = scan.hashes /\ scan'.open = 0
      BY <1>1, <1>3 DEF IsMap, ScanFields
    <2>2. QED
      BY <1>1, <2>1 DEF ScanHolds, ScanPhases, HashesAgree
  <1>4. CASE scan' = Limit(scan, "physical_bytes")
    BY <1>4, FailedEnds, Zenon
  <1>5. QED
    BY <1>2, <1>3, <1>4

\* Every step of the scan and of the program that edits the folder.
LEMMA ScanSteps == ScanHolds(scan) /\ [InspectNext]_inspectVars => ScanHolds(scan')
  <1> SUFFICES ASSUME ScanHolds(scan), [InspectNext]_inspectVars PROVE ScanHolds(scan')
    OBVIOUS
  <1>1. CASE UNCHANGED inspectVars \/ EditFolder
    <2>1. scan' = scan
      BY <1>1 DEF inspectVars, EditFolder
    <2>2. QED
      BY <2>1
  <1>2. CASE InspectNext /\ ~EditFolder
    BY <1>2, Listing, Stating, Enumerating, Opening, Closing, Hashing, Looking, Finishing DEF InspectNext
  <1>3. QED
    BY <1>1, <1>2

\* A receipt in order is that of a complete scan.
LEMMA ScanIsWhole == ScanHolds(scan) => InventoryAsEnumerated /\ CutInventoryComplete
  <1> SUFFICES ASSUME ScanHolds(scan) PROVE InventoryAsEnumerated /\ CutInventoryComplete
    OBVIOUS
  <1>1. ASSUME ScopeStatus(scan) = "TARGET_SCOPE_OK" PROVE scan.complete
    BY <1>1 DEF ScopeStatus
  <1>2. QED
    BY <1>1 DEF ScanHolds, InventoryAsEnumerated, CutInventoryComplete

\* However a page is bounded, whatever befalls its file and whoever edits the
\* folder that is inspected, an answer that is cut or paged is recognised as such,
\* for any details, files and limits.
THEOREM CutsStayRecognised == PagesSpec /\ InspectSpec => []CutsRecognised
  <1>1. PagesSpec => []PagesInv
    BY PagesStart, PagesSteps, PTL DEF PagesSpec
  <1> DEFINE ScanInv == ScanHolds(scan)
  <1>2. ScanInv /\ [InspectNext]_inspectVars => ScanInv'
    BY ScanSteps
  <1>3. InspectInit => ScanInv
    BY ScanStart
  <1>4. InspectSpec => []ScanInv
    <2> HIDE DEF ScanInv
    <2>1. QED
      BY <1>2, <1>3, PTL DEF InspectSpec
  <1>5. PagesInv /\ ScanInv => CutsRecognised
    BY PagesWholeHolds, ScanIsWhole DEF CutsRecognised
  <1>6. QED
    BY <1>1, <1>4, <1>5, PTL
=============================================================================

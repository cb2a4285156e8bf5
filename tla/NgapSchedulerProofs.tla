------------------------- MODULE NgapSchedulerProofs -------------------------
(***************************************************************************)
(* Proofs of the order in which the worker pool handles messages, of what  *)
(* a worker drains and of the mapping of associations to workers: for any  *)
(* number of associations, UEs, workers and messages, any queue length and *)
(* any number of handlers that panic.                                      *)
(***************************************************************************)
EXTENDS NgapScheduler, TLAPS

\* Leaves go to Zenon; those with arithmetic or sequences cite SMT.
USE Zenon

WorkerState == [loop : {"run", "drain", "exited", "panicked"}, task : Task \cup {NoTask}]

\* The task of the i-th message of an association.
TaskOf(c, i) == <<c, i>>

Types ==
    /\ conn \in [Conn -> {"none", "accepted", "open", "closed", "released"}]
    /\ dGNBLatched \in BOOLEAN
    /\ connToWorker \in [Conn -> Worker \cup {NoWorker}] /\ nextWorker \in Worker
    /\ log \in [Conn -> Seq(Entry)] /\ \A c \in Conn : Len(log[c]) <= MaxMsgs
    /\ taskChan \in [Worker -> Seq(Task)] /\ worker \in [Worker -> WorkerState]
    /\ lastID \in Nat /\ amfUeID \in [Conn \X RanUeID -> Nat]

\* The key of a message determines its worker: a hashed message by its ID, a
\* pinned one by its association, which stays pinned while its reader runs.
KeyedWorker ==
    \A c \in Conn :
        /\ \A i \in Index(c) : ~log[c][i].pinned => log[c][i].worker = hashUEID(log[c][i].id)
        /\ \A i, j \in Index(c) :
             log[c][i].pinned /\ log[c][j].pinned => log[c][i].worker = log[c][j].worker
        /\ \A i \in Index(c) : log[c][i].pinned /\ conn[c] = "open" => connToWorker[c] # NoWorker
        /\ \A i \in Index(c) : conn[c] \in {"open", "closed", "released"}

\* The task of message i of association c is in the queue of w, or w handles it.
InQueue(w, c, i) == \E k \in 1 .. Len(taskChan[w]) : taskChan[w][k] = TaskOf(c, i)
Runs(w, c, i) == worker[w].task = TaskOf(c, i)
At(c, i, w, place) == i \in Index(c) /\ log[c][i].place = place /\ log[c][i].worker = w

\* The log and the workers agree on where a message is.
Located ==
    \A w \in Worker, c \in Conn, i \in 1 .. MaxMsgs :
        (InQueue(w, c, i) <=> At(c, i, w, "queued")) /\ (Runs(w, c, i) <=> At(c, i, w, "running"))

\* Only the last message of an association is still to be submitted.
RoutedLast ==
    \A c \in Conn : \A i \in Index(c) : log[c][i].place = "routed" => i = Len(log[c])

\* A queue holds the messages of an association in the order they were read.
QueueOrder ==
    \A w \in Worker, c \in Conn, i, j \in 1 .. MaxMsgs : \A k, l \in 1 .. Len(taskChan[w]) :
        k < l /\ taskChan[w][k] = TaskOf(c, i) /\ taskChan[w][l] = TaskOf(c, j) => i < j

\* A worker with a task is in its loop.
Busy == \A w \in Worker : worker[w].task # NoTask => worker[w].loop \in {"run", "drain"}

\* One worker handles the messages of an association in the order they were read.
WorkerOrder ==
    \A c \in Conn : \A i, j \in Index(c) :
        i < j /\ log[c][i].worker = log[c][j].worker
              /\ log[c][j].place \in {"running", "done"} => Over(log[c][i])

\* A worker that drains or has exited saw its stopChan closed.
DrainsStopped == \A w \in Worker : worker[w].loop \in {"drain", "exited"} => w \in stopped

\* What a worker that has exited leaves in its queue came late.
LateOnly ==
    \A w \in Worker, c \in Conn, i \in 1 .. MaxMsgs :
        worker[w].loop = "exited" /\ InQueue(w, c, i) => log[c][i].late

IInv == /\ Types /\ KeyedWorker /\ Located /\ RoutedLast /\ QueueOrder /\ Busy
        /\ WorkerOrder /\ DrainsStopped /\ LateOnly /\ MappingSound

-----------------------------------------------------------------------------

\* What the proofs use of sequences.
LEMMA Empties ==
    ASSUME NEW S
    PROVE  /\ <<>> \in Seq(S) /\ Len(<<>>) = 0
           /\ \A s \in Seq(S) : s # <<>> => Len(s) \in Nat \ {0}
  BY SMT

\* A sequence is a function on the numbers up to its length.
LEMMA Lengths ==
    ASSUME NEW S, NEW s \in Seq(S)
    PROVE  Len(s) \in Nat /\ DOMAIN s = 1 .. Len(s) /\ \A i \in 1 .. Len(s) : s[i] \in S
  BY SMT

\* Append adds one element at the end.
LEMMA Appends ==
    ASSUME NEW S, NEW s \in Seq(S), NEW e \in S
    PROVE  /\ Append(s, e) \in Seq(S) /\ Len(Append(s, e)) = Len(s) + 1
           /\ \A i \in 1 .. Len(s) : Append(s, e)[i] = s[i]
           /\ Append(s, e)[Len(s) + 1] = e
  BY SMT

\* Tail drops the first element and shifts the others.
LEMMA Tails ==
    ASSUME NEW S, NEW s \in Seq(S), s # <<>>
    PROVE  /\ Head(s) \in S /\ Tail(s) \in Seq(S) /\ Len(Tail(s)) = Len(s) - 1
           /\ \A i \in 1 .. Len(Tail(s)) : Tail(s)[i] = s[i + 1]
  BY SMT

\* Replacing an element keeps the length and the other elements.
LEMMA Excepts ==
    ASSUME NEW S, NEW s \in Seq(S), NEW n \in 1 .. Len(s), NEW e \in S
    PROVE  /\ [s EXCEPT ![n] = e] \in Seq(S) /\ Len([s EXCEPT ![n] = e]) = Len(s)
           /\ \A i \in 1 .. Len(s) : [s EXCEPT ![n] = e][i] = IF i = n THEN e ELSE s[i]
  BY SMT

\* There is a worker, and NoWorker is none.
LEMMA Workers ==
    /\ NumWorkers \in Nat /\ NumWorkers > 0 /\ 0 \in Worker /\ Worker \subseteq Nat
    /\ NoWorker \notin Worker /\ \A n \in Nat : n % NumWorkers \in Worker
  BY SchedulerAssumption, SMT DEF Worker, NoWorker

\* A task is a pair ...
LEMMA Pairs ==
    /\ \A t \in Task : \E c \in Conn, i \in 1 .. MaxMsgs : t = TaskOf(c, i)
    /\ \A c \in Conn, i \in 1 .. MaxMsgs : TaskOf(c, i) \in Task
  BY SMT DEF Task, TaskOf

\* ... whose components determine it, and it is not NoTask.
LEMMA Components == \A c, i : TaskOf(c, i)[1] = c /\ TaskOf(c, i)[2] = i
  BY DEF TaskOf

\* A task names its association and its message.
LEMMA SameTask == \A c, i, d, j : TaskOf(c, i) = TaskOf(d, j) => c = d /\ i = j
  BY DEF TaskOf

\* The task of a message is not the mark of an idle worker.
LEMMA SomeTask == \A c, i : TaskOf(c, i) # NoTask
  BY DEF TaskOf, NoTask

\* An entry of the log, and the bounds of its index.
LEMMA LogEntry ==
    ASSUME Types, NEW c \in Conn
    PROVE  /\ log[c] \in Seq(Entry) /\ Len(log[c]) \in Nat
           /\ \A i \in Index(c) : /\ i \in 1 .. MaxMsgs /\ i <= Len(log[c]) /\ log[c][i] \in Entry
                                  /\ log[c][i].worker \in Worker
  <1>1. log[c] \in Seq(Entry)
    BY DEF Types
  <1>2. Len(log[c]) \in Nat /\ Len(log[c]) <= MaxMsgs /\ MaxMsgs \in Nat
    BY <1>1, Lengths, SchedulerAssumption DEF Types
  <1>3. \A i \in Index(c) : log[c][i] \in Entry
    BY <1>1, Lengths DEF Index
  <1> QED
    BY <1>1, <1>2, <1>3, SMT DEF Index, Entry

\* A queued job.
LEMMA QueueEntry ==
    ASSUME Types, NEW w \in Worker
    PROVE  /\ taskChan[w] \in Seq(Task) /\ Len(taskChan[w]) \in Nat
           /\ \A k \in 1 .. Len(taskChan[w]) : taskChan[w][k] \in Task
  <1>1. taskChan[w] \in Seq(Task)
    BY DEF Types
  <1> QED
    BY <1>1, Lengths

\* A message that is taken, handled or refused keeps its routing.
SameRouting ==
    /\ log' \in [Conn -> Seq(Entry)]
    /\ \A c \in Conn : Len(log'[c]) = Len(log[c])
    /\ \A c \in Conn : \A i \in Index(c) :
         /\ log'[c][i].worker = log[c][i].worker /\ log'[c][i].pinned = log[c][i].pinned
         /\ log'[c][i].id = log[c][i].id

\* Then keys and workers still agree.
LEMMA RoutingKept ==
    ASSUME Types, KeyedWorker, MappingSound, SameRouting, UNCHANGED <<conn, connToWorker>>
    PROVE  KeyedWorker' /\ MappingSound'
  <1>1. \A c \in Conn : Index(c)' = Index(c)
    BY DEF SameRouting, Index
  <1>2. KeyedWorker'
    BY <1>1, SMTT(30) DEF KeyedWorker, SameRouting, hashUEID
  <1>3. MappingSound'
    BY <1>1, SMT DEF MappingSound, SameRouting
  <1> QED
    BY <1>2, <1>3

\* A step that leaves the log and the mapping alone keeps routing keys and mapping.
LEMMA SameLog ==
    ASSUME IInv, log' = log, UNCHANGED <<conn, connToWorker>>
    PROVE  KeyedWorker' /\ MappingSound'
  <1>1. SameRouting
    BY DEF IInv, Types, SameRouting
  <1> QED
    BY <1>1, RoutingKept DEF IInv

\* A step that leaves the queues alone keeps their order.
LEMMA SameQueues ==
    ASSUME IInv, taskChan' = taskChan
    PROVE  QueueOrder'
  <1> SUFFICES ASSUME NEW w \in Worker, NEW c \in Conn, NEW i \in 1 .. MaxMsgs, NEW j \in 1 .. MaxMsgs,
                      NEW k \in 1 .. Len(taskChan'[w]), NEW l \in 1 .. Len(taskChan'[w]), k < l,
                      taskChan'[w][k] = TaskOf(c, i), taskChan'[w][l] = TaskOf(c, j)
               PROVE  i < j
    BY ZenonT(120) DEF QueueOrder
  <1> QED
    BY DEF IInv, QueueOrder

\* What concerns the queues and the workers stays true while log, queues and
\* workers stay as they are.
LEMMA QueuesKept ==
    ASSUME IInv, UNCHANGED <<log, taskChan, worker>>, stopped \subseteq stopped'
    PROVE  /\ Located' /\ RoutedLast' /\ QueueOrder' /\ Busy'
           /\ WorkerOrder' /\ DrainsStopped' /\ LateOnly'
  <1>1. log' = log /\ taskChan' = taskChan /\ worker' = worker
    OBVIOUS
  <1>2. \A w, c, i : InQueue(w, c, i)' = InQueue(w, c, i)
    BY <1>1 DEF InQueue
  <1>3. \A w, c, i, p : Runs(w, c, i)' = Runs(w, c, i) /\ At(c, i, w, p)' = At(c, i, w, p)
    BY <1>1, ZenonT(60) DEF Runs, At, Index
  <1>4. Located'
    <2> SUFFICES ASSUME NEW w \in Worker, NEW c \in Conn, NEW i \in 1 .. MaxMsgs
                 PROVE  /\ InQueue(w, c, i)' <=> At(c, i, w, "queued")'
                        /\ Runs(w, c, i)' <=> At(c, i, w, "running")'
      BY DEF Located
    <2>1. (InQueue(w, c, i) <=> At(c, i, w, "queued")) /\ (Runs(w, c, i) <=> At(c, i, w, "running"))
      BY DEF IInv, Located
    <2> QED
      BY <1>2, <1>3, <2>1
  <1>5. RoutedLast' /\ Busy' /\ WorkerOrder'
    BY <1>1 DEF IInv, RoutedLast, Busy, WorkerOrder, Over, Index
  <1>6. QueueOrder'
    BY <1>1, SameQueues
  <1>7. LateOnly'
    BY <1>1, <1>2 DEF IInv, LateOnly
  <1>8. DrainsStopped'
    BY <1>1 DEF IInv, DrainsStopped
  <1> QED
    BY <1>4, <1>5, <1>6, <1>7, <1>8

\* The initial state satisfies the invariant.
LEMMA InitIInv == Init => IInv
  <1> SUFFICES ASSUME Init PROVE IInv
    OBVIOUS
  <1>1. \A c \in Conn : log[c] = <<>> /\ Index(c) = {}
    BY Empties, SMT DEF Init, Index
  <1>2. \A w \in Worker : taskChan[w] = <<>> /\ 1 .. Len(taskChan[w]) = {}
    BY Empties, SMT DEF Init
  <1>3. \A w \in Worker : worker[w] = [loop |-> "run", task |-> NoTask]
    BY DEF Init
  <1>4. Types
    <2>1. log \in [Conn -> Seq(Entry)] /\ taskChan \in [Worker -> Seq(Task)]
      BY Empties DEF Init
    <2>2. worker \in [Worker -> WorkerState]
      BY DEF Init, WorkerState
    <2>3. connToWorker \in [Conn -> Worker \cup {NoWorker}] /\ nextWorker \in Worker
      BY Workers DEF Init
    <2>4. \A c \in Conn : Len(log[c]) <= MaxMsgs
      BY <1>1, Empties, SchedulerAssumption, SMT
    <2> QED
      BY <2>1, <2>2, <2>3, <2>4 DEF Init, Types
  <1>5. KeyedWorker /\ RoutedLast /\ WorkerOrder
    BY <1>1 DEF KeyedWorker, RoutedLast, WorkerOrder
  <1>6. \A w \in Worker, c \in Conn, i \in 1 .. MaxMsgs :
          ~InQueue(w, c, i) /\ ~Runs(w, c, i) /\ \A p : ~At(c, i, w, p)
    BY <1>1, <1>2, <1>3, SomeTask, SMT DEF InQueue, Runs, At
  <1>7. Located /\ LateOnly
    BY <1>6 DEF Located, LateOnly
  <1>8. QueueOrder
    BY <1>2 DEF QueueOrder
  <1>9. Busy /\ DrainsStopped
    BY <1>3, SMT DEF Busy, DrainsStopped
  <1>10. MappingSound
    BY <1>1 DEF Init, MappingSound
  <1> QED
    BY <1>4, <1>5, <1>7, <1>8, <1>9, <1>10 DEF IInv

-----------------------------------------------------------------------------
(* The associations. *)

\* An association whose state changes while no message is routed.
LEMMA ConnStep ==
    ASSUME IInv, NEW c \in Conn,
           UNCHANGED <<log, taskChan, worker, nextWorker, lastID, amfUeID, stopped>>,
           dGNBLatched' \in BOOLEAN,
           conn' \in [Conn -> {"none", "accepted", "open", "closed", "released"}],
           connToWorker' \in [Conn -> Worker \cup {NoWorker}],
           \A d \in Conn \ {c} : conn'[d] = conn[d] /\ connToWorker'[d] = connToWorker[d],
           \/ Index(c) = {} /\ connToWorker'[c] = NoWorker
           \/ /\ conn'[c] \in {"closed", "released"}
              /\ connToWorker'[c] \in {connToWorker[c], NoWorker}
              /\ conn'[c] = "released" => connToWorker'[c] = NoWorker
    PROVE  IInv'
  <1>1. \A d \in Conn : log'[d] = log[d] /\ Index(d)' = Index(d)
    BY DEF Index
  <1>2. Types'
    BY DEF IInv, Types
  <1>3. KeyedWorker'
    <2> SUFFICES ASSUME NEW d \in Conn
                 PROVE  /\ \A i \in Index(d) : ~log[d][i].pinned => log[d][i].worker = hashUEID(log[d][i].id)
                        /\ \A i, j \in Index(d) :
                             log[d][i].pinned /\ log[d][j].pinned => log[d][i].worker = log[d][j].worker
                        /\ \A i \in Index(d) :
                             log[d][i].pinned /\ conn'[d] = "open" => connToWorker'[d] # NoWorker
                        /\ \A i \in Index(d) : conn'[d] \in {"open", "closed", "released"}
      BY <1>1, SMT DEF KeyedWorker, hashUEID
    <2>1. CASE d = c
      BY <2>1 DEF IInv, KeyedWorker
    <2>2. CASE d # c
      BY <2>2 DEF IInv, KeyedWorker
    <2> QED
      BY <2>1, <2>2
  <1>4. MappingSound'
    <2> SUFFICES ASSUME NEW d \in Conn
                 PROVE  /\ conn'[d] \in {"none", "accepted", "released"} => connToWorker'[d] = NoWorker
                        /\ connToWorker'[d] # NoWorker =>
                             \A i \in Index(d) : log[d][i].pinned => log[d][i].worker = connToWorker'[d]
      BY <1>1, ZenonT(60) DEF MappingSound
    <2>1. CASE d = c
      BY <2>1 DEF IInv, MappingSound
    <2>2. CASE d # c
      BY <2>2 DEF IInv, MappingSound
    <2> QED
      BY <2>1, <2>2
  <1>5. /\ Located' /\ RoutedLast' /\ QueueOrder' /\ Busy'
        /\ WorkerOrder' /\ DrainsStopped' /\ LateOnly'
    BY QueuesKept
  <1> QED
    BY <1>2, <1>3, <1>4, <1>5 DEF IInv

\* The accept loop and the start of a reader: nothing has been read yet.
LEMMA AcceptIInv ==
    ASSUME IInv, NEW c \in Conn, Accept(c) \/ StartReader(c)
    PROVE  IInv'
  <1>1. /\ UNCHANGED <<log, taskChan, worker, nextWorker, lastID, amfUeID, stopped, connToWorker>>
        /\ conn[c] \in {"none", "accepted"}
    BY DEF Accept, StartReader, routeVars, usedVars, workVars, idVars, mainVars
  <1>2. dGNBLatched' \in BOOLEAN
    BY DEF Accept, StartReader, routeVars, NotifyActiveConns, IInv, Types
  <1>3. /\ conn' \in [Conn -> {"none", "accepted", "open", "closed", "released"}]
        /\ \A d \in Conn \ {c} : conn'[d] = conn[d]
    BY DEF Accept, StartReader, IInv, Types
  <1>4. Index(c) = {} /\ connToWorker'[c] = NoWorker
    BY <1>1 DEF IInv, KeyedWorker, MappingSound
  <1>5. connToWorker' \in [Conn -> Worker \cup {NoWorker}]
    BY <1>1 DEF IInv, Types
  <1> QED
    BY <1>1, <1>2, <1>3, <1>4, <1>5, ConnStep

\* A reader that leaves its loop; the mapping stays for now.
LEMMA ReadErrorIInv ==
    ASSUME IInv, NEW c \in Conn, ReadError(c)
    PROVE  IInv'
  <1>1. UNCHANGED <<log, taskChan, worker, nextWorker, lastID, amfUeID, stopped, connToWorker, dGNBLatched>>
    BY DEF ReadError, routeVars, usedVars, workVars, idVars, mainVars
  <1>2. /\ conn' \in [Conn -> {"none", "accepted", "open", "closed", "released"}]
        /\ conn'[c] = "closed" /\ \A d \in Conn \ {c} : conn'[d] = conn[d]
    BY DEF ReadError, IInv, Types
  <1>3. connToWorker' \in [Conn -> Worker \cup {NoWorker}] /\ dGNBLatched' \in BOOLEAN
    BY <1>1 DEF IInv, Types
  <1> QED
    BY <1>1, <1>2, <1>3, ConnStep

\* ReleaseConn deletes the mapping.
LEMMA ReleaseConnIInv ==
    ASSUME IInv, NEW c \in Conn, ReleaseConn(c)
    PROVE  IInv'
  <1>1. UNCHANGED <<log, taskChan, worker, nextWorker, lastID, amfUeID, stopped, dGNBLatched>>
    BY DEF ReleaseConn, usedVars, workVars, idVars, mainVars
  <1>2. /\ conn' \in [Conn -> {"none", "accepted", "open", "closed", "released"}]
        /\ conn'[c] = "released" /\ \A d \in Conn \ {c} : conn'[d] = conn[d]
    BY DEF ReleaseConn, IInv, Types
  <1>3. /\ connToWorker' \in [Conn -> Worker \cup {NoWorker}]
        /\ connToWorker'[c] = NoWorker
        /\ \A d \in Conn \ {c} : connToWorker'[d] = connToWorker[d]
    BY DEF ReleaseConn, IInv, Types
  <1>4. dGNBLatched' \in BOOLEAN
    BY <1>1 DEF IInv, Types
  <1> QED
    BY <1>1, <1>2, <1>3, <1>4, ConnStep

\* A step that at most closes stopChans.
LEMMA QuietIInv ==
    ASSUME IInv, stopped \subseteq stopped',
           UNCHANGED <<conn, routeVars, log, taskChan, worker, idVars>>
    PROVE  IInv'
  <1>1. UNCHANGED <<conn, dGNBLatched, connToWorker, nextWorker, log, taskChan, worker, lastID, amfUeID>>
    BY DEF routeVars, idVars
  <1>2. Types'
    BY <1>1 DEF IInv, Types
  <1>3. KeyedWorker' /\ MappingSound'
    BY <1>1, SameLog
  <1> QED
    BY <1>1, <1>2, <1>3, QueuesKept DEF IInv

\* Writing worker_num.txt and the steps of the shutdown.
LEMMA MainIInv ==
    ASSUME IInv, Main \/ \E c \in Conn : writeUsedWorkerCount(c)
    PROVE  IInv'
  <1>1. stopped \subseteq stopped' /\ UNCHANGED <<conn, routeVars, log, taskChan, worker, idVars>>
    BY DEF Main, Shutdown, StopWorker, WaitWorkers, Stop, writeUsedWorkerCount, accVars,
           workVars, mainVars
  <1> QED
    BY <1>1, QuietIInv

-----------------------------------------------------------------------------
(* The reader of an association. *)

\* A message is added to the log.
LEMMA EntryAppended ==
    ASSUME Types, NEW c \in Conn, NEW e \in Entry, Len(log[c]) < MaxMsgs,
           log' = [log EXCEPT ![c] = Append(@, e)]
    PROVE  /\ log' \in [Conn -> Seq(Entry)]
           /\ \A d \in Conn : Len(log'[d]) <= MaxMsgs
           /\ Len(log'[c]) = Len(log[c]) + 1 /\ log'[c][Len(log[c]) + 1] = e
           /\ Index(c)' = Index(c) \cup {Len(log[c]) + 1}
           /\ \A d \in Conn \ {c} : Index(d)' = Index(d)
           /\ \A d \in Conn : \A i \in Index(d) : log'[d][i] = log[d][i]
  <1> DEFINE s == Append(log[c], e)
  <1>1. log[c] \in Seq(Entry) /\ Len(log[c]) \in Nat /\ MaxMsgs \in Nat
    BY LogEntry, SchedulerAssumption
  <1>2. /\ s \in Seq(Entry) /\ Len(s) = Len(log[c]) + 1
        /\ \A j \in 1 .. Len(log[c]) : s[j] = log[c][j]
        /\ s[Len(log[c]) + 1] = e
    BY <1>1, Appends, SMT
  <1> HIDE DEF s
  <1>3. log' = [log EXCEPT ![c] = s]
    BY DEF s
  <1>4. log' \in [Conn -> Seq(Entry)] /\ log'[c] = s /\ \A d \in Conn : d # c => log'[d] = log[d]
    BY <1>2, <1>3, ZenonT(60) DEF Types
  <1>5. \A d \in Conn : Len(log'[d]) <= MaxMsgs
    BY <1>1, <1>2, <1>4, SMT DEF Types
  <1>6. Index(c)' = Index(c) \cup {Len(log[c]) + 1} /\ \A d \in Conn \ {c} : Index(d)' = Index(d)
    BY <1>1, <1>2, <1>4, SMT DEF Index
  <1> QED
    BY <1>1, <1>2, <1>4, <1>5, <1>6 DEF Index

\* DispatchTask: a message joins the log with the worker its key determines.
LEMMA DispatchIInv ==
    ASSUME IInv, NEW c \in Conn, NEW m \in Message, Dispatch(c, m)
    PROVE  IInv'
  <1> DEFINE id == ExtractUEID(c, m)
             w == IF dGNBLatched THEN workerForConn(c) ELSE hashUEID(id)
             pin == dGNBLatched /\ connToWorker[c] = NoWorker
             e == [kind |-> m.kind, ue |-> m.ue, id |-> id, pinned |-> dGNBLatched,
                   worker |-> w, place |-> "routed", late |-> FALSE]
             n == Len(log[c])
  <1>1. /\ conn[c] = "open" /\ ~Routed(c) /\ Len(log[c]) < MaxMsgs
        /\ log' = [log EXCEPT ![c] = Append(@, e)]
        /\ connToWorker' = (IF pin THEN [connToWorker EXCEPT ![c] = w] ELSE connToWorker)
        /\ nextWorker' = (IF pin THEN (nextWorker + 1) % NumWorkers ELSE nextWorker)
        /\ UNCHANGED <<conn, dGNBLatched, taskChan, worker, lastID, amfUeID, stopped>>
    BY DEF Dispatch, Reading, accVars, workVars, idVars, mainVars
  <1>2. id \in Nat
    <2>1. CASE m.kind = "NGSetup"
      BY <2>1 DEF ExtractUEID
    <2>2. CASE m.kind = "InitialUE"
      BY <2>2, SchedulerAssumption DEF ExtractUEID, Message
    <2>3. CASE m.kind = "Uplink"
      <3>1. m.ue \in RanUeID
        BY <2>3 DEF Message
      <3> QED
        BY <2>3, <3>1 DEF ExtractUEID, IInv, Types
    <2> QED
      BY <2>1, <2>2, <2>3 DEF Message
  <1>3. w \in Worker
    BY <1>2, Workers DEF workerForConn, hashUEID, IInv, Types
  <1>4. e \in Entry /\ e.place = "routed" /\ e.pinned = dGNBLatched /\ e.worker = w /\ e.id = id
    BY <1>2, <1>3 DEF Entry, Message, Place, IInv, Types
  <1>5. pin => w # NoWorker
    BY <1>3, Workers
  <1>6. dGNBLatched /\ ~pin => w = connToWorker[c]
    BY DEF workerForConn
  <1>7. ~dGNBLatched => w = hashUEID(id)
    OBVIOUS
  <1>8. dGNBLatched => connToWorker'[c] = w
    BY <1>1, <1>6 DEF IInv, Types
  <1>9. ~dGNBLatched => connToWorker'[c] = connToWorker[c]
    BY <1>1
  <1>10. /\ connToWorker' \in [Conn -> Worker \cup {NoWorker}] /\ nextWorker' \in Worker
         /\ \A d \in Conn \ {c} : connToWorker'[d] = connToWorker[d]
    <2>1. nextWorker \in Nat /\ nextWorker + 1 \in Nat
      BY Workers, SMT DEF IInv, Types
    <2> QED
      BY <1>1, <1>3, <2>1, Workers DEF IInv, Types
  <1> HIDE DEF id, w, e, pin
  <1>11. /\ log' \in [Conn -> Seq(Entry)]
         /\ \A d \in Conn : Len(log'[d]) <= MaxMsgs
         /\ Len(log'[c]) = n + 1 /\ log'[c][n + 1] = e
         /\ Index(c)' = Index(c) \cup {n + 1}
         /\ \A d \in Conn \ {c} : Index(d)' = Index(d)
         /\ \A d \in Conn : \A i \in Index(d) : log'[d][i] = log[d][i]
    BY <1>1, <1>4, EntryAppended DEF IInv
  <1>12. n \in Nat /\ \A i \in Index(c) : i \in Nat /\ i <= n
    BY LogEntry, SMT DEF IInv
  <1>13. \A i \in Index(c) : log[c][i].pinned =>
           connToWorker[c] # NoWorker /\ log[c][i].worker = connToWorker[c]
    BY <1>1 DEF IInv, KeyedWorker, MappingSound
  <1>14. \A i \in Index(c) : log[c][i].pinned =>
           connToWorker'[c] = connToWorker[c] /\ (dGNBLatched => w = connToWorker[c])
    BY <1>1, <1>6, <1>13 DEF pin
  <1>15. Types'
    BY <1>1, <1>10, <1>11 DEF IInv, Types
  <1>16. KeyedWorker'
    <2> SUFFICES ASSUME NEW d \in Conn
                 PROVE  /\ \A i \in Index(d)' : ~log'[d][i].pinned => log'[d][i].worker = hashUEID(log'[d][i].id)
                        /\ \A i, j \in Index(d)' :
                             log'[d][i].pinned /\ log'[d][j].pinned => log'[d][i].worker = log'[d][j].worker
                        /\ \A i \in Index(d)' :
                             log'[d][i].pinned /\ conn'[d] = "open" => connToWorker'[d] # NoWorker
                        /\ \A i \in Index(d)' : conn'[d] \in {"open", "closed", "released"}
      BY DEF KeyedWorker, hashUEID
    <2>1. CASE d = c
      <3>1. /\ \A i \in Index(c)' : log'[c][i].pinned => log'[c][i].worker = connToWorker'[c]
            /\ \A i \in Index(c)' : log'[c][i].pinned => connToWorker'[c] # NoWorker
        <4>1. \A i \in Index(c) : log'[c][i].pinned =>
                log'[c][i].worker = connToWorker'[c] /\ connToWorker'[c] # NoWorker
          BY <1>11, <1>13, <1>14
        <4>2. log'[c][n + 1].pinned =>
                log'[c][n + 1].worker = connToWorker'[c] /\ connToWorker'[c] # NoWorker
          BY <1>3, <1>4, <1>8, <1>11, Workers
        <4> QED
          BY <1>11, <4>1, <4>2
      <3>2. \A i \in Index(c)' : ~log'[c][i].pinned => log'[c][i].worker = hashUEID(log'[c][i].id)
        <4>1. \A i \in Index(c) : ~log'[c][i].pinned => log'[c][i].worker = hashUEID(log'[c][i].id)
          BY <1>11, SMT DEF IInv, KeyedWorker
        <4>2. ~log'[c][n + 1].pinned => log'[c][n + 1].worker = hashUEID(log'[c][n + 1].id)
          BY <1>4, <1>7, <1>11
        <4> QED
          BY <1>11, <4>1, <4>2
      <3>3. conn'[c] = "open"
        BY <1>1
      <3> HIDE DEF n
      <3> QED
        BY <2>1, <3>1, <3>2, <3>3, ZenonT(60)
    <2>2. CASE d # c
      BY <1>1, <1>10, <1>11, <2>2, SMTT(60) DEF IInv, KeyedWorker
    <2> QED
      BY <2>1, <2>2
  <1>17. MappingSound'
    <2> SUFFICES ASSUME NEW d \in Conn
                 PROVE  /\ conn'[d] \in {"none", "accepted", "released"} => connToWorker'[d] = NoWorker
                        /\ connToWorker'[d] # NoWorker =>
                             \A i \in Index(d)' : log'[d][i].pinned => log'[d][i].worker = connToWorker'[d]
      BY DEF MappingSound
    <2>1. CASE d = c
      <3>1. \A i \in Index(c) : log'[c][i].pinned => log'[c][i].worker = connToWorker'[c]
        BY <1>11, <1>13, <1>14
      <3>2. log'[c][n + 1].pinned => log'[c][n + 1].worker = connToWorker'[c]
        BY <1>4, <1>8, <1>11
      <3> QED
        BY <1>1, <1>11, <2>1, <3>1, <3>2, ZenonT(60)
    <2>2. CASE d # c
      BY <1>1, <1>10, <1>11, <2>2, SMT DEF IInv, MappingSound
    <2> QED
      BY <2>1, <2>2
  <1>18. \A d \in Conn : \A i \in Index(d) : i \in Index(d)' /\ log'[d][i] = log[d][i]
    BY <1>11
  <1>19. \A d \in Conn : \A i \in Index(d)' : i \in Index(d) \/ (d = c /\ i = n + 1)
    BY <1>11, SMT
  <1>20. Located'
    <2> SUFFICES ASSUME NEW v \in Worker, NEW d \in Conn, NEW i \in 1 .. MaxMsgs
                 PROVE  /\ InQueue(v, d, i)' <=> At(d, i, v, "queued")'
                        /\ Runs(v, d, i)' <=> At(d, i, v, "running")'
      BY DEF Located
    <2>1. (InQueue(v, d, i)' <=> InQueue(v, d, i)) /\ (Runs(v, d, i)' <=> Runs(v, d, i))
      <3>1. taskChan' = taskChan /\ worker' = worker
        BY <1>1
      <3> QED
        BY <3>1 DEF InQueue, Runs
    <2>2. (InQueue(v, d, i) <=> At(d, i, v, "queued")) /\ (Runs(v, d, i) <=> At(d, i, v, "running"))
      BY DEF IInv, Located
    <2>3. ASSUME NEW p \in {"queued", "running"} PROVE At(d, i, v, p)' <=> At(d, i, v, p)
      <3>1. CASE i \in Index(d)
        BY <1>18, <3>1 DEF At
      <3>2. CASE i \notin Index(d)
        <4>1. ~At(d, i, v, p)
          BY <3>2 DEF At
        <4>2. i \in Index(d)' => d = c /\ i = n + 1
          BY <1>19, <3>2
        <4>3. log'[c][n + 1].place # p
          BY <1>4, <1>11
        <4> QED
          BY <4>1, <4>2, <4>3 DEF At
      <3> QED
        BY <3>1, <3>2
    <2>4. (At(d, i, v, "queued")' <=> At(d, i, v, "queued")) /\ (At(d, i, v, "running")' <=> At(d, i, v, "running"))
      BY <2>3
    <2> QED
      BY <2>1, <2>2, <2>4
  <1>21. QueueOrder' /\ Busy'
    <2>1. taskChan' = taskChan /\ worker' = worker
      BY <1>1
    <2> QED
      BY <2>1, SMT DEF IInv, QueueOrder, Busy
  <1>22. RoutedLast'
    <2>1. \A i \in Index(c) : log[c][i].place # "routed"
      <3>1. \A i \in Index(c) : log[c][i].place = "routed" => i = n
        BY DEF IInv, RoutedLast
      <3>2. Index(c) # {} => log[c][n].place # "routed"
        BY <1>1, <1>12, Empties, SMT DEF Routed, Last, Index
      <3> QED
        BY <3>1, <3>2
    <2> SUFFICES ASSUME NEW d \in Conn, NEW i \in Index(d)', log'[d][i].place = "routed"
                 PROVE  i = Len(log'[d])
      BY DEF RoutedLast
    <2>2. CASE d = c
      <3>1. i = n + 1
        BY <1>18, <1>19, <2>1, <2>2
      <3> QED
        BY <1>11, <2>2, <3>1
    <2>3. CASE d # c
      <3>1. Len(log'[d]) = Len(log[d])
        BY <1>1, <2>3 DEF IInv, Types
      <3>2. i \in Index(d) /\ log'[d][i] = log[d][i]
        BY <1>18, <1>19, <2>3
      <3> QED
        BY <3>1, <3>2 DEF IInv, RoutedLast
    <2> QED
      BY <2>2, <2>3
  <1>23. WorkerOrder'
    <2> SUFFICES ASSUME NEW d \in Conn, NEW i \in Index(d)', NEW j \in Index(d)', i < j,
                        log'[d][i].worker = log'[d][j].worker,
                        log'[d][j].place \in {"running", "done"}
                 PROVE  log'[d][i].place \in {"done", "dropped"}
      BY ZenonT(60) DEF WorkerOrder, Over
    <2>1. j \in Index(d)
      BY <1>4, <1>11, <1>19
    <2>2. i \in Index(d)
      BY <1>12, <1>19, <2>1, SMT
    <2> QED
      BY <1>18, <2>1, <2>2 DEF IInv, WorkerOrder, Over
  <1>24. DrainsStopped'
    BY <1>1 DEF IInv, DrainsStopped
  <1>25. LateOnly'
    <2> SUFFICES ASSUME NEW v \in Worker, NEW d \in Conn, NEW i \in 1 .. MaxMsgs,
                        worker[v].loop = "exited", InQueue(v, d, i)
                 PROVE  log'[d][i].late
      BY <1>1 DEF LateOnly, InQueue
    <2>1. i \in Index(d)
      BY DEF IInv, Located, At
    <2>2. log[d][i].late
      BY DEF IInv, LateOnly
    <2> QED
      BY <1>18, <2>1, <2>2
  <1> QED
    BY <1>15, <1>16, <1>17, <1>20, <1>21, <1>22, <1>23, <1>24, <1>25 DEF IInv

\* Only the fate of one message changes.
Changed(c, i, place) ==
    /\ SameRouting /\ log'[c][i].place = place
    /\ \A d \in Conn : Index(d)' = Index(d) /\ Len(log'[d]) <= MaxMsgs
    /\ \A d \in Conn : \A k \in Index(d) : d # c \/ k # i => log'[d][k] = log[d][k]

\* A new entry for a message that keeps its routing changes its fate only.
LEMMA EntryChanged ==
    ASSUME Types, NEW c \in Conn, NEW i \in Index(c), NEW e \in Entry,
           log' = [log EXCEPT ![c][i] = e], e.worker = log[c][i].worker,
           e.pinned = log[c][i].pinned, e.id = log[c][i].id
    PROVE  Changed(c, i, e.place) /\ log'[c][i] = e
  <1>1. /\ log' \in [Conn -> Seq(Entry)] /\ log'[c][i] = e
        /\ \A d \in Conn : Len(log'[d]) = Len(log[d])
        /\ \A d \in Conn : \A k \in Index(d) : d # c \/ k # i => log'[d][k] = log[d][k]
    <2> DEFINE s == [log[c] EXCEPT ![i] = e]
    <2>1. log[c] \in Seq(Entry) /\ i \in 1 .. Len(log[c])
      BY LogEntry DEF Index
    <2>2. /\ s \in Seq(Entry) /\ Len(s) = Len(log[c])
          /\ \A j \in 1 .. Len(log[c]) : s[j] = IF j = i THEN e ELSE log[c][j]
      BY <2>1, Excepts, SMT
    <2>3. log' = [log EXCEPT ![c] = s]
      OBVIOUS
    <2> HIDE DEF s
    <2>4. log' \in [Conn -> Seq(Entry)] /\ log'[c] = s /\ \A d \in Conn : d # c => log'[d] = log[d]
      BY <2>2, <2>3 DEF Types
    <2> QED
      BY <2>1, <2>2, <2>4 DEF Index
  <1>2. \A d \in Conn : Index(d)' = Index(d) /\ Len(log'[d]) <= MaxMsgs
    BY <1>1 DEF Index, Types
  <1>3. SameRouting
    <2> SUFFICES ASSUME NEW d \in Conn, NEW k \in Index(d)
                 PROVE  /\ log'[d][k].worker = log[d][k].worker
                        /\ log'[d][k].pinned = log[d][k].pinned /\ log'[d][k].id = log[d][k].id
      BY <1>1, ZenonT(60) DEF SameRouting
    <2>1. CASE d = c /\ k = i
      BY <1>1, <2>1
    <2>2. CASE d # c \/ k # i
      BY <1>1, <2>2
    <2> QED
      BY <2>1, <2>2
  <1> QED
    BY <1>1, <1>2, <1>3 DEF Changed

\* Fate gives a message another place.
LEMMA FateChanges ==
    ASSUME Types, NEW c \in Conn, NEW i \in Index(c), NEW place \in Place,
           log' = Fate(TaskOf(c, i), place)
    PROVE  Changed(c, i, place) /\ log'[c][i].late = log[c][i].late
  <1> DEFINE e == [log[c][i] EXCEPT !.place = place]
  <1>1. log[c][i] \in Entry
    BY LogEntry
  <1>2. /\ e \in Entry /\ e.worker = log[c][i].worker /\ e.pinned = log[c][i].pinned
        /\ e.id = log[c][i].id /\ e.place = place /\ e.late = log[c][i].late
    BY <1>1 DEF Entry
  <1>3. log' = [log EXCEPT ![c][i] = e]
    BY Components DEF Fate
  <1> HIDE DEF e
  <1> QED
    BY <1>2, <1>3, EntryChanged, ZenonT(60)

\* A step that changes the fate of one message keeps what is about routing.
LEMMA FateKeepsRouting ==
    ASSUME IInv, NEW c \in Conn, NEW i \in Index(c), NEW place, Changed(c, i, place),
           UNCHANGED <<conn, dGNBLatched, connToWorker, nextWorker>>,
           lastID' \in Nat, amfUeID' \in [Conn \X RanUeID -> Nat],
           taskChan' \in [Worker -> Seq(Task)], worker' \in [Worker -> WorkerState]
    PROVE  Types' /\ KeyedWorker' /\ MappingSound'
  <1>1. SameRouting /\ \A d \in Conn : Len(log'[d]) <= MaxMsgs
    BY DEF Changed
  <1>2. Types'
    <2>1. log' \in [Conn -> Seq(Entry)]
      BY <1>1 DEF SameRouting
    <2> QED
      BY <1>1, <2>1 DEF IInv, Types
  <1> QED
    BY <1>1, <1>2, RoutingKept DEF IInv

\* The last message of a reader that submits.
LEMMA LastMessage ==
    ASSUME IInv, NEW c \in Conn, Submitting(c)
    PROVE  /\ Len(log[c]) \in Index(c) /\ log[c][Len(log[c])].place = "routed"
           /\ Last(c) = log[c][Len(log[c])] /\ Last(c) \in Entry /\ Last(c).worker \in Worker
           /\ TaskOf(c, Len(log[c])) \in Task
  <1>1. log[c] # <<>> /\ Last(c).place = "routed" /\ Last(c) = log[c][Len(log[c])]
    BY DEF Submitting, Routed, Last
  <1>2. log[c] \in Seq(Entry) /\ Len(log[c]) <= MaxMsgs
    BY DEF IInv, Types
  <1>3. Len(log[c]) \in Index(c)
    BY <1>1, <1>2, Empties, SMT DEF Index
  <1>4. log[c][Len(log[c])] \in Entry /\ Len(log[c]) \in 1 .. MaxMsgs
    BY <1>3, LogEntry DEF IInv
  <1> QED
    BY <1>1, <1>3, <1>4, Pairs DEF Entry

\* Where the tasks are after a step that moves message n of c to place.
Moves(c, n, place) ==
    \A w \in Worker, d \in Conn, i \in 1 .. MaxMsgs :
        /\ d # c \/ i # n => /\ InQueue(w, d, i)' <=> InQueue(w, d, i)
                             /\ Runs(w, d, i)' <=> Runs(w, d, i)
        /\ d = c /\ i = n => /\ InQueue(w, d, i)' <=> place = "queued" /\ w = log[c][n].worker
                             /\ Runs(w, d, i)' <=> place = "running" /\ w = log[c][n].worker

\* Then the log and the workers still agree.
LEMMA MovedLocated ==
    ASSUME IInv, NEW c \in Conn, NEW n \in Index(c), NEW place \in Place \ {"routed"},
           Changed(c, n, place), Moves(c, n, place)
    PROVE  Located' /\ RoutedLast'
  <1>1. \A d \in Conn : Index(d)' = Index(d) /\ Len(log'[d]) = Len(log[d])
    BY DEF Changed, SameRouting
  <1>2. Located'
    <2> SUFFICES ASSUME NEW w \in Worker, NEW d \in Conn, NEW i \in 1 .. MaxMsgs
                 PROVE  /\ InQueue(w, d, i)' <=> At(d, i, w, "queued")'
                        /\ Runs(w, d, i)' <=> At(d, i, w, "running")'
      BY DEF Located
    <2>1. CASE d = c /\ i = n
      <3>1. log'[c][n].place = place /\ log'[c][n].worker = log[c][n].worker
        BY DEF Changed, SameRouting
      <3>2. At(c, n, w, "queued")' <=> place = "queued" /\ w = log[c][n].worker
        BY <1>1, <3>1 DEF At
      <3>3. At(c, n, w, "running")' <=> place = "running" /\ w = log[c][n].worker
        BY <1>1, <3>1 DEF At
      <3> QED
        BY <2>1, <3>2, <3>3 DEF Moves
    <2>2. CASE d # c \/ i # n
      <3>1. (InQueue(w, d, i)' <=> InQueue(w, d, i)) /\ (Runs(w, d, i)' <=> Runs(w, d, i))
        BY <2>2 DEF Moves
      <3>2. (InQueue(w, d, i) <=> At(d, i, w, "queued")) /\ (Runs(w, d, i) <=> At(d, i, w, "running"))
        BY DEF IInv, Located
      <3>3. i \in Index(d) => log'[d][i] = log[d][i]
        BY <2>2 DEF Changed
      <3>4. \A p : At(d, i, w, p)' <=> At(d, i, w, p)
        BY <1>1, <3>3 DEF At
      <3> QED
        BY <3>1, <3>2, <3>4
    <2> QED
      BY <2>1, <2>2
  <1>3. RoutedLast'
    <2> SUFFICES ASSUME NEW d \in Conn, NEW i \in Index(d), log'[d][i].place = "routed"
                 PROVE  i = Len(log[d])
      BY <1>1 DEF RoutedLast
    <2>1. d # c \/ i # n
      BY DEF Changed
    <2>2. log'[d][i] = log[d][i]
      BY <2>1 DEF Changed
    <2> QED
      BY <2>2 DEF IInv, RoutedLast
  <1> QED
    BY <1>2, <1>3

\* A message that nobody has begun to handle and is not handled now, or one whose
\* handler ends, does not disturb the order.
LEMMA OrderKept ==
    ASSUME IInv, NEW c \in Conn, NEW n \in Index(c), NEW place, Changed(c, n, place),
           \/ place \in {"queued", "dropped"} /\ log[c][n].place = "routed"
           \/ place = "done" /\ log[c][n].place = "running"
    PROVE  WorkerOrder'
  <1>1. \A d \in Conn : Index(d)' = Index(d)
    BY DEF Changed
  <1> SUFFICES ASSUME NEW d \in Conn, NEW i \in Index(d), NEW j \in Index(d), i < j,
                      log'[d][i].worker = log'[d][j].worker,
                      log'[d][j].place \in {"running", "done"}
               PROVE  log'[d][i].place \in {"done", "dropped"}
    BY <1>1 DEF WorkerOrder, Over
  <1>2. log[d][i].worker = log[d][j].worker
    BY DEF Changed, SameRouting
  <1>3. log[d][j].place \in {"running", "done"}
    <2>1. CASE d = c /\ j = n
      BY <2>1 DEF Changed
    <2>2. CASE d # c \/ j # n
      BY <2>2 DEF Changed
    <2> QED
      BY <2>1, <2>2
  <1>4. log[d][i].place \in {"done", "dropped"}
    BY <1>2, <1>3 DEF IInv, WorkerOrder, Over
  <1>5. d # c \/ i # n
    BY <1>4
  <1> QED
    BY <1>4, <1>5 DEF Changed

\* No worker exits and nothing is queued: what an exited worker left is as it was.
LEMMA LateKept ==
    ASSUME IInv, NEW c \in Conn, NEW n \in Index(c), NEW place \in Place \ {"queued"},
           Changed(c, n, place), Moves(c, n, place),
           \A w \in Worker : worker'[w].loop = "exited" => worker[w].loop = "exited"
    PROVE  LateOnly'
  <1> SUFFICES ASSUME NEW w \in Worker, NEW d \in Conn, NEW i \in 1 .. MaxMsgs,
                      worker'[w].loop = "exited", InQueue(w, d, i)'
               PROVE  log'[d][i].late
    BY ZenonT(60) DEF LateOnly
  <1>1. d # c \/ i # n
    BY DEF Moves
  <1>2. InQueue(w, d, i)
    BY <1>1 DEF Moves
  <1>3. i \in Index(d)
    BY <1>2 DEF IInv, Located, At
  <1>4. log[d][i].late
    BY <1>2 DEF IInv, LateOnly
  <1> QED
    BY <1>1, <1>3, <1>4 DEF Changed

-----------------------------------------------------------------------------
(* Submit. *)

\* Submit refuses a message: it is in no queue and nobody handles it.
LEMMA SubmitRejectedIInv ==
    ASSUME IInv, NEW c \in Conn, SubmitRejected(c)
    PROVE  IInv'
  <1>0. Submitting(c)
    BY DEF SubmitRejected
  <1> PICK n \in Index(c) : n = Len(log[c])
    BY <1>0, LastMessage
  <1>1. log' = Fate(TaskOf(c, n), "dropped")
    BY DEF SubmitRejected, TaskOf
  <1>2. n \in Index(c) /\ log[c][n].place = "routed"
    BY <1>0, LastMessage
  <1>3. UNCHANGED <<conn, dGNBLatched, connToWorker, nextWorker, taskChan, worker, lastID, amfUeID, stopped>>
    BY DEF SubmitRejected, accVars, routeVars, workVars, idVars, mainVars
  <1>4. Changed(c, n, "dropped") /\ log'[c][n].late = log[c][n].late
    BY <1>1, <1>2, FateChanges DEF IInv, Place
  <1>5. Types' /\ KeyedWorker' /\ MappingSound'
    <2>1. /\ lastID' \in Nat /\ amfUeID' \in [Conn \X RanUeID -> Nat]
          /\ taskChan' \in [Worker -> Seq(Task)] /\ worker' \in [Worker -> WorkerState]
      BY <1>3 DEF IInv, Types
    <2> QED
      BY <1>2, <1>3, <1>4, <2>1, FateKeepsRouting
  <1>6. log[c][n].worker \in Worker /\ n \in 1 .. MaxMsgs
    BY <1>2, LogEntry DEF IInv
  <1>7. Moves(c, n, "dropped")
    <2>1. taskChan' = taskChan /\ worker' = worker
      BY <1>3
    <2>2. \A w, d, i : (InQueue(w, d, i)' <=> InQueue(w, d, i)) /\ (Runs(w, d, i)' <=> Runs(w, d, i))
      BY <2>1 DEF InQueue, Runs
    <2>3. \A w \in Worker : ~InQueue(w, c, n) /\ ~Runs(w, c, n)
      BY <1>2, <1>6 DEF IInv, Located, At
    <2> QED
      BY <2>2, <2>3 DEF Moves
  <1>8. Located' /\ RoutedLast'
    BY <1>2, <1>4, <1>7, MovedLocated DEF Place
  <1>9. WorkerOrder'
    BY <1>2, <1>4, OrderKept
  <1>10. LateOnly'
    BY <1>2, <1>3, <1>4, <1>7, LateKept DEF Place
  <1>11. QueueOrder' /\ Busy' /\ DrainsStopped'
    <2>1. taskChan' = taskChan /\ worker' = worker /\ stopped' = stopped
      BY <1>3
    <2> QED
      BY <2>1, SMT DEF IInv, QueueOrder, Busy, DrainsStopped
  <1> QED
    BY <1>5, <1>8, <1>9, <1>10, <1>11 DEF IInv

\* Submit puts a message behind those that are in the queue, all read before it;
\* behind the back of a worker that has exited it is marked late.
LEMMA SubmitQueuedIInv ==
    ASSUME IInv, NEW c \in Conn, SubmitQueued(c)
    PROVE  IInv'
  <1>0. Submitting(c)
    BY DEF SubmitQueued
  <1> PICK n \in Index(c) : n = Len(log[c])
    BY <1>0, LastMessage
  <1> PICK w \in Worker : w = Last(c).worker
    BY <1>0, LastMessage
  <1> DEFINE b == w \in stopped
             e == [log[c][n] EXCEPT !.place = "queued", !.late = b]
             q == Append(taskChan[w], TaskOf(c, n))
             len == Len(taskChan[w])
  <1>1. /\ Submitting(c) /\ taskChan' = [taskChan EXCEPT ![w] = q]
        /\ log' = [log EXCEPT ![c][n] = e]
    BY DEF SubmitQueued, TaskOf
  <1>2. /\ n \in Index(c) /\ log[c][n].place = "routed" /\ w \in Worker
        /\ w = log[c][n].worker /\ log[c][n] \in Entry /\ TaskOf(c, n) \in Task
    BY <1>1, LastMessage
  <1>3. /\ UNCHANGED <<conn, dGNBLatched, connToWorker, nextWorker>>
        /\ UNCHANGED <<worker, lastID, amfUeID, stopped>>
    BY DEF SubmitQueued, accVars, routeVars, idVars, mainVars
  <1>4. /\ e \in Entry /\ e.worker = w /\ e.pinned = log[c][n].pinned
        /\ e.id = log[c][n].id /\ e.place = "queued" /\ e.late = b
    <2>1. b \in BOOLEAN /\ "queued" \in Place
      BY SMT DEF Place
    <2> DEFINE r == log[c][n]
    <2>2. r \in Entry /\ e = [r EXCEPT !.place = "queued", !.late = b]
      BY <1>2
    <2> HIDE DEF b, r, e
    <2>3. /\ e \in Entry /\ e.worker = r.worker /\ e.pinned = r.pinned
          /\ e.id = r.id /\ e.place = "queued" /\ e.late = b
      BY <2>1, <2>2 DEF Entry
    <2> QED
      BY <1>2, <2>3 DEF r
  <1>5. /\ taskChan[w] \in Seq(Task) /\ len \in Nat
        /\ q \in Seq(Task) /\ Len(q) = len + 1 /\ q[len + 1] = TaskOf(c, n)
        /\ \A k \in 1 .. len : q[k] = taskChan[w][k]
    <2>1. taskChan[w] \in Seq(Task) /\ len \in Nat
      BY <1>2, QueueEntry DEF IInv
    <2> DEFINE t == taskChan[w]
               x == TaskOf(c, n)
    <2>2. t \in Seq(Task) /\ x \in Task /\ len = Len(t) /\ q = Append(t, x)
      BY <1>2, <2>1
    <2> HIDE DEF t, x, len, q
    <2>3. /\ q \in Seq(Task) /\ Len(q) = len + 1 /\ q[len + 1] = x
          /\ \A k \in 1 .. len : q[k] = t[k]
      BY <2>2, Appends, SMT
    <2> QED
      BY <2>1, <2>3 DEF t, x
  <1> HIDE DEF e, q, len, b
  <1>6. Changed(c, n, "queued") /\ log'[c][n] = e
    <2>1. /\ Types /\ e.worker = log[c][n].worker
          /\ log' = [log EXCEPT ![c][n] = e]
      BY <1>1, <1>2, <1>4 DEF IInv
    <2>2. Changed(c, n, e.place) /\ log'[c][n] = e
      BY <1>2, <1>4, <2>1, EntryChanged
    <2> QED
      BY <1>4, <2>2
  <1>7. taskChan' \in [Worker -> Seq(Task)] /\ taskChan'[w] = q
        /\ \A v \in Worker \ {w} : taskChan'[v] = taskChan[v]
    BY <1>1, <1>2, <1>5 DEF IInv, Types
  <1>8. Types' /\ KeyedWorker' /\ MappingSound'
    <2>1. /\ lastID' \in Nat /\ amfUeID' \in [Conn \X RanUeID -> Nat]
          /\ worker' \in [Worker -> WorkerState]
      BY <1>3 DEF IInv, Types
    <2> QED
      BY <1>2, <1>3, <1>6, <1>7, <2>1, FateKeepsRouting
  <1>9. w \in Worker /\ n \in 1 .. MaxMsgs /\ \A v \in Worker : ~InQueue(v, c, n) /\ ~Runs(v, c, n)
    <2>1. n \in 1 .. MaxMsgs
      BY <1>2, LogEntry DEF IInv
    <2> QED
      BY <1>2, <2>1 DEF IInv, Located, At
  <1>10. \A v \in Worker : \A k \in 1 .. Len(taskChan'[v]) :
           \/ k \in 1 .. Len(taskChan[v]) /\ taskChan'[v][k] = taskChan[v][k]
           \/ v = w /\ k = len + 1 /\ taskChan'[v][k] = TaskOf(c, n)
    <2> TAKE v \in Worker
    <2> TAKE k \in 1 .. Len(taskChan'[v])
    <2>1. CASE v # w
      BY <1>7, <2>1
    <2>2. CASE v = w
      <3>1. k \in 1 .. len + 1 /\ taskChan'[v][k] = q[k] /\ len = Len(taskChan[v])
        BY <1>5, <1>7, <2>2 DEF len
      <3>2. CASE k = len + 1
        BY <1>5, <2>2, <3>1, <3>2
      <3>3. CASE k # len + 1
        <4>1. k \in 1 .. len
          BY <1>5, <3>1, <3>3, SMT
        <4> QED
          BY <1>5, <2>2, <3>1, <4>1
      <3> QED
        BY <3>2, <3>3
    <2> QED
      BY <2>1, <2>2
  <1>11. InQueue(w, c, n)'
    <2>1. len + 1 \in 1 .. Len(taskChan'[w]) /\ taskChan'[w][len + 1] = TaskOf(c, n)
      BY <1>5, <1>7, SMT
    <2>2. \E k \in 1 .. Len(taskChan'[w]) : taskChan'[w][k] = TaskOf(c, n)
      BY <2>1
    <2> QED
      BY <2>2 DEF InQueue
  <1>12. ASSUME NEW v \in Worker, NEW d, NEW i, InQueue(v, d, i)
         PROVE  InQueue(v, d, i)'
    <2>1. PICK k \in 1 .. Len(taskChan[v]) : taskChan[v][k] = TaskOf(d, i)
      BY <1>12 DEF InQueue
    <2>2. k \in 1 .. Len(taskChan'[v]) /\ taskChan'[v][k] = taskChan[v][k]
      <3>1. CASE v = w
        BY <1>5, <1>7, <3>1, SMT DEF len
      <3>2. CASE v # w
        BY <1>7, <3>2
      <3> QED
        BY <3>1, <3>2
    <2>3. taskChan'[v][k] = TaskOf(d, i)
      BY <2>1, <2>2
    <2> QED
      BY <2>2, <2>3 DEF InQueue
  <1>13. ASSUME NEW v \in Worker, NEW d, NEW i, InQueue(v, d, i)'
         PROVE  InQueue(v, d, i) \/ (v = w /\ d = c /\ i = n)
    <2>1. PICK k \in 1 .. Len(taskChan'[v]) : taskChan'[v][k] = TaskOf(d, i)
      BY <1>13 DEF InQueue
    <2>2. CASE k \in 1 .. Len(taskChan[v]) /\ taskChan'[v][k] = taskChan[v][k]
      <3>1. taskChan[v][k] = TaskOf(d, i)
        BY <2>1, <2>2
      <3>2. InQueue(v, d, i)
        BY <2>2, <3>1 DEF InQueue
      <3> QED
        BY <3>2
    <2>3. CASE v = w /\ taskChan'[v][k] = TaskOf(c, n)
      <3>1. TaskOf(d, i) = TaskOf(c, n)
        BY <2>1, <2>3
      <3> QED
        BY <2>3, <3>1, SameTask, SMT
    <2> QED
      BY <1>10, <2>2, <2>3
  <1>14. Moves(c, n, "queued")
    <2>1. \A v, d, i : Runs(v, d, i)' <=> Runs(v, d, i)
      BY <1>3 DEF Runs
    <2> SUFFICES ASSUME NEW v \in Worker, NEW d \in Conn, NEW i \in 1 .. MaxMsgs
                 PROVE  /\ d # c \/ i # n => (InQueue(v, d, i)' <=> InQueue(v, d, i))
                        /\ d = c /\ i = n => (InQueue(v, d, i)' <=> v = w) /\ ~Runs(v, d, i)'
      BY <1>2, <2>1, ZenonT(60) DEF Moves
    <2>2. CASE d # c \/ i # n
      BY <1>12, <1>13, <2>2, SMT
    <2>3. CASE d = c /\ i = n
      <3>1. InQueue(v, c, n)' => v = w
        BY <1>9, <1>13
      <3>2. v = w => InQueue(v, c, n)'
        BY <1>11
      <3>3. ~Runs(v, c, n)'
        BY <1>9, <2>1
      <3> QED
        BY <2>3, <3>1, <3>2, <3>3
    <2> QED
      BY <2>2, <2>3
  <1>15. Located' /\ RoutedLast'
    BY <1>2, <1>6, <1>14, MovedLocated DEF Place
  <1>16. WorkerOrder'
    BY <1>2, <1>6, OrderKept
  <1>17. QueueOrder'
    <2> SUFFICES ASSUME NEW v \in Worker, NEW d \in Conn, NEW i \in 1 .. MaxMsgs,
                        NEW j \in 1 .. MaxMsgs, NEW k \in 1 .. Len(taskChan'[v]),
                        NEW l \in 1 .. Len(taskChan'[v]), k < l,
                        taskChan'[v][k] = TaskOf(d, i), taskChan'[v][l] = TaskOf(d, j)
                 PROVE  i < j
      BY ZenonT(60) DEF QueueOrder
    <2>1. CASE l \in 1 .. Len(taskChan[v]) /\ taskChan'[v][l] = taskChan[v][l]
      <3>1. k \in 1 .. Len(taskChan[v]) /\ taskChan'[v][k] = taskChan[v][k]
        <4>1. \/ k \in 1 .. Len(taskChan[v]) /\ taskChan'[v][k] = taskChan[v][k]
              \/ v = w /\ k = len + 1
          BY <1>10
        <4>2. ~(v = w /\ k = len + 1)
          BY <1>5, <2>1, SMT DEF len
        <4> QED
          BY <4>1, <4>2
      <3> QED
        BY <2>1, <3>1 DEF IInv, QueueOrder
    <2>2. CASE v = w /\ l = len + 1 /\ taskChan'[v][l] = TaskOf(c, n)
      <3>1. d = c /\ j = n
        BY <2>2, SameTask, SMT
      <3>2. k \in 1 .. Len(taskChan[v]) /\ taskChan[v][k] = TaskOf(c, i)
        <4>1. \/ k \in 1 .. Len(taskChan[v]) /\ taskChan'[v][k] = taskChan[v][k]
              \/ v = w /\ k = len + 1
          BY <1>10
        <4>2. ~(v = w /\ k = len + 1)
          BY <1>5, <2>2, SMT DEF len
        <4> QED
          BY <3>1, <4>1, <4>2
      <3>3. i \in Index(c) /\ log[c][i].place = "queued"
        <4>1. InQueue(v, c, i)
          BY <3>2 DEF InQueue
        <4> QED
          BY <4>1, SMT DEF IInv, Located, At
      <3>4. i # n /\ i <= n
        BY <1>2, <3>3, LogEntry DEF IInv
      <3> QED
        BY <3>1, <3>4, SMT
    <2> QED
      BY <1>10, <2>1, <2>2
  <1>18. Busy' /\ DrainsStopped'
    BY <1>3 DEF IInv, Busy, DrainsStopped
  <1>19. LateOnly'
    <2> SUFFICES ASSUME NEW v \in Worker, NEW d \in Conn, NEW i \in 1 .. MaxMsgs,
                        worker[v].loop = "exited", InQueue(v, d, i)'
                 PROVE  log'[d][i].late
      BY <1>3 DEF LateOnly
    <2>1. CASE InQueue(v, d, i)
      <3>1. log[d][i].late
        BY <2>1 DEF IInv, LateOnly
      <3>2. i \in Index(d) /\ log[d][i].place = "queued"
        BY <2>1, SMT DEF IInv, Located, At
      <3>3. log'[d][i] = log[d][i]
        BY <1>2, <1>6, <3>2 DEF Changed
      <3> QED
        BY <3>1, <3>3
    <2>2. CASE v = w /\ d = c /\ i = n
      <3>1. b
        BY <2>2 DEF IInv, DrainsStopped, b
      <3>2. log'[c][n].late
        BY <1>4, <1>6, <3>1
      <3> QED
        BY <2>2, <3>2
    <2> QED
      BY <1>13, <2>1, <2>2, SMT
  <1> QED
    BY <1>8, <1>15, <1>16, <1>17, <1>18, <1>19 DEF IInv

-----------------------------------------------------------------------------
(* A worker. *)

\* A worker takes the head of its queue.  What was read before it from the same
\* association and went to this worker is over: it is not in the queue behind
\* the head, nor running, nor still to be submitted.
LEMMA TakeIInv ==
    ASSUME IInv, NEW w \in Worker, Take(w)
    PROVE  IInv'
  <1> DEFINE t == Head(taskChan[w])
             q == Tail(taskChan[w])
  <1>1. /\ Idle(w) /\ taskChan[w] # <<>> /\ taskChan' = [taskChan EXCEPT ![w] = q]
        /\ worker' = [worker EXCEPT ![w].task = t] /\ log' = Fate(t, "running")
    BY ZenonT(60) DEF Take
  <1>2. UNCHANGED <<conn, dGNBLatched, connToWorker, nextWorker, stopped>>
    BY DEF Take, accVars, routeVars, mainVars
  <1>3. /\ taskChan[w] \in Seq(Task) /\ Len(taskChan[w]) \in Nat \ {0} /\ t = taskChan[w][1]
        /\ q \in Seq(Task) /\ Len(q) = Len(taskChan[w]) - 1
        /\ \A k \in 1 .. Len(q) : q[k] = taskChan[w][k + 1]
    <2>1. taskChan[w] \in Seq(Task)
      BY QueueEntry DEF IInv
    <2> QED
      BY <1>1, <2>1, Tails, Empties, SMT
  <1>4. t \in Task
    BY <1>3, QueueEntry, SMT DEF IInv
  <1>5. PICK c \in Conn, n \in 1 .. MaxMsgs : t = TaskOf(c, n)
    BY <1>4, Pairs
  <1>6. 1 \in 1 .. Len(taskChan[w]) /\ taskChan[w][1] = TaskOf(c, n)
    BY <1>3, <1>5, SMT
  <1> HIDE DEF t, q
  <1>7. n \in Index(c) /\ log[c][n].place = "queued" /\ log[c][n].worker = w
    <2>1. InQueue(w, c, n)
      BY <1>6 DEF InQueue
    <2> QED
      BY <2>1 DEF IInv, Located, At
  <1>8. Changed(c, n, "running") /\ log'[c][n].late = log[c][n].late
    BY <1>1, <1>5, <1>7, FateChanges DEF IInv, Place
  <1>9. /\ worker[w].task = NoTask /\ worker[w].loop \in {"run", "drain"}
        /\ worker' \in [Worker -> WorkerState] /\ worker'[w].task = TaskOf(c, n)
        /\ worker'[w].loop = worker[w].loop /\ \A v \in Worker \ {w} : worker'[v] = worker[v]
    BY <1>1, <1>4, <1>5 DEF Idle, IInv, Types, WorkerState
  <1>10. /\ taskChan' \in [Worker -> Seq(Task)] /\ taskChan'[w] = q
         /\ \A v \in Worker \ {w} : taskChan'[v] = taskChan[v]
    BY <1>1, <1>3 DEF IInv, Types
  <1>11. lastID' \in Nat /\ amfUeID' \in [Conn \X RanUeID -> Nat]
    <2>1. UNCHANGED idVars \/ \E u : AllocateAmfUeNgapID(u)
      BY DEF Take
    <2>2. ASSUME NEW u, AllocateAmfUeNgapID(u)
          PROVE  lastID' \in Nat /\ amfUeID' \in [Conn \X RanUeID -> Nat]
      <3>1. lastID + 1 \in Nat /\ lastID' = lastID + 1
        BY <2>2, SMT DEF AllocateAmfUeNgapID, IInv, Types
      <3> DEFINE n1 == lastID + 1
                 D == Conn \X RanUeID
      <3>2. amfUeID' = [amfUeID EXCEPT ![u] = n1] /\ amfUeID \in [D -> Nat]
        BY <2>2 DEF AllocateAmfUeNgapID, IInv, Types
      <3> HIDE DEF n1, D
      <3>3. amfUeID' \in [D -> Nat]
        BY <3>1, <3>2 DEF n1
      <3> QED
        BY <3>1, <3>3 DEF D
    <2>3. ASSUME UNCHANGED idVars
          PROVE  lastID' \in Nat /\ amfUeID' \in [Conn \X RanUeID -> Nat]
      BY <2>3 DEF idVars, IInv, Types
    <2> QED
      BY <2>1, <2>2, <2>3
  <1>12. Types' /\ KeyedWorker' /\ MappingSound'
    BY <1>2, <1>7, <1>8, <1>9, <1>10, <1>11, FateKeepsRouting
  <1>13. \A d \in Conn : Index(d)' = Index(d) /\ Len(log'[d]) = Len(log[d])
    BY <1>8 DEF Changed, SameRouting
  <1>14. \A d \in Conn : \A i \in Index(d) : d # c \/ i # n => log'[d][i] = log[d][i]
    BY <1>8 DEF Changed
  <1>15. \A d \in Conn : \A i \in Index(d) : log'[d][i].worker = log[d][i].worker
    BY <1>8 DEF Changed, SameRouting
  <1>16. ASSUME NEW v \in Worker, NEW k \in 1 .. Len(taskChan'[v])
         PROVE  \E l \in 1 .. Len(taskChan[v]) :
                  /\ taskChan'[v][k] = taskChan[v][l]
                  /\ IF v = w THEN l = k + 1 ELSE l = k
    <2>1. CASE v = w
      <3>1. k \in 1 .. Len(q) /\ k + 1 \in 1 .. Len(taskChan[w]) /\ taskChan'[v][k] = taskChan[w][k + 1]
        BY <1>3, <1>10, <2>1, SMT
      <3> QED
        BY <2>1, <3>1
    <2>2. CASE v # w
      BY <1>10, <2>2
    <2> QED
      BY <2>1, <2>2
  <1>17. ~InQueue(w, c, n)'
    <2> SUFFICES ASSUME InQueue(w, c, n)' PROVE FALSE
      OBVIOUS
    <2>1. PICK k \in 1 .. Len(taskChan'[w]) : taskChan'[w][k] = TaskOf(c, n)
      BY DEF InQueue
    <2>2. k + 1 \in 1 .. Len(taskChan[w]) /\ taskChan[w][k + 1] = TaskOf(c, n) /\ 1 < k + 1
      BY <1>3, <1>10, <1>16, <2>1, SMT
    <2>3. n < n
      BY <1>6, <2>2 DEF IInv, QueueOrder
    <2> QED
      BY <2>3, SMT
  <1>18. ASSUME NEW v \in Worker, NEW d \in Conn, NEW i \in 1 .. MaxMsgs, InQueue(v, d, i)'
         PROVE  InQueue(v, d, i)
    <2>1. PICK k \in 1 .. Len(taskChan'[v]) : taskChan'[v][k] = TaskOf(d, i)
      BY <1>18 DEF InQueue
    <2>2. PICK l \in 1 .. Len(taskChan[v]) : taskChan'[v][k] = taskChan[v][l]
      BY <1>16
    <2>3. taskChan[v][l] = TaskOf(d, i)
      BY <2>1, <2>2
    <2> QED
      BY <2>3 DEF InQueue
  <1>19. ASSUME NEW v \in Worker, NEW d \in Conn, NEW i \in 1 .. MaxMsgs, InQueue(v, d, i),
                d # c \/ i # n
         PROVE  InQueue(v, d, i)'
    <2>1. PICK k \in 1 .. Len(taskChan[v]) : taskChan[v][k] = TaskOf(d, i)
      BY <1>19 DEF InQueue
    <2>2. CASE v = w
      <3>1. TaskOf(d, i) # TaskOf(c, n)
        BY <1>19, SameTask
      <3>2. k # 1
        BY <1>6, <2>1, <2>2, <3>1
      <3>3. k - 1 \in 1 .. Len(q) /\ (k - 1) + 1 = k
        BY <1>3, <2>2, <3>2, SMT
      <3>4. q[k - 1] = TaskOf(d, i)
        BY <1>3, <2>1, <2>2, <3>3
      <3>5. \E l \in 1 .. Len(taskChan'[v]) : taskChan'[v][l] = TaskOf(d, i)
        BY <1>10, <2>2, <3>3, <3>4
      <3> QED
        BY <3>5 DEF InQueue
    <2>3. CASE v # w
      <3>1. \E l \in 1 .. Len(taskChan'[v]) : taskChan'[v][l] = TaskOf(d, i)
        BY <1>10, <2>1, <2>3
      <3> QED
        BY <3>1 DEF InQueue
    <2> QED
      BY <2>2, <2>3
  <1>20. ASSUME NEW v \in Worker, NEW d \in Conn, NEW i \in 1 .. MaxMsgs
         PROVE  /\ d # c \/ i # n => (Runs(v, d, i)' <=> Runs(v, d, i))
                /\ d = c /\ i = n => (Runs(v, d, i)' <=> v = w)
    <2>1. CASE v = w
      <3>1. Runs(v, d, i)' <=> TaskOf(c, n) = TaskOf(d, i)
        BY <1>9, <2>1 DEF Runs
      <3>2. ~Runs(v, d, i)
        BY <1>9, <2>1, SomeTask DEF Runs
      <3> QED
        BY <2>1, <3>1, <3>2, SameTask
    <2>2. CASE v # w
      <3>1. Runs(v, d, i)' <=> Runs(v, d, i)
        BY <1>9, <2>2 DEF Runs
      <3>2. ~Runs(v, c, n)
        BY <1>7 DEF IInv, Located, At
      <3> QED
        BY <2>2, <3>1, <3>2
    <2> QED
      BY <2>1, <2>2
  <1>21. Moves(c, n, "running")
    <2> SUFFICES ASSUME NEW v \in Worker, NEW d \in Conn, NEW i \in 1 .. MaxMsgs
                 PROVE  /\ d # c \/ i # n => (InQueue(v, d, i)' <=> InQueue(v, d, i))
                        /\ d = c /\ i = n => ~InQueue(v, d, i)'
      BY <1>7, <1>20, SMT DEF Moves
    <2>1. CASE d # c \/ i # n
      BY <1>18, <1>19, <2>1
    <2>2. CASE d = c /\ i = n
      <3>1. InQueue(v, c, n) => v = w
        BY <1>7, ZenonT(60) DEF IInv, Located, At
      <3> QED
        BY <1>17, <1>18, <2>2, <3>1
    <2> QED
      BY <2>1, <2>2
  <1>22. Located' /\ RoutedLast'
    BY <1>7, <1>8, <1>21, MovedLocated DEF Place
  <1>23. QueueOrder'
    <2> SUFFICES ASSUME NEW v \in Worker, NEW d \in Conn, NEW i \in 1 .. MaxMsgs,
                        NEW j \in 1 .. MaxMsgs, NEW k \in 1 .. Len(taskChan'[v]),
                        NEW l \in 1 .. Len(taskChan'[v]), k < l,
                        taskChan'[v][k] = TaskOf(d, i), taskChan'[v][l] = TaskOf(d, j)
                 PROVE  i < j
      BY ZenonT(60) DEF QueueOrder
    <2>1. PICK x \in 1 .. Len(taskChan[v]) :
            taskChan'[v][k] = taskChan[v][x] /\ IF v = w THEN x = k + 1 ELSE x = k
      BY <1>16
    <2>2. PICK y \in 1 .. Len(taskChan[v]) :
            taskChan'[v][l] = taskChan[v][y] /\ IF v = w THEN y = l + 1 ELSE y = l
      BY <1>16
    <2>3. x < y
      BY <1>3, <1>10, <2>1, <2>2, SMT
    <2> QED
      BY <2>1, <2>2, <2>3 DEF IInv, QueueOrder
  <1>24. Busy' /\ DrainsStopped'
    BY <1>2, <1>9 DEF IInv, Busy, DrainsStopped
  <1>25. WorkerOrder'
    <2> SUFFICES ASSUME NEW d \in Conn, NEW i \in Index(d)', NEW j \in Index(d)', i < j,
                        log'[d][i].worker = log'[d][j].worker,
                        log'[d][j].place \in {"running", "done"}
                 PROVE  log'[d][i].place \in {"done", "dropped"}
      BY ZenonT(60) DEF WorkerOrder, Over
    <2>a. i \in Index(d) /\ j \in Index(d)
      BY <1>13
    <2>b. log[d][i].worker = log[d][j].worker
      BY <1>15, <2>a
    <2> USE <2>a, <2>b
    <2>1. CASE d = c /\ j = n
      <3>1. log[c][i].worker = w /\ i < n /\ i \in Index(c) /\ i \in 1 .. MaxMsgs
        BY <1>7, <2>1, LogEntry DEF IInv
      <3>2. log[c][i].place # "queued"
        <4> SUFFICES ASSUME log[c][i].place = "queued" PROVE FALSE
          OBVIOUS
        <4>1. InQueue(w, c, i)
          BY <3>1 DEF IInv, Located, At
        <4>2. PICK k \in 1 .. Len(taskChan[w]) : taskChan[w][k] = TaskOf(c, i)
          BY <4>1 DEF InQueue
        <4>3. TaskOf(c, i) # TaskOf(c, n)
          BY <3>1, SameTask, SMT
        <4>4. k # 1
          BY <1>6, <4>2, <4>3
        <4>5. 1 < k
          BY <1>3, <4>4, SMT
        <4>6. n < i
          BY <1>6, <3>1, <4>2, <4>5 DEF IInv, QueueOrder
        <4> QED
          BY <3>1, <4>6, SMT
      <3>3. log[c][i].place # "running"
        <4>1. ~Runs(w, c, i)
          BY <1>9, SomeTask DEF Runs
        <4> QED
          BY <3>1, <4>1 DEF IInv, Located, At
      <3>4. log[c][i].place # "routed"
        <4>1. n <= Len(log[c]) /\ Len(log[c]) \in Nat
          BY <1>7, LogEntry DEF IInv
        <4>2. i # Len(log[c])
          BY <3>1, <4>1, SMT
        <4> QED
          BY <3>1, <4>2 DEF IInv, RoutedLast
      <3>5. log[c][i].place \in Place
        BY <3>1, LogEntry DEF IInv, Entry
      <3>6. log'[c][i] = log[c][i]
        BY <1>14, <3>1, SMT
      <3> QED
        BY <2>1, <3>2, <3>3, <3>4, <3>5, <3>6 DEF Place
    <2>2. CASE d # c \/ j # n
      <3>1. log[d][j].place \in {"running", "done"}
        BY <1>14, <2>2
      <3>2. log[d][i].place \in {"done", "dropped"}
        BY <3>1 DEF IInv, WorkerOrder, Over
      <3>3. d # c \/ i # n
        BY <1>7, <3>2
      <3> QED
        BY <1>14, <3>2, <3>3
    <2> QED
      BY <2>1, <2>2
  <1>26. LateOnly'
    <2>1. \A v \in Worker : worker'[v].loop = "exited" => worker[v].loop = "exited"
      BY <1>9
    <2> QED
      BY <1>7, <1>8, <1>21, <2>1, LateKept DEF Place
  <1> QED
    BY <1>12, <1>22, <1>23, <1>24, <1>25, <1>26 DEF IInv

\* A handler ends, with or without a panic: its message is over and the worker
\* has no task.
LEMMA HandlerEndsIInv ==
    ASSUME IInv, NEW w \in Worker, HandlerReturns(w) \/ HandlerPanics(w)
    PROVE  IInv'
  <1>1. /\ worker[w].task # NoTask /\ log' = Fate(worker[w].task, "done")
        /\ UNCHANGED <<conn, dGNBLatched, connToWorker, nextWorker, taskChan, lastID, amfUeID, stopped>>
    BY DEF HandlerReturns, HandlerPanics, accVars, routeVars, idVars, mainVars
  <1>2. /\ worker' \in [Worker -> WorkerState] /\ worker'[w].task = NoTask
        /\ worker'[w].loop \in {worker[w].loop, "panicked"}
        /\ \A v \in Worker \ {w} : worker'[v] = worker[v]
    <2>1. worker \in [Worker -> WorkerState] /\ worker[w] \in WorkerState
      BY DEF IInv, Types
    <2>2. CASE HandlerReturns(w)
      <3>1. worker' = [worker EXCEPT ![w].task = NoTask]
        BY <2>2 DEF HandlerReturns
      <3> QED
        BY <2>1, <3>1 DEF WorkerState
    <2>3. CASE HandlerPanics(w)
      <3> DEFINE s1 == [loop |-> "panicked", task |-> NoTask]
      <3>1. worker' = [worker EXCEPT ![w] = s1]
        BY <2>3 DEF HandlerPanics
      <3>2. s1 \in WorkerState /\ s1.task = NoTask /\ s1.loop = "panicked"
        BY DEF WorkerState
      <3> HIDE DEF s1
      <3> QED
        BY <2>1, <3>1, <3>2
    <2> QED
      BY <2>2, <2>3
  <1>3. worker[w].task \in Task
    BY <1>1 DEF IInv, Types, WorkerState
  <1>4. PICK c \in Conn, n \in 1 .. MaxMsgs : worker[w].task = TaskOf(c, n)
    BY <1>3, Pairs
  <1>5. n \in Index(c) /\ log[c][n].place = "running" /\ log[c][n].worker = w
    <2>1. Runs(w, c, n)
      BY <1>4 DEF Runs
    <2> QED
      BY <2>1 DEF IInv, Located, At
  <1>6. Changed(c, n, "done") /\ log'[c][n].late = log[c][n].late
    BY <1>1, <1>4, <1>5, FateChanges DEF IInv, Place
  <1>7. Types' /\ KeyedWorker' /\ MappingSound'
    <2>1. /\ lastID' \in Nat /\ amfUeID' \in [Conn \X RanUeID -> Nat]
          /\ taskChan' \in [Worker -> Seq(Task)]
      BY <1>1 DEF IInv, Types
    <2> QED
      BY <1>1, <1>2, <1>5, <1>6, <2>1, FateKeepsRouting
  <1>8. Moves(c, n, "done")
    <2> SUFFICES ASSUME NEW v \in Worker, NEW d \in Conn, NEW i \in 1 .. MaxMsgs
                 PROVE  /\ d # c \/ i # n => /\ InQueue(v, d, i)' <=> InQueue(v, d, i)
                                             /\ Runs(v, d, i)' <=> Runs(v, d, i)
                        /\ d = c /\ i = n => ~InQueue(v, d, i)' /\ ~Runs(v, d, i)'
      BY ZenonT(60) DEF Moves
    <2>1. InQueue(v, d, i)' <=> InQueue(v, d, i)
      BY <1>1 DEF InQueue
    <2>2. ~InQueue(v, c, n)
      BY <1>5 DEF IInv, Located, At
    <2>3. CASE v = w
      <3>1. ~Runs(v, d, i)'
        BY <1>2, <2>3, SomeTask DEF Runs
      <3>2. d # c \/ i # n => ~Runs(v, d, i)
        BY <1>4, <2>3, SameTask, SMT DEF Runs
      <3> QED
        BY <2>1, <2>2, <3>1, <3>2
    <2>4. CASE v # w
      <3>1. Runs(v, d, i)' <=> Runs(v, d, i)
        BY <1>2, <2>4 DEF Runs
      <3>2. ~Runs(v, c, n)
        BY <1>5, <2>4 DEF IInv, Located, At
      <3> QED
        BY <2>1, <2>2, <3>1, <3>2
    <2> QED
      BY <2>3, <2>4
  <1>9. Located' /\ RoutedLast'
    BY <1>5, <1>6, <1>8, MovedLocated DEF Place
  <1>10. WorkerOrder'
    BY <1>5, <1>6, OrderKept
  <1>11. QueueOrder'
    BY <1>1, SameQueues
  <1>12. worker[w].loop \in {"run", "drain"}
    BY <1>1 DEF IInv, Busy
  <1>13. Busy' /\ DrainsStopped'
    BY <1>1, <1>2, <1>12 DEF IInv, Busy, DrainsStopped
  <1>14. LateOnly'
    <2>1. \A v \in Worker : worker'[v].loop = "exited" => worker[v].loop = "exited"
      BY <1>2
    <2> QED
      BY <1>5, <1>6, <1>8, <2>1, LateKept DEF Place
  <1> QED
    BY <1>7, <1>9, <1>10, <1>11, <1>13, <1>14 DEF IInv

\* A worker without a task leaves its loop: to drain once it is stopped, and for
\* good when its queue is empty.
LEMMA LoopIInv ==
    ASSUME IInv, NEW w \in Worker, SeeStop(w) \/ drainAndExit(w)
    PROVE  IInv'
  <1>1. /\ UNCHANGED <<conn, dGNBLatched, connToWorker, nextWorker, log>>
        /\ UNCHANGED <<taskChan, lastID, amfUeID, stopped>>
    BY DEF SeeStop, drainAndExit, accVars, routeVars, idVars, mainVars
  <1>2. /\ worker' \in [Worker -> WorkerState]
        /\ worker'[w].task = NoTask /\ worker[w].task = NoTask
        /\ \A v \in Worker \ {w} : worker'[v] = worker[v]
    <2>1. worker \in [Worker -> WorkerState] /\ worker[w] \in WorkerState
      BY DEF IInv, Types
    <2>2. PICK l \in {"drain", "exited"} : worker' = [worker EXCEPT ![w].loop = l]
      BY DEF SeeStop, drainAndExit
    <2>3. worker[w].task = NoTask
      BY SMT DEF SeeStop, drainAndExit
    <2> QED
      BY <2>1, <2>2, <2>3 DEF WorkerState
  <1>3. w \in stopped
    BY SMT DEF SeeStop, drainAndExit, IInv, DrainsStopped
  <1>4. worker'[w].loop = "exited" => taskChan[w] = <<>>
    BY DEF SeeStop, drainAndExit, IInv, Types
  <1>5. \A v \in Worker : worker'[v].task = worker[v].task
    BY <1>2
  <1>6. Types'
    BY <1>1, <1>2 DEF IInv, Types
  <1>7. KeyedWorker' /\ MappingSound'
    BY <1>1, SameLog
  <1>8. QueueOrder'
    BY <1>1, SameQueues
  <1>9. RoutedLast' /\ WorkerOrder'
    BY <1>1 DEF IInv, RoutedLast, WorkerOrder, Over, Index
  <1>10. \A v, d, i : InQueue(v, d, i)' = InQueue(v, d, i)
    BY <1>1 DEF InQueue
  <1>11. Located'
    <2> SUFFICES ASSUME NEW v \in Worker, NEW d \in Conn, NEW i \in 1 .. MaxMsgs
                 PROVE  /\ InQueue(v, d, i)' <=> At(d, i, v, "queued")'
                        /\ Runs(v, d, i)' <=> At(d, i, v, "running")'
      BY DEF Located
    <2>1. Runs(v, d, i)' = Runs(v, d, i)
      BY <1>5 DEF Runs
    <2>2. At(d, i, v, "queued")' = At(d, i, v, "queued") /\ At(d, i, v, "running")' = At(d, i, v, "running")
      BY <1>1 DEF At, Index
    <2>3. (InQueue(v, d, i) <=> At(d, i, v, "queued")) /\ (Runs(v, d, i) <=> At(d, i, v, "running"))
      BY DEF IInv, Located
    <2> QED
      BY <1>10, <2>1, <2>2, <2>3
  <1>12. Busy' /\ DrainsStopped'
    BY <1>1, <1>2, <1>3 DEF IInv, Busy, DrainsStopped
  <1>13. LateOnly'
    <2> SUFFICES ASSUME NEW v \in Worker, NEW d \in Conn, NEW i \in 1 .. MaxMsgs,
                        worker'[v].loop = "exited", InQueue(v, d, i)'
                 PROVE  log'[d][i].late
      BY DEF LateOnly
    <2>1. InQueue(v, d, i)
      BY <1>10
    <2>2. Len(taskChan[v]) # 0
      BY <2>1, SMT DEF InQueue
    <2>3. v # w
      BY <1>4, <2>2, Empties
    <2>4. worker[v].loop = "exited"
      BY <1>2, <2>3
    <2> QED
      BY <1>1, <2>1, <2>4, ZenonT(60) DEF IInv, LateOnly
  <1> QED
    BY <1>6, <1>7, <1>8, <1>9, <1>11, <1>12, <1>13 DEF IInv

-----------------------------------------------------------------------------

\* Every step keeps the invariant.
LEMMA NextIInv == IInv /\ [Next]_vars => IInv'
  <1> SUFFICES ASSUME IInv, [Next]_vars PROVE IInv'
    OBVIOUS
  <1>1. CASE \E c \in Conn : Accept(c) \/ StartReader(c)
    BY <1>1, AcceptIInv
  <1>2. CASE \E c \in Conn, m \in Message : Dispatch(c, m)
    BY <1>2, DispatchIInv
  <1>3. CASE \E c \in Conn : SubmitQueued(c) \/ SubmitRejected(c)
    BY <1>3, SubmitQueuedIInv, SubmitRejectedIInv
  <1>4. CASE \E c \in Conn : ReadError(c) \/ ReleaseConn(c)
    BY <1>4, ReadErrorIInv, ReleaseConnIInv
  <1>5. CASE Main \/ \E c \in Conn : writeUsedWorkerCount(c)
    BY <1>5, MainIInv
  <1>6. CASE \E w \in Worker : Take(w)
    BY <1>6, TakeIInv
  <1>7. CASE \E w \in Worker : HandlerReturns(w) \/ HandlerPanics(w)
    BY <1>7, HandlerEndsIInv
  <1>8. CASE \E w \in Worker : SeeStop(w) \/ drainAndExit(w)
    BY <1>8, LoopIInv
  <1>9. CASE UNCHANGED vars
    <2>1. stopped \subseteq stopped' /\ UNCHANGED <<conn, routeVars, log, taskChan, worker, idVars>>
      BY <1>9 DEF vars, accVars, workVars, mainVars
    <2> QED
      BY <2>1, QuietIInv
  <1> QED
    BY <1>1, <1>2, <1>3, <1>4, <1>5, <1>6, <1>7, <1>8, <1>9 DEF Next, Reader, Works

\* The invariant holds throughout every behaviour.
THEOREM Invariance == Spec => []IInv
  BY InitIInv, NextIInv, PTL DEF Spec

\* Messages of one association with the same key are handled one at a time and in
\* the order they were read, with any number of workers, any queue length and
\* whatever the others do: the key fixes the worker (DispatchTask,
\* workerForConn, hashUEID) and a worker handles its queue in order.
THEOREM HandledInOrder == Spec => []InOrder
  <1>1. IInv => InOrder
    <2> SUFFICES ASSUME IInv, NEW c \in Conn, NEW i \in Index(c), NEW j \in Index(c),
                        i < j, SameKey(log[c][i], log[c][j]),
                        log[c][j].place \in {"running", "done"}
                 PROVE  Over(log[c][i])
      BY DEF InOrder
    <2>1. log[c][i] \in Entry /\ log[c][j] \in Entry
      BY LogEntry DEF IInv
    <2>2. CASE log[c][i].pinned
      <3>1. log[c][j].pinned
        BY <2>2 DEF SameKey
      <3> QED
        BY <2>2, <3>1, ZenonT(60) DEF IInv, KeyedWorker, WorkerOrder
    <2>3. CASE ~log[c][i].pinned
      <3>1. ~log[c][j].pinned /\ log[c][i].id = log[c][j].id
        BY <2>3 DEF SameKey
      <3>2. /\ log[c][i].worker = hashUEID(log[c][i].id)
            /\ log[c][j].worker = hashUEID(log[c][j].id)
        BY <2>3, <3>1 DEF IInv, KeyedWorker
      <3>3. log[c][i].worker = log[c][j].worker
        BY <3>1, <3>2
      <3> QED
        BY <3>3 DEF IInv, WorkerOrder
    <2> QED
      BY <2>2, <2>3
  <1> QED
    BY <1>1, Invariance, PTL

\* A worker that drained and exited leaves nothing in its queue but what was put
\* there after its stopChan was closed (Worker.run, drainAndExit, Submit).
THEOREM DrainsEverything == Spec => []DrainedAll
  <1>1. IInv => DrainedAll
    <2> SUFFICES ASSUME IInv, NEW w \in Worker, worker[w].loop = "exited",
                        NEW k \in 1 .. Len(taskChan[w])
                 PROVE  log[taskChan[w][k][1]][taskChan[w][k][2]].late
      BY DEF DrainedAll
    <2>1. PICK c \in Conn, i \in 1 .. MaxMsgs : taskChan[w][k] = TaskOf(c, i)
      BY QueueEntry, Pairs DEF IInv
    <2>2. InQueue(w, c, i)
      BY <2>1 DEF InQueue
    <2>3. log[c][i].late
      BY <2>2 DEF IInv, LateOnly
    <2>4. taskChan[w][k][1] = c /\ taskChan[w][k][2] = i
      BY <2>1, Components, SMT
    <2> QED
      BY <2>3, <2>4
  <1> QED
    BY <1>1, Invariance, PTL

\* connToWorker forgets an association with its reader, and while it maps one,
\* all its pinned messages went to that worker (workerForConn, ReleaseConn).
THEOREM MappingStaysSound == Spec => []MappingSound
  <1>1. IInv => MappingSound
    BY DEF IInv
  <1> QED
    BY <1>1, Invariance, PTL
=============================================================================

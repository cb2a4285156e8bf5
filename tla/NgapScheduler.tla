---------------------------- MODULE NgapScheduler ----------------------------
(***************************************************************************)
(* The NGAP worker pool of the AMF: the SCTP accept loop and the reader of *)
(* each association (NFs/amf/internal/ngap/service/service.go), the        *)
(* scheduler that routes each message to a worker, and the workers with    *)
(* their bounded queues (scheduler.go).                                    *)
(*                                                                         *)
(* One step of the accept loop, of a reader, of a worker or of the         *)
(* shutdown is an action.  The gNBs are external: a gNB numbers its UEs    *)
(* itself (RAN-UE-NGAP-ID) and uses the AMF-UE-NGAP-ID of a UE once the    *)
(* handler of the UE's InitialUEMessage has allocated it.                  *)
(***************************************************************************)
EXTENDS Integers, Sequences, FiniteSets

LOCAL INSTANCE Functions

CONSTANTS
    Conn,        \* SCTP associations (net.Conn values)
    RanUeID,     \* RAN-UE-NGAP-IDs a gNB gives to its UEs
    NumWorkers,  \* numWorkers
    BufSize,     \* capacity of a taskChan (taskBufferSize)
    MaxMsgs,     \* bound on the messages of one association
    MaxLoad,     \* bound on the messages of all associations
    MaxPanics    \* bound on the handlers that panic

ASSUME SchedulerAssumption ==
    /\ NumWorkers \in Nat \ {0} /\ BufSize \in Nat \ {0}
    /\ RanUeID \subseteq Nat \ {0} /\ MaxMsgs \in Nat
    /\ MaxLoad \in Nat /\ MaxPanics \in Nat

Worker == 0 .. NumWorkers - 1
NoWorker == -1
NoTask == <<>>
Message == [kind : {"NGSetup"}, ue : {0}]
             \cup [kind : {"InitialUE", "Uplink"}, ue : RanUeID]
Place == {"routed", "queued", "running", "done", "dropped"}

VARIABLES
    conn,          \* life of each association and of its reader
    activeConns,   \* activeConns
    nowActive,     \* the accept loop's count, 0 when it waits for a peer
    dGNBLatched,   \* dGNBLatched
    connToWorker,  \* connToWorker
    nextWorker,    \* nextWorker
    log,           \* the messages read from each association, with their fate
    used,          \* workers whose usedFlags entry is set
    toWrite,       \* count a reader has yet to write to worker_num.txt
    workerNum,     \* used_workers in worker_num.txt
    taskChan,      \* queue of each worker: <<association, index in log>>
    worker,        \* run or drain loop of each worker, and its current task
    amfUeID,       \* AMF-UE-NGAP-ID of each UE, 0 before it is allocated
    lastID,        \* the last ID amfUeNGAPIDGenerator gave out
    stopped,       \* workers whose stopChan is closed
    main           \* ShutdownScheduler and Stop in terminateProcedure

accVars == <<conn, activeConns, nowActive>>
routeVars == <<dGNBLatched, connToWorker, nextWorker>>
usedVars == <<used, toWrite, workerNum>>
idVars == <<amfUeID, lastID>>
workVars == <<taskChan, worker, idVars>>
mainVars == <<stopped, main>>
vars == <<accVars, routeVars, usedVars, workVars, mainVars, log>>

Task == Conn \X (1 .. MaxMsgs)
Entry == [kind : {"NGSetup", "InitialUE", "Uplink"}, ue : RanUeID \cup {0},
          id : Nat, pinned : BOOLEAN, worker : Worker, place : Place,
          late : BOOLEAN]

\* The variables stay in range; no queue outgrows its capacity.
TypeOK ==
    /\ conn \in [Conn -> {"none", "accepted", "open", "closed", "released"}]
    /\ activeConns \in 0 .. Cardinality(Conn)
    /\ nowActive \in 0 .. Cardinality(Conn)
    /\ dGNBLatched \in BOOLEAN
    /\ connToWorker \in [Conn -> Worker \cup {NoWorker}]
    /\ nextWorker \in Worker
    /\ \A c \in Conn : log[c] \in Seq(Entry) /\ Len(log[c]) <= MaxMsgs
    /\ used \subseteq Worker /\ workerNum \in 0 .. NumWorkers
    /\ toWrite \in [Conn -> 0 .. NumWorkers]
    /\ \A w \in Worker : taskChan[w] \in Seq(Task) /\ Len(taskChan[w]) <= BufSize
    /\ worker \in [Worker -> [loop : {"run", "drain", "exited", "panicked"},
                              task : Task \cup {NoTask}]]
    /\ lastID \in 0 .. Cardinality(Conn) * MaxMsgs
    /\ amfUeID \in [Conn \X RanUeID -> 0 .. lastID]
    /\ stopped \subseteq Worker
    /\ main \in {"run", "stopping", "waiting", "closing", "down"}

Init ==
    /\ conn = [c \in Conn |-> "none"] /\ activeConns = 0 /\ nowActive = 0
    /\ dGNBLatched = FALSE
    /\ connToWorker = [c \in Conn |-> NoWorker] /\ nextWorker = 0
    /\ log = [c \in Conn |-> <<>>]
    /\ used = {} /\ toWrite = [c \in Conn |-> 0] /\ workerNum = 0
    /\ taskChan = [w \in Worker |-> <<>>]
    /\ worker = [w \in Worker |-> [loop |-> "run", task |-> NoTask]]
    /\ amfUeID = [u \in Conn \X RanUeID |-> 0] /\ lastID = 0
    /\ stopped = {} /\ main = "run"

-----------------------------------------------------------------------------
(* The accept loop.  GetScheduler takes schedulerMutex for reading, which  *)
(* ShutdownScheduler holds for writing until the workers are gone.         *)

Locked == main \in {"stopping", "waiting"}

Accept(c) ==
    /\ conn[c] = "none" /\ nowActive = 0 /\ main # "down"
    /\ conn' = [conn EXCEPT ![c] = "accepted"]
    /\ activeConns' = activeConns + 1
    /\ nowActive' = activeConns + 1
    /\ UNCHANGED <<routeVars, usedVars, workVars, mainVars, log>>

NotifyActiveConns(active) == dGNBLatched \/ active >= 2

StartReader(c) ==
    /\ conn[c] = "accepted" /\ ~Locked
    /\ dGNBLatched' = NotifyActiveConns(nowActive)
    /\ conn' = [conn EXCEPT ![c] = "open"]
    /\ nowActive' = 0
    /\ UNCHANGED <<activeConns, connToWorker, nextWorker, usedVars, workVars,
                   mainVars, log>>

-----------------------------------------------------------------------------
(* The reader of an association.                                           *)

Last(c) == log[c][Len(log[c])]
Routed(c) == log[c] # <<>> /\ Last(c).place = "routed"
Reading(c) == conn[c] = "open" /\ ~Routed(c)

\* What the gNB can send now: NG Setup first, answered before UE messages.
GnbSends(c, m) ==
    CASE m.kind = "NGSetup"   -> log[c] = <<>>
      [] m.kind = "InitialUE" ->
           /\ log[c] # <<>> /\ log[c][1].place \in {"running", "done"}
           /\ \A i \in 1 .. Len(log[c]) : log[c][i].ue # m.ue
      [] m.kind = "Uplink"    -> amfUeID[c, m.ue] # 0

ExtractUEID(c, m) ==
    CASE m.kind = "NGSetup"   -> 0
      [] m.kind = "InitialUE" -> m.ue
      [] m.kind = "Uplink"    -> amfUeID[c, m.ue]

workerForConn(c) ==
    IF connToWorker[c] # NoWorker THEN connToWorker[c] ELSE nextWorker

hashUEID(id) == id % NumWorkers

\* dispatchToWorkerPool up to the Submit: the mode is read, the worker chosen
\* (pinned on first sight in dGNB mode) and marked used.
Dispatch(c, m) ==
    LET id == ExtractUEID(c, m)
        w == IF dGNBLatched THEN workerForConn(c) ELSE hashUEID(id)
        pin == dGNBLatched /\ connToWorker[c] = NoWorker
    IN  /\ Reading(c) /\ GnbSends(c, m) /\ ~Locked /\ main # "down"
        /\ Len(log[c]) < MaxMsgs /\ SumFunction([d \in Conn |-> Len(log[d])]) < MaxLoad
        /\ log' = [log EXCEPT ![c] = Append(@,
                     [kind |-> m.kind, ue |-> m.ue, id |-> id,
                      pinned |-> dGNBLatched, worker |-> w,
                      place |-> "routed", late |-> FALSE])]
        /\ connToWorker' = IF pin THEN [connToWorker EXCEPT ![c] = w]
                                  ELSE connToWorker
        /\ nextWorker' = IF pin THEN (nextWorker + 1) % NumWorkers ELSE nextWorker
        /\ used' = used \cup {w}
        /\ toWrite' = [toWrite EXCEPT ![c] =
                         IF w \in used THEN 0 ELSE Cardinality(used) + 1]
        /\ UNCHANGED <<accVars, dGNBLatched, workerNum, workVars, mainVars>>

writeUsedWorkerCount(c) ==
    /\ toWrite[c] # 0
    /\ workerNum' = toWrite[c]
    /\ toWrite' = [toWrite EXCEPT ![c] = 0]
    /\ UNCHANGED <<accVars, routeVars, used, workVars, mainVars, log>>

Fate(t, place) == [log EXCEPT ![t[1]][t[2]].place = place]

Submitting(c) == conn[c] = "open" /\ Routed(c) /\ toWrite[c] = 0

HasRoom(w) == Len(taskChan[w]) < BufSize

\* The select of Submit may take this case although stopChan is closed.
SubmitQueued(c) ==
    LET w == Last(c).worker
    IN  /\ Submitting(c) /\ HasRoom(w)
        /\ taskChan' = [taskChan EXCEPT ![w] = Append(@, <<c, Len(log[c])>>)]
        /\ log' = [log EXCEPT ![c][Len(log[c])] =
                     [@ EXCEPT !.place = "queued", !.late = w \in stopped]]
        /\ UNCHANGED <<accVars, routeVars, usedVars, worker, idVars, mainVars>>

SubmitRejected(c) ==
    /\ Submitting(c) /\ Last(c).worker \in stopped
    /\ log' = Fate(<<c, Len(log[c])>>, "dropped")
    /\ UNCHANGED <<accVars, routeVars, usedVars, workVars, mainVars>>

\* The read fails (the peer left, or Stop closed the association).
ReadError(c) ==
    /\ Reading(c)
    /\ conn' = [conn EXCEPT ![c] = "closed"]
    /\ activeConns' = activeConns - 1
    /\ UNCHANGED <<nowActive, routeVars, usedVars, workVars, mainVars, log>>

\* Mutated: the mapping outlives the association.
ReleaseConnKept(c) ==
    /\ conn[c] = "closed" /\ ~Locked
    /\ conn' = [conn EXCEPT ![c] = "released"]
    /\ UNCHANGED <<activeConns, nowActive, routeVars, usedVars, workVars,
                   mainVars, log>>

ReleaseConn(c) ==
    /\ conn[c] = "closed" /\ ~Locked
    /\ conn' = [conn EXCEPT ![c] = "released"]
    /\ connToWorker' = [connToWorker EXCEPT ![c] = NoWorker]
    /\ UNCHANGED <<activeConns, nowActive, dGNBLatched, nextWorker, usedVars,
                   workVars, mainVars, log>>

-----------------------------------------------------------------------------
(* A worker.                                                               *)

Idle(w) == worker[w].loop \in {"run", "drain"} /\ worker[w].task = NoTask

\* NewRanUe takes the next ID for the UE.
AllocateAmfUeNgapID(u) ==
    lastID' = lastID + 1 /\ amfUeID' = [amfUeID EXCEPT ![u] = lastID + 1]

\* Mutated: the handler runs in a goroutine of its own.
TakeAsync(w) ==
    LET t == Head(taskChan[w])
        e == log[t[1]][t[2]]
    IN  /\ worker[w].loop \in {"run", "drain"} /\ taskChan[w] # <<>>
        /\ taskChan' = [taskChan EXCEPT ![w] = Tail(@)]
        /\ worker' = [worker EXCEPT ![w].task = t]
        /\ log' = Fate(t, "running")
        /\ IF e.kind = "InitialUE" THEN AllocateAmfUeNgapID(<<t[1], e.ue>>)
                                   ELSE UNCHANGED idVars
        /\ UNCHANGED <<accVars, routeVars, usedVars, mainVars>>

\* Mutated: drainAndExit empties the queue without handling the tasks.
TakeDiscards(w) ==
    LET t == Head(taskChan[w])
        e == log[t[1]][t[2]]
        runs == worker[w].loop = "run"
    IN  /\ Idle(w) /\ taskChan[w] # <<>>
        /\ taskChan' = [taskChan EXCEPT ![w] = Tail(@)]
        /\ worker' = IF runs THEN [worker EXCEPT ![w].task = t] ELSE worker
        /\ log' = Fate(t, IF runs THEN "running" ELSE "dropped")
        /\ IF runs /\ e.kind = "InitialUE" THEN AllocateAmfUeNgapID(<<t[1], e.ue>>)
                                           ELSE UNCHANGED idVars
        /\ UNCHANGED <<accVars, routeVars, usedVars, mainVars>>

\* The worker takes a task, in run or in drainAndExit, and its handler starts;
\* that of an InitialUEMessage allocates the AMF-UE-NGAP-ID.
Take(w) ==
    LET t == Head(taskChan[w])
        e == log[t[1]][t[2]]
    IN  /\ Idle(w) /\ taskChan[w] # <<>>
        /\ taskChan' = [taskChan EXCEPT ![w] = Tail(@)]
        /\ worker' = [worker EXCEPT ![w].task = t]
        /\ log' = Fate(t, "running")
        /\ IF e.kind = "InitialUE" THEN AllocateAmfUeNgapID(<<t[1], e.ue>>)
                                   ELSE UNCHANGED idVars
        /\ UNCHANGED <<accVars, routeVars, usedVars, mainVars>>

HandlerReturns(w) ==
    /\ worker[w].task # NoTask
    /\ log' = Fate(worker[w].task, "done")
    /\ worker' = [worker EXCEPT ![w].task = NoTask]
    /\ UNCHANGED <<accVars, routeVars, usedVars, taskChan, idVars, mainVars>>

\* The recover of run ends the goroutine; its queue has no reader any more.
HandlerPanics(w) ==
    /\ worker[w].task # NoTask
    /\ Cardinality({v \in Worker : worker[v].loop = "panicked"}) < MaxPanics
    /\ log' = Fate(worker[w].task, "done")
    /\ worker' = [worker EXCEPT ![w] = [loop |-> "panicked", task |-> NoTask]]
    /\ UNCHANGED <<accVars, routeVars, usedVars, taskChan, idVars, mainVars>>

\* Mutated: a stopped worker leaves its queue.
SeeStopLeaves(w) ==
    /\ worker[w] = [loop |-> "run", task |-> NoTask] /\ w \in stopped
    /\ worker' = [worker EXCEPT ![w].loop = "exited"]
    /\ UNCHANGED <<accVars, routeVars, usedVars, taskChan, idVars, mainVars, log>>

\* Mutated: the worker notices stopChan only when it has nothing to drain, and
\* then waits for a task that never comes.
SeeStopBlocks(w) ==
    /\ worker[w] = [loop |-> "run", task |-> NoTask] /\ w \in stopped
    /\ taskChan[w] # <<>>
    /\ worker' = [worker EXCEPT ![w].loop = "drain"]
    /\ UNCHANGED <<accVars, routeVars, usedVars, taskChan, idVars, mainVars, log>>

SeeStop(w) ==
    /\ worker[w] = [loop |-> "run", task |-> NoTask] /\ w \in stopped
    /\ worker' = [worker EXCEPT ![w].loop = "drain"]
    /\ UNCHANGED <<accVars, routeVars, usedVars, taskChan, idVars, mainVars, log>>

drainAndExit(w) ==
    /\ worker[w] = [loop |-> "drain", task |-> NoTask] /\ taskChan[w] = <<>>
    /\ worker' = [worker EXCEPT ![w].loop = "exited"]
    /\ UNCHANGED <<accVars, routeVars, usedVars, taskChan, idVars, mainVars, log>>

-----------------------------------------------------------------------------
(* Termination of the AMF.                                                 *)

Shutdown ==
    /\ main = "run"
    /\ main' = "stopping"
    /\ UNCHANGED <<accVars, routeVars, usedVars, workVars, stopped, log>>

StopWorker ==
    LET w == Cardinality(stopped)
    IN  /\ main = "stopping"
        /\ stopped' = stopped \cup {w}
        /\ main' = IF w = NumWorkers - 1 THEN "waiting" ELSE "stopping"
        /\ UNCHANGED <<accVars, routeVars, usedVars, workVars, log>>

WaitWorkers ==
    /\ main = "waiting"
    /\ \A w \in Worker : worker[w].loop \in {"exited", "panicked"}
    /\ main' = "closing"
    /\ UNCHANGED <<accVars, routeVars, usedVars, workVars, stopped, log>>

Stop ==
    /\ main = "closing"
    /\ main' = "down"
    /\ UNCHANGED <<accVars, routeVars, usedVars, workVars, stopped, log>>

-----------------------------------------------------------------------------
Reader(c) ==
    \/ Accept(c) \/ StartReader(c)
    \/ \E m \in Message : Dispatch(c, m)
    \/ writeUsedWorkerCount(c) \/ SubmitQueued(c) \/ SubmitRejected(c)
    \/ ReadError(c) \/ ReleaseConn(c)

Works(w) == Take(w) \/ HandlerReturns(w) \/ SeeStop(w) \/ drainAndExit(w)
Main == Shutdown \/ StopWorker \/ WaitWorkers \/ Stop

Next ==
    \/ \E c \in Conn : Reader(c)
    \/ \E w \in Worker : Works(w) \/ HandlerPanics(w)
    \/ Main

Spec == Init /\ [][Next]_vars

\* Go runs every goroutine that can run, and handlers return.  Peers, panics
\* and the signal that starts the termination are not owed.
Fairness ==
    /\ \A w \in Worker : WF_vars(Works(w))
    /\ \A c \in Conn : WF_vars(writeUsedWorkerCount(c) \/ SubmitQueued(c)
                                 \/ SubmitRejected(c))
    /\ WF_vars(StopWorker \/ WaitWorkers \/ Stop)

FairSpec == Spec /\ Fairness

-----------------------------------------------------------------------------
(* Properties.                                                             *)

Index(c) == 1 .. Len(log[c])

\* Two messages of an association that the same rule routes by the same key.
SameKey(e, f) == e.pinned = f.pinned /\ (e.pinned \/ e.id = f.id)
Over(e) == e.place \in {"done", "dropped"}

\* Messages of one association that are routed in the same mode and, when
\* hashed, by the same UE ID are handled one at a time, in the order they were
\* read: the handler of the later one starts after that of the earlier one
\* ended (DispatchTask, workerForConn, hashUEID, the FIFO of taskChan).
InOrder ==
    \A c \in Conn : \A i, j \in Index(c) :
        i < j /\ SameKey(log[c][i], log[c][j])
              /\ log[c][j].place \in {"running", "done"} => Over(log[c][i])

\* What is left in the queue of a worker that drained and exited was put there
\* after the worker's stopChan was closed; all that was queued before is
\* handled (Worker.run, drainAndExit).
DrainedAll ==
    \A w \in Worker : worker[w].loop = "exited" =>
        \A k \in 1 .. Len(taskChan[w]) :
            LET t == taskChan[w][k] IN log[t[1]][t[2]].late

\* connToWorker holds no association whose reader has gone, and every mapping
\* agrees with the worker of all messages of that association which were routed
\* in dGNB mode (workerForConn, ReleaseConn).
MappingSound ==
    \A c \in Conn :
        /\ conn[c] \in {"none", "accepted", "released"} => connToWorker[c] = NoWorker
        /\ connToWorker[c] # NoWorker =>
             \A i \in Index(c) : log[c][i].pinned => log[c][i].worker = connToWorker[c]

\* Once it starts, the shutdown of the scheduler and the SCTP service ends:
\* while it holds schedulerMutex no reader routes a new message, so the queues
\* run dry (ShutdownScheduler, GetScheduler, drainAndExit).
ShutdownEnds == main = "stopping" ~> main = "down"

\* A message accepted by a worker that is not stopped is handled, unless an
\* earlier handler on that worker panics (Submit, run, drainAndExit).
QueuedHandled ==
    \A c \in Conn : \A i \in 1 .. MaxMsgs :
        (i \in Index(c) /\ log[c][i].place = "queued" /\ ~log[c][i].late)
            ~> (i \in Index(c) /\ \/ log[c][i].place = "done"
                                  \/ worker[log[c][i].worker].loop = "panicked")

\* From the first message an association pins to a worker on, all messages of
\* the association are handled in arrival order, those read before included
\* (the comments on UEScheduler and dispatchToWorkerPool).
ArrivalOrder ==
    \A c \in Conn : \A i, j \in Index(c) :
        i < j /\ log[c][j].pinned /\ log[c][j].place \in {"running", "done"}
            => Over(log[c][i])

\* Two workers never handle messages of the same UE at the same time (the
\* comment on AmfUe.WorkerTrace, which is written without a lock).
SerialPerUE ==
    \A c \in Conn : \A i, j \in Index(c) :
        i # j /\ log[c][i].ue = log[c][j].ue /\ log[c][i].ue # 0
            => ~(log[c][i].place = "running" /\ log[c][j].place = "running")

\* Submit returns "false if the worker is stopped" (its comment in
\* scheduler.go): a worker whose loop has ended has no task in its queue.
StoppedWorkerRefuses ==
    \A w \in Worker : worker[w].loop = "exited" => taskChan[w] = <<>>
=============================================================================

----------------------------- MODULE PerioServer -----------------------------
(***************************************************************************)
(* The periodic usage-report server of the UPF                             *)
(* (NFs/upf/internal/forwarder/perio/server.go) together with the two      *)
(* goroutines it exchanges events with: the PFCP main loop, which          *)
(* registers and removes timers and consumes the reports, and the shutdown *)
(* goroutine of the application.                                           *)
(*                                                                         *)
(* evtCh (EvtCap slots) carries ADD, DEL and CLOSE from the PFCP loop and  *)
(* the shutdown goroutine, and TIMEOUT from one ticker goroutine per       *)
(* period.  srCh (SrCap slots) carries the reports back to the PFCP loop.  *)
(* Both channels block their senders when full and make a sender panic     *)
(* once they are closed.                                                   *)
(***************************************************************************)
EXTENDS Naturals, Sequences

CONSTANTS
    Period,      \* measurement periods: the keys of perioList
    SEID,        \* local session ids
    URRID,       \* URR ids inside a session
    EvtCap,      \* capacity of evtCh (EVENT_CHANNEL_LEN)
    SrCap,       \* capacity of srCh (REPORT_CHANNEL_LEN)
    MaxPending,  \* bound on load: tickers fire and requests come while fewer
                 \* events are queued (above EvtCap: no bound)
    None         \* no period

ASSUME PerioAssumption ==
    /\ EvtCap \in Nat \ {0} /\ SrCap \in Nat \ {0} /\ MaxPending \in Nat
    /\ None \notin Period

Timer == SEID \X URRID
Event == [type : {"ADD"}, timer : Timer, period : Period]
           \cup [type : {"DEL"}, timer : Timer]
           \cup [type : {"TIMEOUT"}, period : Period]
           \cup [type : {"CLOSE"}]
Report == [seid : SEID, urrs : SUBSET URRID]

VARIABLES
    evtCh,      \* queued events
    evtClosed,  \* evtCh has been closed
    perioList,  \* periods that have a PERIOGroup
    urrids,     \* the timers of each group
    ticker,     \* the ticker goroutine of each period
    serve,      \* where the Serve goroutine is
    cur,        \* the period whose ticker Serve is stopping
    closing,    \* Serve is handling CLOSE
    rpts,       \* reports Serve has still to hand over
    srCh,       \* queued session reports
    srClosed,   \* srCh has been closed
    main,       \* where the PFCP main loop is
    calls,      \* perio calls the request in hand has still to make
    alive,      \* the sessions of LocalNode
    sess,       \* the URRs of every live session (its URRIDs)
    period,     \* history: the period each URR was last created with, None for
                \* a URR that is not periodic or not there
    leaked,     \* history: timers registered by failed establishments
    moved,      \* history: timers of periodic URRs created again in another way
    closer,     \* where the shutdown goroutine is
    crashed     \* some goroutine panicked: the process is gone

serveVars == <<serve, cur, closing, rpts>>
timerVars == <<perioList, urrids, ticker>>
sessVars == <<alive, sess, period, leaked, moved>>
mainVars == <<main, calls, sessVars>>
evtVars == <<evtCh, evtClosed>>
srVars == <<srCh, srClosed>>
vars == <<evtVars, timerVars, serveVars, srVars, mainVars, closer, crashed>>

\* Every variable has a value the program can give it; evtCh keeps to its capacity.
TypeOK ==
    /\ evtCh \in Seq(Event) /\ Len(evtCh) <= EvtCap /\ evtClosed \in BOOLEAN
    /\ perioList \subseteq Period
    /\ urrids \in [Period -> SUBSET Timer]
    /\ ticker \in [Period -> {"none", "select", "sending"}]
    /\ serve \in {"range", "stop", "notify", "done"}
    /\ cur \in Period \cup {None} /\ closing \in BOOLEAN
    /\ rpts \subseteq Report
    /\ srCh \in Seq(Report) /\ srClosed \in BOOLEAN
    /\ main \in {"select", "call", "stopped"}
    /\ calls \subseteq Event
    /\ alive \subseteq SEID /\ sess \in [SEID -> SUBSET URRID]
    /\ period \in [Timer -> Period \cup {None}]
    /\ leaked \subseteq Timer /\ moved \subseteq Timer
    /\ closer \in {"running", "closing", "done"}
    /\ crashed \in BOOLEAN

Init ==
    /\ evtCh = <<>> /\ evtClosed = FALSE
    /\ perioList = {} /\ urrids = [p \in Period |-> {}]
    /\ ticker = [p \in Period |-> "none"]
    /\ serve = "range" /\ cur = None /\ closing = FALSE /\ rpts = {}
    /\ srCh = <<>> /\ srClosed = FALSE
    /\ main = "select" /\ calls = {}
    /\ alive = {} /\ sess = [s \in SEID |-> {}]
    /\ period = [t \in Timer |-> None] /\ leaked = {} /\ moved = {}
    /\ closer = "running" /\ crashed = FALSE

\* evtCh <- e, executed by any goroutine: blocks on a full channel, panics on
\* a closed one.
SendEvt(e) ==
    \/ /\ evtClosed
       /\ crashed' = TRUE /\ UNCHANGED evtVars
    \/ /\ ~evtClosed /\ Len(evtCh) < EvtCap
       /\ evtCh' = Append(evtCh, e) /\ UNCHANGED <<evtClosed, crashed>>

-----------------------------------------------------------------------------
(* The ticker goroutine of a period (newTicker). *)

\* ticker.C fires and the goroutine leaves its select for the send.
Tick(p) ==
    /\ ticker[p] = "select" /\ Len(evtCh) < MaxPending
    /\ ticker' = [ticker EXCEPT ![p] = "sending"]
    /\ UNCHANGED <<evtVars, perioList, urrids, serveVars, srVars, mainVars,
                   closer, crashed>>

TickSend(p) ==
    /\ ticker[p] = "sending"
    /\ SendEvt([type |-> "TIMEOUT", period |-> p])
    /\ ticker' = [ticker EXCEPT ![p] = "select"]
    /\ UNCHANGED <<perioList, urrids, serveVars, srVars, mainVars, closer>>

-----------------------------------------------------------------------------
(* The Serve goroutine. *)

Recv(type) ==
    /\ serve = "range" /\ evtCh # <<>> /\ Head(evtCh).type = type
    /\ evtCh' = Tail(evtCh)

ServeAdd ==
    /\ Recv("ADD")
    /\ LET p == Head(evtCh).period IN
       /\ perioList' = perioList \cup {p}
       /\ ticker' = IF p \in perioList THEN ticker
                    ELSE [ticker EXCEPT ![p] = "select"]
       /\ urrids' = [urrids EXCEPT ![p] = @ \cup {Head(evtCh).timer}]
    /\ UNCHANGED <<evtClosed, serveVars, srVars, mainVars, closer, crashed>>

\* Mutated: the ticker of an emptied group keeps running.
ServeDelKeeps ==
    /\ Recv("DEL")
    /\ LET t == Head(evtCh).timer
           having == {p \in perioList : t \in urrids[p]} IN
       \/ having = {} /\ UNCHANGED urrids
       \/ \E p \in having : urrids' = [urrids EXCEPT ![p] = @ \ {t}]
    /\ UNCHANGED <<evtClosed, perioList, ticker, serveVars, srVars, mainVars,
                   closer, crashed>>

\* DEL searches the groups in map order and stops at the first that has the
\* timer; the ticker of an emptied group is stopped before the group goes.
ServeDel ==
    /\ Recv("DEL")
    /\ LET t == Head(evtCh).timer
           having == {p \in perioList : t \in urrids[p]} IN
       \/ /\ having = {}
          /\ UNCHANGED <<urrids, serve, cur>>
       \/ \E p \in having :
            /\ urrids' = [urrids EXCEPT ![p] = @ \ {t}]
            /\ IF urrids[p] = {t} THEN serve' = "stop" /\ cur' = p
                                  ELSE UNCHANGED <<serve, cur>>
    /\ UNCHANGED <<evtClosed, perioList, ticker, closing, rpts, srVars,
                   mainVars, closer, crashed>>

\* What psQueryURR answers is up to the kernel: an error or no report (the
\* empty set), or the reports of some of the URRs asked for.
ServeTimeout ==
    /\ Recv("TIMEOUT")
    /\ LET p == Head(evtCh).period IN
       \E answered \in SUBSET (IF p \in perioList THEN urrids[p] ELSE {}) :
         /\ rpts' = {[seid |-> s, urrs |-> {u \in URRID : <<s, u>> \in answered}] :
                       s \in {t[1] : t \in answered}}
         /\ serve' = IF answered = {} THEN "range" ELSE "notify"
    /\ UNCHANGED <<evtClosed, timerVars, cur, closing, srVars, mainVars, closer,
                   crashed>>

\* Mutated: Serve returns without stopping the tickers.
StopNextOfNone(groups) ==
    serve' = "done" /\ cur' = None /\ evtClosed' = TRUE

\* The next ticker to stop while CLOSE is handled; without one Serve returns
\* and its deferred function closes evtCh.
StopNextOf(groups) ==
    IF groups = {}
    THEN serve' = "done" /\ cur' = None /\ evtClosed' = TRUE
    ELSE serve' = "stop" /\ cur' \in groups /\ UNCHANGED evtClosed

ServeClose ==
    /\ Recv("CLOSE")
    /\ closing' = TRUE
    /\ StopNextOf(perioList)
    /\ UNCHANGED <<timerVars, rpts, srVars, mainVars, closer, crashed>>

\* Mutated: stopCh is buffered, so Serve does not wait for the ticker.
StopTickerAsync ==
    /\ serve = "stop"
    /\ ticker' = IF ticker[cur] = "select" THEN [ticker EXCEPT ![cur] = "none"]
                 ELSE ticker
    /\ perioList' = perioList \ {cur} /\ urrids' = [urrids EXCEPT ![cur] = {}]
    /\ IF closing THEN StopNextOf(perioList \ {cur})
       ELSE serve' = "range" /\ cur' = None /\ UNCHANGED evtClosed
    /\ UNCHANGED <<evtCh, closing, rpts, srVars, mainVars, closer, crashed>>

\* stopTicker: an unbuffered send that the ticker goroutine takes in its
\* select, and not while it is blocked on evtCh; then the group is deleted.
StopTicker ==
    /\ serve = "stop" /\ ticker[cur] = "select"
    /\ ticker' = [ticker EXCEPT ![cur] = "none"]
    /\ perioList' = perioList \ {cur} /\ urrids' = [urrids EXCEPT ![cur] = {}]
    /\ IF closing THEN StopNextOf(perioList \ {cur})
       ELSE serve' = "range" /\ cur' = None /\ UNCHANGED evtClosed
    /\ UNCHANGED <<evtCh, closing, rpts, srVars, mainVars, closer, crashed>>

\* NotifySessReport: srCh <- report, for each session in map order.
Notify ==
    /\ serve = "notify"
    /\ \/ /\ srClosed /\ crashed' = TRUE /\ UNCHANGED <<srCh, rpts, serve>>
       \/ /\ ~srClosed /\ Len(srCh) < SrCap
          /\ \E r \in rpts :
               /\ srCh' = Append(srCh, r) /\ rpts' = rpts \ {r}
               /\ serve' = IF rpts = {r} THEN "range" ELSE "notify"
          /\ UNCHANGED crashed
    /\ UNCHANGED <<evtVars, timerVars, cur, closing, srClosed, mainVars, closer>>

Serve == ServeAdd \/ ServeDel \/ ServeTimeout \/ ServeClose \/ StopTicker \/ Notify

-----------------------------------------------------------------------------
(* The PFCP main loop, as far as the perio server sees it. *)

Request(s, live, urrs, events) ==
    /\ main = "select" /\ Len(evtCh) < MaxPending
    /\ alive' = live /\ sess' = [sess EXCEPT ![s] = urrs]
    /\ calls' = events /\ main' = IF events = {} THEN "select" ELSE "call"
    /\ UNCHANGED <<evtVars, timerVars, serveVars, srVars, closer, crashed>>

\* AddPeriodReportTimer is called for a URR with a period only, and
\* DelPeriodReportTimer for any URR.
AddCalls(s, u, p) ==
    IF p = None THEN {}
    ELSE {[type |-> "ADD", timer |-> <<s, u>>, period |-> p]}
Del(s, u) == [type |-> "DEL", timer |-> <<s, u>>]

\* Session establishment with a URR.  ExecuteEstablishmentPlan registers the
\* timer before the kernel calls; when one of those fails the session is deleted
\* again while its URRIDs are still empty, so Close removes nothing.
Establish(s, u, p, ok) ==
    /\ s \notin alive
    /\ IF ok
       THEN /\ Request(s, alive \cup {s}, {u}, AddCalls(s, u, p))
            /\ period' = [period EXCEPT ![<<s, u>>] = p] /\ UNCHANGED leaked
       ELSE /\ Request(s, alive, {}, AddCalls(s, u, p))
            /\ leaked' = (IF p = None THEN leaked ELSE leaked \cup {<<s, u>>})
            /\ UNCHANGED period
    /\ UNCHANGED moved

\* Session modification with a CreateURR.  Nothing asks whether the session has
\* the URR already: it is created again, and added to the group of its new
\* period without leaving the one of the old period.
CreateURR(s, u, p) ==
    /\ s \in alive
    /\ Request(s, alive, sess[s] \cup {u}, AddCalls(s, u, p))
    /\ period' = [period EXCEPT ![<<s, u>>] = p]
    /\ moved' = IF period[<<s, u>>] \in {None, p} THEN moved
                ELSE moved \cup {<<s, u>>}
    /\ UNCHANGED leaked

\* Session modification with a RemoveURR.
RemoveURR(s, u) ==
    /\ s \in alive /\ u \in sess[s]
    /\ Request(s, alive, sess[s] \ {u}, {Del(s, u)})
    /\ period' = [period EXCEPT ![<<s, u>>] = None]
    /\ UNCHANGED <<leaked, moved>>

\* Mutated: Close leaves one URR out of its removal plan.
DeleteSessPartly(s) ==
    /\ s \in alive
    /\ \E u \in URRID :
         Request(s, alive \ {s}, {}, {Del(s, v) : v \in sess[s] \ {u}})
    /\ period' = [t \in Timer |-> IF t[1] = s THEN None ELSE period[t]]
    /\ UNCHANGED <<leaked, moved>>

\* Session deletion: Close plans a removal for every URR of the session.
DeleteSess(s) ==
    /\ s \in alive
    /\ Request(s, alive \ {s}, {}, {Del(s, u) : u \in sess[s]})
    /\ period' = [t \in Timer |-> IF t[1] = s THEN None ELSE period[t]]
    /\ UNCHANGED <<leaked, moved>>

\* AddPeriodReportTimer or DelPeriodReportTimer of the request in hand.
Call ==
    /\ main = "call"
    /\ \E e \in calls :
         /\ SendEvt(e)
         /\ calls' = calls \ {e}
         /\ main' = IF calls = {e} THEN "select" ELSE "call"
    /\ UNCHANGED <<timerVars, serveVars, srVars, sessVars, closer>>

\* case sr := <-s.srCh
ServeReport ==
    /\ main = "select" /\ srCh # <<>>
    /\ srCh' = Tail(srCh)
    /\ UNCHANGED <<evtVars, timerVars, serveVars, srClosed, mainVars, closer,
                   crashed>>

\* Mutated: the empty packet is skipped like any other undecodable one.
MainStopSkipped ==
    /\ main = "select"
    /\ UNCHANGED vars

\* An empty packet ends the loop, which closes srCh: the receiver sends one when
\* the socket is closed, and passes on any empty datagram as well.
MainStop ==
    /\ main = "select"
    /\ main' = "stopped" /\ srClosed' = TRUE
    /\ UNCHANGED <<evtVars, timerVars, serveVars, srCh, calls, sessVars, closer,
                   crashed>>

Main ==
    \/ \E s \in SEID :
         \/ \E u \in URRID, p \in Period \cup {None} :
              \/ \E ok \in BOOLEAN : Establish(s, u, p, ok)
              \/ CreateURR(s, u, p)
         \/ \E u \in URRID : RemoveURR(s, u)
         \/ DeleteSess(s)
    \/ Call \/ ServeReport \/ MainStop

-----------------------------------------------------------------------------
(* listenShutdownEvent: close the socket, then close the driver. *)

StopPfcp ==
    /\ closer = "running" /\ closer' = "closing"
    /\ UNCHANGED <<evtVars, timerVars, serveVars, srVars, mainVars, crashed>>

CloseDriver ==
    /\ closer = "closing" /\ closer' = "done"
    /\ SendEvt([type |-> "CLOSE"])
    /\ UNCHANGED <<timerVars, serveVars, srVars, mainVars>>

AllStopped ==
    /\ serve = "done" /\ main = "stopped" /\ closer = "done"
    /\ \A p \in Period : ticker[p] = "none"

\* wg.Wait returned, or the process died.
Terminated == (AllStopped \/ crashed) /\ UNCHANGED vars

Next ==
    \/ /\ ~crashed
       /\ \/ \E p \in Period : Tick(p) \/ TickSend(p)
          \/ Serve \/ Main \/ StopPfcp \/ CloseDriver
    \/ Terminated

Spec == Init /\ [][Next]_vars

\* Every goroutine keeps running.  The runtime queues blocked senders in FIFO
\* order and a select picks among its ready cases at random: a case that is
\* ready again and again is taken (strong fairness).  Only the closed socket is
\* sure to bring the main loop its empty packet.
Fairness ==
    /\ WF_vars(~crashed /\ (ServeAdd \/ ServeDel \/ ServeTimeout \/ ServeClose))
    /\ SF_vars(~crashed /\ StopTicker)
    /\ SF_vars(~crashed /\ Notify)
    /\ \A p \in Period : SF_vars(~crashed /\ TickSend(p))
    /\ SF_vars(~crashed /\ Call)
    /\ SF_vars(~crashed /\ ServeReport)
    /\ SF_vars(~crashed /\ closer # "running" /\ MainStop)
    /\ SF_vars(~crashed /\ CloseDriver)

FairSpec == Spec /\ Fairness

-----------------------------------------------------------------------------
(* Properties. *)

\* A period has a ticker goroutine exactly as long as it has a group: newTicker
\* never starts a second ticker for a period and no ticker outlives its group.
TickerPerGroup == \A p \in Period : ticker[p] # "none" <=> p \in perioList

\* Serve closes evtCh only after the last ticker goroutine has accepted its
\* stop, so no ticker sends on the closed channel.  (server.go:68 expects the
\* tickers to see a nil evtCh instead, which never happens.)
TickersStoppedBeforeClose == evtClosed => \A p \in Period : ticker[p] = "none"

\* No ticker runs for nothing: a group whose last URR was deleted exists only
\* while Serve is stopping its ticker (server.go:164, "Stop ticker if no more
\* PERIO URR").
GroupsInUse == \A p \in perioList : urrids[p] = {} => serve = "stop" /\ cur = p

\* Nothing is on its way between the PFCP loop and the perio server.
Quiet == serve = "range" /\ evtCh = <<>> /\ calls = {} /\ ~crashed

\* The timer is one of a URR of a live session.
Live(t) == t[1] \in alive /\ t[2] \in sess[t[1]]

Grouped(t, p) == p \in perioList /\ t \in urrids[p]

\* Once its calls are processed the perio server has the timer of every periodic
\* URR of a live session in the group of the period the URR was last created
\* with.  A timer it has elsewhere, or for a URR that is not periodic or is gone,
\* was left by a failed establishment or by a URR that was created again with
\* another period: there is no other way to lose one or to keep one.
TimersFollowSessions ==
    Quiet => \A t \in Timer, p \in Period :
        /\ Live(t) /\ period[t] = p => Grouped(t, p)
        /\ Grouped(t, p) => (Live(t) /\ period[t] = p) \/ t \in leaked \cup moved

\* A session whose establishment failed is "not created" (session.go:698), and
\* a deleted one is gone: neither leaves a periodic timer behind.
NoTimerWithoutSession ==
    Quiet => \A t \in Timer, p \in Period : Grouped(t, p) => Live(t)

\* Refuted: a URR that is created again is reported with its new period, not
\* with the old one as well.
NoTimerOfOldPeriod ==
    Quiet => \A t \in Timer \ leaked, p \in Period :
                Grouped(t, p) => period[t] = p

\* Shutdown is graceful (app.go:86): no goroutine panics on a closed channel.
NoPanic == ~crashed

\* evtCh is full and nobody will ever read it: Serve stops a ticker that is
\* sending, or reports to a PFCP loop that is itself sending.
Standstill ==
    /\ Len(evtCh) = EvtCap /\ ~evtClosed
    /\ \/ serve = "stop" /\ ticker[cur] = "sending"
       \/ serve = "notify" /\ Len(srCh) = SrCap /\ main = "call"

\* After the shutdown signal every goroutine stops (app.go:93), unless one of
\* them panicked and took the process down, or they meet in the standstill of a
\* full channel: there is no other way to hang.
ShutdownCompletes == closer # "running" ~> AllStopped \/ crashed \/ Standstill

\* Refuted for a full channel: after the shutdown signal every goroutine stops.
ShutdownAlwaysCompletes == closer # "running" ~> AllStopped \/ crashed
=============================================================================

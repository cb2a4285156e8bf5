-------------------------- MODULE PerioServerProofs --------------------------
(***************************************************************************)
(* Proofs that PerioServer keeps its type invariant, one ticker goroutine  *)
(* per group, no group without a URR, a stopped set of tickers once evtCh  *)
(* is closed, and, once its calls are processed, every periodic URR of a   *)
(* live session in the group of its period and, but for the listed         *)
(* leftovers, no other: for any sets of periods, sessions and URRs and any *)
(* channel capacities.                                                     *)
(***************************************************************************)
EXTENDS PerioServer, TLAPS

\* Leaves go to Zenon; those with arithmetic or sequences cite SMT.
USE Zenon

\* What ties Serve's program counter to the groups: the ticker being stopped
\* belongs to a group, and evtCh is closed exactly when Serve has returned,
\* which it does with no group left.
ServePlace ==
    /\ serve = "stop" => cur \in perioList
    /\ serve = "done" => perioList = {}
    /\ evtClosed <=> serve = "done"

IInv == TypeOK /\ TickerPerGroup /\ ServePlace /\ GroupsInUse

\* Receiving from evtCh yields an event and leaves a shorter queue of events.
LEMMA RecvEvent ==
    ASSUME TypeOK, evtCh # <<>>
    PROVE  /\ Head(evtCh) \in Event
           /\ Tail(evtCh) \in Seq(Event) /\ Len(Tail(evtCh)) <= EvtCap
  BY PerioAssumption, SMT DEF TypeOK

\* An ADD or DEL event carries a timer, an ADD or TIMEOUT event a period.
LEMMA EventFields ==
    ASSUME NEW e \in Event
    PROVE  /\ e.type \in {"ADD", "DEL"} => e.timer \in Timer
           /\ e.type \in {"ADD", "TIMEOUT"} => e.period \in Period
  BY DEF Event

\* Sending an event keeps evtCh a queue of at most EvtCap events and never
\* closes it.
LEMMA SendEvtKeepsType ==
    ASSUME TypeOK, NEW e \in Event, SendEvt(e)
    PROVE  /\ evtCh' \in Seq(Event) /\ Len(evtCh') <= EvtCap
           /\ evtClosed' = evtClosed /\ crashed' \in BOOLEAN
  <1>1. CASE evtClosed /\ crashed' = TRUE /\ UNCHANGED evtVars
    BY <1>1 DEF TypeOK, evtVars
  <1>2. CASE /\ ~evtClosed /\ Len(evtCh) < EvtCap
             /\ evtCh' = Append(evtCh, e) /\ UNCHANGED <<evtClosed, crashed>>
    <2>1. evtCh \in Seq(Event) /\ crashed \in BOOLEAN
      BY DEF TypeOK
    <2>2. evtCh' \in Seq(Event) /\ Len(evtCh') = Len(evtCh) + 1
      BY <1>2, <2>1, SMT
    <2>3. Len(evtCh) \in Nat
      BY <2>1, SMT
    <2> QED
      BY <1>2, <2>1, <2>2, <2>3, PerioAssumption, SMT
  <1> QED
    BY <1>1, <1>2 DEF SendEvt

\* The initial state satisfies the invariant.
LEMMA InitIInv == Init => IInv
  <1> SUFFICES ASSUME Init PROVE IInv
    OBVIOUS
  <1>1. evtCh \in Seq(Event) /\ Len(evtCh) <= EvtCap /\ srCh \in Seq(Report)
    BY PerioAssumption, SMT DEF Init
  <1>2. TypeOK
    BY <1>1 DEF Init, TypeOK
  <1>3. TickerPerGroup /\ ServePlace /\ GroupsInUse
    BY DEF Init, TickerPerGroup, ServePlace, GroupsInUse
  <1> QED
    BY <1>2, <1>3 DEF IInv

\* A ticker firing keeps the invariant: its group exists and stays.
LEMMA TickIInv ==
    ASSUME IInv, NEW p \in Period, Tick(p)
    PROVE  IInv'
  BY SMT DEF IInv, TypeOK, TickerPerGroup, ServePlace, GroupsInUse, Tick, evtVars, serveVars,
         srVars, mainVars, sessVars

\* A ticker sending its TIMEOUT keeps the invariant.
LEMMA TickSendIInv ==
    ASSUME IInv, NEW p \in Period, TickSend(p)
    PROVE  IInv'
  <1> DEFINE e == [type |-> "TIMEOUT", period |-> p]
  <1>1. e \in Event
    BY DEF Event
  <1>2. /\ evtCh' \in Seq(Event) /\ Len(evtCh') <= EvtCap
        /\ evtClosed' = evtClosed /\ crashed' \in BOOLEAN
    BY <1>1, SendEvtKeepsType DEF TickSend, IInv
  <1> QED
    BY <1>2, ZenonT(60) DEF IInv, TypeOK, TickerPerGroup, ServePlace, GroupsInUse, TickSend, serveVars,
                srVars, mainVars, sessVars

\* ADD keeps the invariant: the ticker is started with the group.
LEMMA ServeAddIInv ==
    ASSUME IInv, ServeAdd
    PROVE  IInv'
  <1> DEFINE e == Head(evtCh)
  <1>1. e \in Event /\ evtCh' \in Seq(Event) /\ Len(evtCh') <= EvtCap
    BY RecvEvent DEF ServeAdd, Recv, IInv
  <1>2. e.timer \in Timer /\ e.period \in Period
    BY <1>1, EventFields DEF ServeAdd, Recv
  <1>3. /\ perioList' = perioList \cup {e.period}
        /\ ticker' = IF e.period \in perioList THEN ticker
                     ELSE [ticker EXCEPT ![e.period] = "select"]
        /\ urrids' = [urrids EXCEPT ![e.period] = @ \cup {e.timer}]
        /\ serve = "range" /\ serve' = serve /\ cur' = cur
        /\ evtClosed' = evtClosed
    BY DEF ServeAdd, Recv, serveVars
  <1>4. TypeOK'
    <2>1. urrids' \in [Period -> SUBSET Timer]
      BY <1>2, <1>3 DEF IInv, TypeOK
    <2>2. perioList' \subseteq Period
      BY <1>2, <1>3 DEF IInv, TypeOK
    <2>3. ticker' \in [Period -> {"none", "select", "sending"}]
      BY <1>2, <1>3 DEF IInv, TypeOK
    <2> QED
      BY <1>1, <2>1, <2>2, <2>3, ZenonT(60)
         DEF IInv, TypeOK, ServeAdd, serveVars, srVars, mainVars, sessVars
  <1>5. TickerPerGroup'
    BY <1>2, <1>3 DEF IInv, TypeOK, TickerPerGroup
  <1>6. ServePlace'
    BY <1>3 DEF IInv, ServePlace
  <1>7. GroupsInUse'
    <2>1. \A r \in Period : urrids[r] \subseteq urrids'[r]
      BY <1>2, <1>3 DEF IInv, TypeOK
    <2>2. e.timer \in urrids'[e.period]
      BY <1>2, <1>3 DEF IInv, TypeOK
    <2> QED
      BY <1>2, <1>3, <2>1, <2>2 DEF IInv, TypeOK, GroupsInUse
  <1> QED
    BY <1>4, <1>5, <1>6, <1>7 DEF IInv

\* DEL keeps the invariant: it leaves the groups alone, and the ticker it
\* decides to stop belongs to one.
LEMMA ServeDelIInv ==
    ASSUME IInv, ServeDel
    PROVE  IInv'
  <1>1. evtCh' \in Seq(Event) /\ Len(evtCh') <= EvtCap
    BY RecvEvent DEF ServeDel, Recv, IInv
  <1>2. /\ urrids' \in [Period -> SUBSET Timer]
        /\ \/ serve' = "range" /\ cur' = cur
           \/ serve' = "stop" /\ cur' \in perioList
    BY DEF ServeDel, Recv, IInv, TypeOK
  <1>3. UNCHANGED <<evtClosed, perioList, ticker, closing, rpts, srVars,
                    mainVars, closer, crashed>> /\ serve = "range"
    BY DEF ServeDel, Recv
  <1>4. GroupsInUse'
    <2> DEFINE t == Head(evtCh).timer
    <2>1. CASE UNCHANGED <<urrids, serve, cur>>
      BY <1>3, <2>1 DEF IInv, GroupsInUse
    <2>2. ASSUME NEW p \in perioList, urrids' = [urrids EXCEPT ![p] = @ \ {t}],
                 IF urrids[p] = {t} THEN serve' = "stop" /\ cur' = p
                                    ELSE UNCHANGED <<serve, cur>>,
                 t \in urrids[p]
          PROVE  GroupsInUse'
      <3>1. \A r \in Period : urrids'[r] = IF r = p THEN urrids[p] \ {t} ELSE urrids[r]
        BY <2>2 DEF IInv, TypeOK
      <3>2. urrids[p] \ {t} = {} => urrids[p] = {t}
        BY <2>2
      <3> QED
        BY <1>3, <2>2, <3>1, <3>2 DEF IInv, TypeOK, GroupsInUse
    <2> QED
      BY <2>1, <2>2 DEF ServeDel
  <1>5. TypeOK'
    BY <1>1, <1>2, <1>3 DEF IInv, TypeOK, srVars, mainVars, sessVars
  <1> QED
    BY <1>2, <1>3, <1>4, <1>5 DEF IInv, TickerPerGroup, ServePlace

\* TIMEOUT keeps the invariant: it only collects reports.
LEMMA ServeTimeoutIInv ==
    ASSUME IInv, ServeTimeout
    PROVE  IInv'
  <1> DEFINE p == Head(evtCh).period
             asked == IF p \in perioList THEN urrids[p] ELSE {}
  <1>1. evtCh' \in Seq(Event) /\ Len(evtCh') <= EvtCap
    BY RecvEvent DEF ServeTimeout, Recv, IInv
  <1>2. PICK answered \in SUBSET asked :
          /\ rpts' = {[seid |-> s, urrs |-> {u \in URRID : <<s, u>> \in answered}] :
                        s \in {t[1] : t \in answered}}
          /\ serve' = IF answered = {} THEN "range" ELSE "notify"
    BY DEF ServeTimeout
  <1>3. answered \subseteq Timer
    BY DEF IInv, TypeOK
  <1>4. rpts' \subseteq Report
    <2>1. ASSUME NEW t \in answered
          PROVE  [seid |-> t[1], urrs |-> {u \in URRID : <<t[1], u>> \in answered}]
                   \in Report
      BY <1>3 DEF Report, Timer
    <2> QED
      BY <1>2, <2>1
  <1>5. UNCHANGED <<evtClosed, timerVars, cur, closing, srVars, mainVars, closer,
                    crashed>> /\ serve = "range"
    BY DEF ServeTimeout, Recv
  <1> QED
    BY <1>1, <1>2, <1>4, <1>5 DEF IInv, TypeOK, TickerPerGroup, ServePlace, GroupsInUse,
                                  timerVars, srVars, mainVars, sessVars

\* What StopNextOf leaves behind when it is given the groups still there.
LEMMA StopNextOfPlace ==
    ASSUME IInv, NEW groups \in SUBSET Period, serve # "done",
           StopNextOf(groups)
    PROVE  /\ serve' \in {"stop", "done"} /\ cur' \in Period \cup {None}
           /\ serve' = "stop" => cur' \in groups
           /\ serve' = "done" => groups = {}
           /\ evtClosed' \in BOOLEAN
           /\ evtClosed' <=> serve' = "done"
  BY DEF StopNextOf, IInv, TypeOK, ServePlace

\* CLOSE keeps the invariant: evtCh is closed at once only without a group.
LEMMA ServeCloseIInv ==
    ASSUME IInv, ServeClose
    PROVE  IInv'
  <1>1. evtCh' \in Seq(Event) /\ Len(evtCh') <= EvtCap
    BY RecvEvent DEF ServeClose, Recv, IInv
  <1>2. StopNextOf(perioList) /\ serve = "range" /\ closing' = TRUE
    BY DEF ServeClose, Recv
  <1>3. UNCHANGED <<timerVars, rpts, srVars, mainVars, closer, crashed>>
    BY DEF ServeClose
  <1>4. perioList \in SUBSET Period
    BY DEF IInv, TypeOK
  <1> QED
    BY <1>1, <1>2, <1>3, <1>4, StopNextOfPlace
       DEF IInv, TypeOK, TickerPerGroup, ServePlace, GroupsInUse, timerVars, srVars,
           mainVars, sessVars

\* A ticker accepting its stop keeps the invariant: goroutine and group go
\* together.
LEMMA StopTickerIInv ==
    ASSUME IInv, StopTicker
    PROVE  IInv'
  <1> DEFINE groups == perioList \ {cur}
  <1>1. /\ serve = "stop" /\ cur \in Period /\ evtClosed = FALSE
        /\ groups \in SUBSET Period
    BY DEF StopTicker, IInv, TypeOK, ServePlace
  <1>2. /\ ticker' = [ticker EXCEPT ![cur] = "none"]
        /\ perioList' = groups /\ urrids' = [urrids EXCEPT ![cur] = {}]
        /\ UNCHANGED <<evtCh, closing, rpts, srVars, mainVars, closer, crashed>>
    BY DEF StopTicker
  <1>3. /\ serve' \in {"stop", "done", "range"} /\ cur' \in Period \cup {None}
        /\ serve' = "stop" => cur' \in groups
        /\ serve' = "done" => groups = {}
        /\ evtClosed' \in BOOLEAN /\ (evtClosed' <=> serve' = "done")
    <2>1. CASE closing
      BY <2>1, <1>1, StopNextOfPlace DEF StopTicker
    <2>2. CASE ~closing
      BY <2>2, <1>1 DEF StopTicker
    <2> QED
      BY <2>1, <2>2
  <1>4. TickerPerGroup'
    BY <1>1, <1>2 DEF IInv, TypeOK, TickerPerGroup
  <1>5. TypeOK'
    BY <1>1, <1>2, <1>3, ZenonT(60) DEF IInv, TypeOK, srVars, mainVars, sessVars
  <1>6. GroupsInUse'
    BY <1>1, <1>2 DEF IInv, TypeOK, GroupsInUse
  <1> QED
    BY <1>2, <1>3, <1>4, <1>5, <1>6 DEF IInv, ServePlace

\* Handing a report over keeps the invariant.
LEMMA NotifyIInv ==
    ASSUME IInv, Notify
    PROVE  IInv'
  <1>1. /\ srCh' \in Seq(Report) /\ rpts' \subseteq Report
        /\ serve' \in {"range", "notify"} /\ crashed' \in BOOLEAN
    <2>1. srCh \in Seq(Report) /\ rpts \subseteq Report /\ crashed \in BOOLEAN
      BY DEF IInv, TypeOK
    <2>2. CASE srClosed /\ crashed' = TRUE /\ UNCHANGED <<srCh, rpts, serve>>
      BY <2>1, <2>2 DEF Notify
    <2>3. CASE /\ UNCHANGED crashed
               /\ \E r \in rpts :
                    /\ srCh' = Append(srCh, r) /\ rpts' = rpts \ {r}
                    /\ serve' = IF rpts = {r} THEN "range" ELSE "notify"
      <3>1. PICK r \in rpts :
              /\ srCh' = Append(srCh, r) /\ rpts' = rpts \ {r}
              /\ serve' = IF rpts = {r} THEN "range" ELSE "notify"
        BY <2>3
      <3>2. r \in Report
        BY <2>1
      <3> QED
        BY <2>1, <2>3, <3>1, <3>2, SMT
    <2> QED
      BY <2>2, <2>3 DEF Notify
  <1>2. UNCHANGED <<evtVars, timerVars, cur, closing, srClosed, mainVars, closer>>
        /\ serve = "notify"
    BY DEF Notify
  <1> QED
    BY <1>1, <1>2 DEF IInv, TypeOK, TickerPerGroup, ServePlace, GroupsInUse, evtVars,
                      timerVars, mainVars, sessVars

\* A PFCP request keeps the invariant: it only plans perio calls.
LEMMA RequestIInv ==
    ASSUME IInv, NEW s \in SEID, NEW live \in SUBSET SEID,
           NEW urrs \in SUBSET URRID, NEW events \in SUBSET Event,
           Request(s, live, urrs, events), leaked' \subseteq Timer,
           moved' \subseteq Timer, period' \in [Timer -> Period \cup {None}]
    PROVE  IInv'
  BY SMT DEF Request, IInv, TypeOK, TickerPerGroup, ServePlace, GroupsInUse, evtVars, timerVars,
         serveVars, srVars

\* The PFCP loop's steps keep the invariant.
LEMMA MainIInv ==
    ASSUME IInv, Main
    PROVE  IInv'
  <1>1. /\ alive \subseteq SEID /\ sess \in [SEID -> SUBSET URRID]
        /\ leaked \subseteq Timer /\ moved \subseteq Timer
        /\ period \in [Timer -> Period \cup {None}]
    BY DEF IInv, TypeOK
  <1>2. ASSUME NEW s \in SEID, NEW u \in URRID, NEW p \in Period \cup {None}
        PROVE  AddCalls(s, u, p) \in SUBSET Event /\ <<s, u>> \in Timer
    <2>1. <<s, u>> \in Timer
      BY DEF Timer
    <2>2. CASE p = None
      BY <2>1, <2>2 DEF AddCalls
    <2>3. CASE p \in Period
      <3> DEFINE e == [type |-> "ADD", timer |-> <<s, u>>, period |-> p]
      <3>1. AddCalls(s, u, p) = {e}
        BY <2>3, PerioAssumption DEF AddCalls
      <3>2. e \in Event
        BY <2>1, <2>3 DEF Event
      <3> QED
        BY <2>1, <3>1, <3>2
    <2> QED
      BY <2>1, <2>2, <2>3
  <1>3. ASSUME NEW s \in SEID, NEW u \in URRID
        PROVE  Del(s, u) \in Event
    BY DEF Del, Event, Timer
  <1>4. ASSUME NEW s \in SEID, NEW u \in URRID, NEW p \in Period \cup {None},
               NEW ok \in BOOLEAN, Establish(s, u, p, ok)
        PROVE  IInv'
    <2>1. /\ leaked' \subseteq Timer /\ moved' \subseteq Timer
          /\ period' \in [Timer -> Period \cup {None}]
      <3>1. /\ period' = [period EXCEPT ![<<s, u>>] = p] \/ period' = period
            /\ leaked' = leaked \cup {<<s, u>>} \/ leaked' = leaked
            /\ moved' = moved
        BY <1>4 DEF Establish
      <3> QED
        BY <1>1, <1>2, <3>1
    <2>2. CASE ok
      <3>1. Request(s, alive \cup {s}, {u}, AddCalls(s, u, p))
        BY <2>2, <1>4 DEF Establish
      <3>2. alive \cup {s} \in SUBSET SEID /\ {u} \in SUBSET URRID
        BY <1>1
      <3> QED
        BY <3>1, <3>2, <2>1, <1>2, RequestIInv
    <2>3. CASE ~ok
      <3>1. Request(s, alive, {}, AddCalls(s, u, p))
        BY <2>3, <1>4 DEF Establish
      <3>2. alive \in SUBSET SEID /\ {} \in SUBSET URRID
        BY <1>1
      <3> QED
        BY <3>1, <3>2, <2>1, <1>2, RequestIInv
    <2> QED
      BY <2>2, <2>3
  <1>5. ASSUME NEW s \in SEID, NEW u \in URRID, NEW p \in Period \cup {None},
               CreateURR(s, u, p)
        PROVE  IInv'
    <2>1. /\ alive \in SUBSET SEID /\ sess[s] \cup {u} \in SUBSET URRID
          /\ Request(s, alive, sess[s] \cup {u}, AddCalls(s, u, p))
      BY <1>1, <1>5 DEF CreateURR
    <2>2. /\ leaked' \subseteq Timer /\ moved' \subseteq Timer
          /\ period' \in [Timer -> Period \cup {None}]
      BY <1>1, <1>2, <1>5 DEF CreateURR
    <2> QED
      BY <2>1, <2>2, <1>2, RequestIInv
  <1>6. ASSUME NEW s \in SEID, NEW u \in URRID, RemoveURR(s, u)
        PROVE  IInv'
    <2>1. /\ alive \in SUBSET SEID /\ sess[s] \ {u} \in SUBSET URRID
          /\ {Del(s, u)} \in SUBSET Event
          /\ Request(s, alive, sess[s] \ {u}, {Del(s, u)})
      BY <1>1, <1>3, <1>6 DEF RemoveURR
    <2>2. /\ leaked' \subseteq Timer /\ moved' \subseteq Timer
          /\ period' \in [Timer -> Period \cup {None}]
      BY <1>1, <1>6 DEF RemoveURR
    <2> QED
      BY <2>1, <2>2, RequestIInv
  <1>7. ASSUME NEW s \in SEID, DeleteSess(s)
        PROVE  IInv'
    <2> DEFINE events == {Del(s, u) : u \in sess[s]}
    <2>1. /\ alive \ {s} \in SUBSET SEID /\ {} \in SUBSET URRID
          /\ events \in SUBSET Event
      BY <1>1, <1>3
    <2>2. /\ leaked' \subseteq Timer /\ moved' \subseteq Timer
          /\ period' \in [Timer -> Period \cup {None}]
      BY <1>1, <1>7 DEF DeleteSess
    <2>3. Request(s, alive \ {s}, {}, events)
      BY <1>7 DEF DeleteSess
    <2> QED
      BY <2>1, <2>2, <2>3, RequestIInv
  <1>8. CASE Call
    <2>1. PICK e \in calls : /\ SendEvt(e) /\ calls' = calls \ {e}
                             /\ main' = IF calls = {e} THEN "select" ELSE "call"
      BY <1>8 DEF Call
    <2>2. e \in Event
      BY DEF IInv, TypeOK
    <2>3. /\ evtCh' \in Seq(Event) /\ Len(evtCh') <= EvtCap
          /\ evtClosed' = evtClosed /\ crashed' \in BOOLEAN
      BY <2>1, <2>2, SendEvtKeepsType DEF IInv
    <2> QED
      BY <1>8, <2>1, <2>3, ZenonT(60) DEF Call, IInv, TypeOK, TickerPerGroup, ServePlace, GroupsInUse,
                              timerVars, serveVars, srVars, sessVars
  <1>9. CASE ServeReport
    BY <1>9, SMT DEF ServeReport, IInv, TypeOK, TickerPerGroup, ServePlace, GroupsInUse, evtVars,
                timerVars, serveVars, mainVars, sessVars
  <1>10. CASE MainStop
    BY <1>10 DEF MainStop, IInv, TypeOK, TickerPerGroup, ServePlace, GroupsInUse, evtVars,
                 timerVars, serveVars, sessVars
  <1> QED
    BY <1>4, <1>5, <1>6, <1>7, <1>8, <1>9, <1>10 DEF Main

\* The shutdown goroutine's steps keep the invariant.
LEMMA ShutdownIInv ==
    ASSUME IInv, StopPfcp \/ CloseDriver
    PROVE  IInv'
  <1>1. CASE StopPfcp
    BY <1>1, SMT DEF StopPfcp, IInv, TypeOK, TickerPerGroup, ServePlace, GroupsInUse, evtVars,
                timerVars, serveVars, srVars, mainVars, sessVars
  <1>2. CASE CloseDriver
    <2>1. [type |-> "CLOSE"] \in Event
      BY DEF Event
    <2>2. /\ evtCh' \in Seq(Event) /\ Len(evtCh') <= EvtCap
          /\ evtClosed' = evtClosed /\ crashed' \in BOOLEAN
      BY <1>2, <2>1, SendEvtKeepsType DEF CloseDriver, IInv
    <2> QED
      BY <1>2, <2>2 DEF CloseDriver, IInv, TypeOK, TickerPerGroup, ServePlace, GroupsInUse,
                        timerVars, serveVars, srVars, mainVars, sessVars
  <1> QED
    BY <1>1, <1>2

\* Every step keeps the invariant.
LEMMA NextIInv == IInv /\ [Next]_vars => IInv'
  <1> SUFFICES ASSUME IInv, [Next]_vars PROVE IInv'
    OBVIOUS
  <1>1. CASE \E p \in Period : Tick(p) \/ TickSend(p)
    BY <1>1, TickIInv, TickSendIInv
  <1>2. CASE Serve
    BY <1>2, ServeAddIInv, ServeDelIInv, ServeTimeoutIInv, ServeCloseIInv,
       StopTickerIInv, NotifyIInv DEF Serve
  <1>3. CASE Main
    BY <1>3, MainIInv
  <1>4. CASE StopPfcp \/ CloseDriver
    BY <1>4, ShutdownIInv
  <1>5. CASE UNCHANGED vars
    BY <1>5, SMT DEF vars, IInv, TypeOK, TickerPerGroup, ServePlace, GroupsInUse, evtVars,
                timerVars, serveVars, srVars, mainVars, sessVars
  <1> QED
    BY <1>1, <1>2, <1>3, <1>4, <1>5 DEF Next, Terminated

\* The invariant holds in every reachable state.
LEMMA Invariance == Spec => []IInv
  BY InitIInv, NextIInv, PTL DEF Spec

\* The variables of the perio server, its callers and its channels keep their
\* types, and evtCh never holds more than EvtCap events.
THEOREM TypeCorrect == Spec => []TypeOK
  <1>1. IInv => TypeOK
    BY DEF IInv
  <1> QED
    BY <1>1, Invariance, PTL

\* newTicker and stopTicker keep exactly one ticker goroutine per PERIOGroup.
THEOREM OneTickerPerGroup == Spec => []TickerPerGroup
  <1>1. IInv => TickerPerGroup
    BY DEF IInv
  <1> QED
    BY <1>1, Invariance, PTL

\* Serve closes evtCh only when every ticker goroutine has stopped, so none of
\* them can send on the closed channel.
THEOREM NoTickerAfterClose == Spec => []TickersStoppedBeforeClose
  <1>1. IInv => TickersStoppedBeforeClose
    BY DEF IInv, TypeOK, TickerPerGroup, ServePlace, GroupsInUse, TickersStoppedBeforeClose
  <1> QED
    BY <1>1, Invariance, PTL

\* DEL stops the ticker of the group it empties, so that no ticker fires for a
\* group without URRs.
THEOREM EveryGroupInUse == Spec => []GroupsInUse
  <1>1. IInv => GroupsInUse
    BY DEF IInv
  <1> QED
    BY <1>1, Invariance, PTL

-----------------------------------------------------------------------------
(***************************************************************************)
(* Timers and sessions.  A timer's trace h gives the period it is due for  *)
(* (None: not due) after each prefix of evtCh: h[0] before Serve handles   *)
(* the first event, h[k] once it has handled the k-th.  A timer is in the  *)
(* group of the period it is due for; one that neither a failed            *)
(* establishment nor a changed URR has left behind is in no other group,   *)
(* and is never added with a second period.                                *)
(***************************************************************************)
Adds(e, t) == e.type = "ADD" /\ e.timer = t
Dels(e, t) == e.type = "DEL" /\ e.timer = t
After(e, t, d) ==
    IF Adds(e, t) THEN e.period ELSE IF Dels(e, t) THEN None ELSE d

Dues == Period \cup {None}
In(t, d) == d # None => t \in urrids[d]
Only(t, d) == \A p \in Period : t \in urrids[p] => p = d
Left == leaked \cup moved
Adding(t) == \E e \in calls : Adds(e, t)
Dropping(t) == \E e \in calls : Dels(e, t)

Trace(h, t) ==
    /\ In(t, h[0])
    /\ \A k \in 1 .. Len(evtCh) : h[k] = After(evtCh[k], t, h[k - 1])

AddedOnce(h, t) ==
    /\ Only(t, h[0])
    /\ \A k \in 1 .. Len(evtCh) :
         Adds(evtCh[k], t) => h[k - 1] \in {None, evtCh[k].period}

\* d: the period the timer is due for once evtCh is empty.  It is the URR's, or
\* the ADD is still to be sent; once the URR is gone or not periodic it is None,
\* or the DEL is still to be sent.
Ends(d, t) ==
    /\ period[t] # None => /\ ~Dropping(t)
                           /\ \A e \in calls : Adds(e, t) => e.period = period[t]
                           /\ Adding(t) \/ d = period[t]
    /\ t \notin Left => /\ Adding(t) => d \in {None, period[t]}
                        /\ period[t] = None => ~Adding(t) /\ (d = None \/ Dropping(t))

Good(t) ==
    \E h \in [0 .. Len(evtCh) -> Dues] :
      /\ Trace(h, t)
      /\ t \notin Left => AddedOnce(h, t)
      /\ Ends(h[Len(evtCh)], t)

\* All this as long as Serve has not begun to close down.
Tracked ==
    ~closing /\ ~crashed =>
      /\ \A t \in Timer : Good(t)
      /\ serve = "stop" => urrids[cur] = {}

\* Groups, calls, periods and the two program counters.
Places ==
    /\ \A p \in Period \ perioList : urrids[p] = {}
    /\ main # "call" => calls = {}
    /\ \A e \in calls : e.type \in {"ADD", "DEL"}
    /\ \A e, f \in calls : e.type = "ADD" => e = f
    /\ \A t \in Timer : period[t] # None => Live(t)
    /\ closing => serve \in {"stop", "done"}

\* A step that changes neither the queue nor the groups keeps a timer's trace.
LEMMA KeepTrace ==
    ASSUME NEW t \in Timer, Good(t), UNCHANGED <<evtCh, urrids>>, Left \subseteq Left',
           \A d \in Dues : Ends(d, t) => Ends(d, t)'
    PROVE  Good(t)'
  <1>1. PICK h \in [0 .. Len(evtCh) -> Dues] :
            /\ Trace(h, t)
            /\ t \notin Left => AddedOnce(h, t)
            /\ Ends(h[Len(evtCh)], t)
    BY DEF Good
  <1>2. Trace(h, t)' /\ (t \notin Left' => AddedOnce(h, t)')
    <2>1. Trace(h, t)'
      BY <1>1 DEF Trace, In
    <2>2. ASSUME t \notin Left' PROVE AddedOnce(h, t)'
      <3>1. AddedOnce(h, t)
        BY <1>1, <2>2
      <3> QED
        BY <3>1 DEF AddedOnce, Only
    <2> QED
      BY <2>1, <2>2
  <1>3. Ends(h[Len(evtCh)], t)'
    <2>1. Len(evtCh) \in 0 .. Len(evtCh)
      BY <1>1, SMT DEF Trace
    <2>2. PICK d \in Dues : d = h[Len(evtCh)]
      BY <1>1, <2>1
    <2>3. Ends(d, t)'
      BY <1>1, <2>2
    <2> QED
      BY <2>2, <2>3 DEF Ends
  <1> QED
    BY <1>2, <1>3 DEF Good, Dues

\* A step that concerns no timer.
LEMMA SameTracked ==
    ASSUME Tracked, UNCHANGED <<evtCh, urrids, calls, period, leaked, moved, closing>>,
           crashed => crashed',
           serve' = "stop" => urrids'[cur'] = {} \/ (serve = "stop" /\ cur' = cur)
    PROVE  Tracked'
  <1>1. ASSUME NEW t \in Timer, Good(t)
        PROVE  Good(t)'
    <2>1. \A d \in Dues : Ends(d, t) => Ends(d, t)'
      BY DEF Ends, Left, Adding, Dropping
    <2>2. Left \subseteq Left'
      BY DEF Left
    <2> QED
      BY <1>1, <2>1, <2>2, KeepTrace
  <1> QED
    BY <1>1 DEF Tracked

\* An event is sent: one of the calls in hand, or one that concerns no timer.
LEMMA SendGood ==
    ASSUME TypeOK, Places, NEW t \in Timer, Good(t), NEW e \in Event, evtCh' = Append(evtCh, e),
           UNCHANGED <<urrids, period, leaked, moved>>,
           \/ calls' = calls /\ e.type \notin {"ADD", "DEL"}
           \/ e \in calls /\ calls' = calls \ {e}
    PROVE  Good(t)'
  <1>1. PICK h \in [0 .. Len(evtCh) -> Dues] :
            /\ Trace(h, t)
            /\ t \notin Left => AddedOnce(h, t)
            /\ Ends(h[Len(evtCh)], t)
    BY DEF Good
  <1>2. PICK n \in Nat :
          /\ Len(evtCh) = n /\ Len(evtCh') = n + 1 /\ evtCh'[n + 1] = e
          /\ \A k \in 1 .. n : evtCh'[k] = evtCh[k]
    <2>1. /\ Len(evtCh) \in Nat /\ Len(evtCh') = Len(evtCh) + 1 /\ evtCh'[Len(evtCh) + 1] = e
          /\ \A k \in 1 .. Len(evtCh) : evtCh'[k] = evtCh[k]
      BY SMT DEF TypeOK
    <2> QED
      BY <2>1
  <1>3. h[n] \in Dues
    <2>1. n \in 0 .. n
      BY SMT
    <2> QED
      BY <1>1, <1>2, <2>1
  <1>4. PICK d \in Dues : d = After(e, t, h[n])
    <2>1. Adds(e, t) => e.period \in Dues
      BY EventFields DEF Adds, Dues
    <2>2. After(e, t, h[n]) \in Dues
      BY <1>3, <2>1 DEF After, Dues
    <2> QED
      BY <2>2
  <1>5. PICK g \in [0 .. n + 1 -> Dues] : g = [k \in 0 .. n + 1 |-> IF k = n + 1 THEN d ELSE h[k]]
    <2>1. \A k \in 0 .. n : h[k] \in Dues
      BY <1>1, <1>2
    <2>2. [k \in 0 .. n + 1 |-> IF k = n + 1 THEN d ELSE h[k]] \in [0 .. n + 1 -> Dues]
      BY <2>1, SMT
    <2> QED
      BY <2>2
  <1>6. /\ Adding(t) => Adding(t)' \/ Adds(e, t)
        /\ Adding(t)' => Adding(t) /\ ~Adds(e, t)
        /\ Dropping(t) => Dropping(t)' \/ Dels(e, t)
        /\ Dropping(t)' => Dropping(t)
        /\ Adds(e, t) => Adding(t) /\ e \in calls
        /\ Dels(e, t) => Dropping(t)
        /\ calls' \subseteq calls
    <2>1. e \in calls /\ e.type = "ADD" => calls' = {}
      BY DEF Places
    <2> QED
      BY <2>1 DEF Adding, Dropping, Adds, Dels
  <1>7. g[0] = h[0] /\ g[n + 1] = d
    BY <1>5, SMT
  <1>8. \A k \in 1 .. n + 1 :
          \/ k = n + 1 /\ evtCh'[k] = e /\ g[k] = d /\ g[k - 1] = h[n]
          \/ k \in 1 .. n /\ evtCh'[k] = evtCh[k] /\ g[k] = h[k] /\ g[k - 1] = h[k - 1]
    BY <1>2, <1>5, SMT
  <1>9. Trace(g, t)'
    <2>1. In(t, g[0])'
      BY <1>1, <1>7 DEF Trace, In
    <2>2. \A k \in 1 .. n + 1 : g[k] = After(evtCh'[k], t, g[k - 1])
      BY <1>1, <1>2, <1>4, <1>8 DEF Trace
    <2> QED
      BY <1>2, <2>1, <2>2 DEF Trace
  <1>10. Left' = Left /\ (Adds(e, t) /\ period[t] # None => e.period = period[t])
    BY <1>1, <1>6 DEF Left, Ends
  <1>11. ASSUME t \notin Left'
         PROVE  AddedOnce(g, t)'
    <2>1. t \notin Left /\ AddedOnce(h, t)
      BY <1>1, <1>10, <1>11
    <2>2. Only(t, g[0])'
      BY <1>7, <2>1 DEF AddedOnce, Only
    <2>3. Adds(e, t) => h[n] \in {None, e.period}
      BY <1>1, <1>2, <1>6, <1>10, <2>1 DEF Ends
    <2>4. \A k \in 1 .. n + 1 : Adds(evtCh'[k], t) => g[k - 1] \in {None, evtCh'[k].period}
      BY <1>2, <1>8, <2>1, <2>3 DEF AddedOnce
    <2> QED
      BY <1>2, <2>2, <2>4 DEF AddedOnce
  <1>12. Ends(d, t)'
    <2>1. CASE Adds(e, t)
      <3>1. d = e.period /\ ~Adding(t)' /\ calls' = {}
        BY <1>4, <1>6, <2>1 DEF After, Adds, Places
      <3>2. ~Dropping(t)'
        BY <3>1 DEF Dropping
      <3>3. t \notin Left => period[t] # None
        BY <1>1, <1>6, <2>1 DEF Ends
      <3> QED
        BY <1>10, <2>1, <3>1, <3>2, <3>3 DEF Ends
    <2>2. CASE Dels(e, t)
      <3>1. d = None /\ period[t] = None
        BY <1>1, <1>4, <1>6, <2>2 DEF After, Adds, Dels, Ends
      <3> QED
        BY <1>1, <1>6, <1>10, <3>1 DEF Ends
    <2>3. CASE ~Adds(e, t) /\ ~Dels(e, t)
      <3>1. d = h[n]
        BY <1>4, <2>3 DEF After
      <3> QED
        BY <1>1, <1>2, <1>6, <1>10, <2>3, <3>1 DEF Ends
    <2> QED
      BY <2>1, <2>2, <2>3
  <1>13. Ends(g[Len(evtCh)], t)'
    BY <1>2, <1>7, <1>12 DEF Ends
  <1> QED
    BY <1>2, <1>9, <1>11, <1>13 DEF Good, Dues

\* Serve takes an event and brings the groups up to date with it.
LEMMA RecvGood ==
    ASSUME TypeOK, NEW t \in Timer, Good(t), evtCh # <<>>, evtCh' = Tail(evtCh),
           UNCHANGED <<calls, period, leaked, moved>>,
           NEW e, e = Head(evtCh),
           \A d \in Dues : In(t, d) => In(t, After(e, t, d))',
           t \notin Left => \A d \in Dues :
             Only(t, d) /\ (Adds(e, t) => d \in {None, e.period}) => Only(t, After(e, t, d))'
    PROVE  Good(t)'
  <1>1. PICK h \in [0 .. Len(evtCh) -> Dues] :
            /\ Trace(h, t)
            /\ t \notin Left => AddedOnce(h, t)
            /\ Ends(h[Len(evtCh)], t)
    BY DEF Good
  <1>2. PICK n \in Nat :
          /\ Len(evtCh) = n + 1 /\ Len(evtCh') = n /\ evtCh[1] = e
          /\ \A k \in 1 .. n : evtCh'[k] = evtCh[k + 1]
    <2>1. Len(evtCh) \in Nat \ {0} /\ evtCh \in Seq(Event)
      BY SMT DEF TypeOK
    <2>2. PICK n \in Nat : Len(evtCh) = n + 1
      BY <2>1, SMT
    <2> QED
      BY <2>1, <2>2, SMT
  <1>3. PICK g \in [0 .. n -> Dues] : g = [k \in 0 .. n |-> h[k + 1]]
    <2>1. \A k \in 0 .. n : h[k + 1] \in Dues
      BY <1>1, <1>2, SMT
    <2>2. [k \in 0 .. n |-> h[k + 1]] \in [0 .. n -> Dues]
      BY <2>1
    <2> QED
      BY <2>2
  <1>4. Adding(t)' = Adding(t) /\ Dropping(t)' = Dropping(t) /\ Left' = Left
    BY DEF Adding, Dropping, Left
  <1>5. g[0] = h[1] /\ g[n] = h[n + 1] /\ h[1] = After(e, t, h[0])
    BY <1>1, <1>2, <1>3, SMT DEF Trace
  <1>6. \A k \in 1 .. n : /\ k + 1 \in 1 .. n + 1 /\ evtCh'[k] = evtCh[k + 1]
                          /\ g[k] = h[k + 1] /\ g[k - 1] = h[k] /\ (k + 1) - 1 = k
    BY <1>2, <1>3, SMT
  <1>7. PICK d \in Dues : d = h[0] /\ In(t, d) /\ g[0] = After(e, t, d)
    <2>1. h[0] \in Dues
      BY <1>1, <1>2, SMT
    <2> QED
      BY <1>1, <1>5, <2>1 DEF Trace
  <1>8. Trace(g, t)'
    <2>1. In(t, g[0])'
      BY <1>7 DEF In
    <2>2. \A k \in 1 .. n : g[k] = After(evtCh'[k], t, g[k - 1])
      BY <1>1, <1>2, <1>6, SMT DEF Trace
    <2> QED
      BY <1>2, <2>1, <2>2 DEF Trace
  <1>9. ASSUME t \notin Left'
        PROVE  AddedOnce(g, t)'
    <2>1. AddedOnce(h, t) /\ t \notin Left
      BY <1>1, <1>4, <1>9
    <2>2. Only(t, d) /\ (Adds(e, t) => d \in {None, e.period})
      <3>1. 1 \in 1 .. Len(evtCh) /\ 1 - 1 = 0
        BY <1>2, SMT
      <3> QED
        BY <1>2, <1>7, <2>1, <3>1 DEF AddedOnce
    <2>3. Only(t, g[0])'
      BY <1>7, <2>1, <2>2 DEF Only
    <2>4. ASSUME NEW k \in 1 .. n, Adds(evtCh'[k], t)
          PROVE  g[k - 1] \in {None, evtCh'[k].period}
      <3>1. PICK m \in 1 .. Len(evtCh) : m = k + 1 /\ m - 1 = k
        BY <1>2, SMT
      <3>2. evtCh'[k] = evtCh[m] /\ g[k - 1] = h[m - 1]
        BY <1>6, <3>1
      <3> QED
        BY <2>1, <2>4, <3>1, <3>2 DEF AddedOnce
    <2> QED
      BY <1>2, <2>3, <2>4 DEF AddedOnce
  <1>10. Ends(g[Len(evtCh)], t)'
    BY <1>1, <1>2, <1>4, <1>5 DEF Ends
  <1> QED
    BY <1>2, <1>8, <1>9, <1>10 DEF Good, Dues

\* The same for all timers, and for the group about to be deleted.
LEMMA SendTracked ==
    ASSUME TypeOK, Places, Tracked, NEW e \in Event, SendEvt(e),
           UNCHANGED <<urrids, period, leaked, moved, closing, serve, cur>>, ~crashed,
           \/ calls' = calls /\ e.type \notin {"ADD", "DEL"}
           \/ e \in calls /\ calls' = calls \ {e}
    PROVE  Tracked'
  <1> SUFFICES ASSUME ~closing', ~crashed'
               PROVE  Tracked'
    BY DEF Tracked
  <1>1. evtCh' = Append(evtCh, e)
    BY DEF SendEvt
  <1>2. \A t \in Timer : Good(t)'
    BY <1>1, SendGood DEF Tracked
  <1> QED
    BY <1>2 DEF Tracked

\* Serve takes an event and does to the groups what the event asks for.
LEMMA RecvTracked ==
    ASSUME TypeOK, Tracked, evtCh # <<>>, evtCh' = Tail(evtCh),
           UNCHANGED <<calls, period, leaked, moved, closing, crashed>>,
           NEW e, e = Head(evtCh),
           \A t \in Timer, d \in Dues : In(t, d) => In(t, After(e, t, d))',
           \A t \in Timer, d \in Dues :
             Only(t, d) /\ (Adds(e, t) => d \in {None, e.period}) => Only(t, After(e, t, d))',
           serve' = "stop" => urrids'[cur'] = {}
    PROVE  Tracked'
  <1>1. ASSUME NEW t \in Timer, Good(t)
        PROVE  Good(t)'
    BY <1>1, RecvGood
  <1> QED
    BY <1>1 DEF Tracked

\* The main loop takes a request and plans the events for its timers.
LEMMA RequestTracked ==
    ASSUME Places, Tracked, main = "select",
           UNCHANGED <<evtCh, urrids, closing, crashed, serve, cur>>, Left \subseteq Left',
           \A t \in Timer : period'[t] # None =>
             /\ ~Dropping(t)' /\ \A e \in calls' : Adds(e, t) => e.period = period'[t]
             /\ Adding(t)' \/ period'[t] = period[t],
           \A t \in Timer \ Left' : Adding(t)' => period[t] \in {None, period'[t]},
           \A t \in Timer \ Left' :
             period'[t] = None => ~Adding(t)' /\ (period[t] = None \/ Dropping(t)')
    PROVE  Tracked'
  <1>1. \A t : ~Adding(t) /\ ~Dropping(t)
    BY DEF Places, Adding, Dropping
  <1>2. ASSUME NEW t \in Timer, Good(t)
        PROVE  Good(t)'
    <2>1. ASSUME NEW d \in Dues, Ends(d, t) PROVE Ends(d, t)'
      <3>1. /\ period[t] # None => d = period[t]
            /\ t \notin Left => d = period[t]
        BY <1>1, <2>1 DEF Ends
      <3> QED
        BY <3>1 DEF Ends
    <2> QED
      BY <1>2, <2>1, KeepTrace
  <1> QED
    BY <1>2 DEF Tracked

\* A timer is a session id and a URR id.
LEMMA Timers ==
    /\ \A t \in Timer : t[1] \in SEID /\ t[2] \in URRID
    /\ \A t \in Timer : \A s, u : t = <<s, u>> <=> t[1] = s /\ t[2] = u
    /\ \A s \in SEID, u \in URRID : <<s, u>> \in Timer
  BY SMT DEF Timer

\* ADD puts the timer into the group it is now due for.
LEMMA ServeAddTracked ==
    ASSUME TypeOK, Tracked, ServeAdd
    PROVE  Tracked'
  <1>1. PICK e \in Event : e = Head(evtCh)
    BY RecvEvent DEF ServeAdd, Recv
  <1>2. /\ serve' = "range" /\ evtCh # <<>> /\ evtCh' = Tail(evtCh) /\ e.type = "ADD"
        /\ urrids' = [urrids EXCEPT ![e.period] = @ \cup {e.timer}]
        /\ UNCHANGED <<calls, period, leaked, moved, closing, crashed>>
    BY <1>1 DEF ServeAdd, Recv, serveVars, mainVars, sessVars
  <1>3. e.period \in Period /\ urrids \in [Period -> SUBSET Timer]
    BY <1>2, EventFields DEF TypeOK
  <1>4. \A t, d : After(e, t, d) = IF t = e.timer THEN e.period ELSE d
    BY <1>2 DEF After, Adds, Dels
  <1>5. \A r \in Period : \A t : t \in urrids'[r] <=> t \in urrids[r] \/ (r = e.period /\ t = e.timer)
    BY <1>2, <1>3
  <1>6. ASSUME NEW t \in Timer, NEW d \in Dues, In(t, d)
        PROVE  In(t, After(e, t, d))'
    BY <1>3, <1>4, <1>5, <1>6 DEF In, Dues
  <1>7. ASSUME NEW t \in Timer, NEW d \in Dues, Only(t, d), Adds(e, t) => d \in {None, e.period}
        PROVE  Only(t, After(e, t, d))'
    <2>1. CASE t = e.timer
      <3>1. d \in {None, e.period}
        BY <1>2, <1>7, <2>1 DEF Adds
      <3>2. ASSUME NEW r \in Period, t \in urrids'[r] PROVE r = e.period
        BY <1>5, <1>7, <2>1, <3>1, <3>2, PerioAssumption DEF Only
      <3> QED
        BY <1>4, <2>1, <3>2 DEF Only
    <2>2. CASE t # e.timer
      BY <1>4, <1>5, <1>7, <2>2 DEF Only
    <2> QED
      BY <2>1, <2>2
  <1> QED
    BY <1>1, <1>2, <1>6, <1>7, RecvTracked

\* DEL takes the timer out of one group, and so out of the only one unless it was
\* left behind in others.
LEMMA ServeDelTracked ==
    ASSUME TypeOK, Places, Tracked, ServeDel
    PROVE  Tracked'
  <1>1. PICK e \in Event : e = Head(evtCh)
    BY RecvEvent DEF ServeDel, Recv
  <1>2. /\ serve = "range" /\ evtCh # <<>> /\ evtCh' = Tail(evtCh) /\ e.type = "DEL"
        /\ UNCHANGED <<calls, period, leaked, moved, closing, crashed>>
    BY <1>1 DEF ServeDel, Recv, mainVars, sessVars
  <1>3. urrids \in [Period -> SUBSET Timer] /\ perioList \subseteq Period
    BY DEF TypeOK
  <1>4. \A t, d : After(e, t, d) = IF t = e.timer THEN None ELSE d
    BY <1>2 DEF After, Adds, Dels
  <1>5. CASE {p \in perioList : e.timer \in urrids[p]} = {} /\ UNCHANGED <<urrids, serve, cur>>
    <2>1. \A p \in Period : e.timer \notin urrids[p]
      BY <1>5 DEF Places
    <2>2. ASSUME NEW t \in Timer, NEW d \in Dues
          PROVE  /\ In(t, d) => In(t, After(e, t, d))'
                 /\ Only(t, d) => Only(t, After(e, t, d))'
      BY <1>4, <1>5, <2>1 DEF In, Only
    <2>3. serve' # "stop"
      BY <1>2, <1>5
    <2> QED
      BY <1>1, <1>2, <2>2, <2>3, RecvTracked
  <1>6. ASSUME NEW p \in Period, e.timer \in urrids[p],
               urrids' = [urrids EXCEPT ![p] = @ \ {e.timer}],
               IF urrids[p] = {e.timer} THEN serve' = "stop" /\ cur' = p ELSE UNCHANGED <<serve, cur>>
        PROVE  Tracked'
    <2>1. \A r \in Period : \A t : t \in urrids'[r] <=> t \in urrids[r] /\ ~(r = p /\ t = e.timer)
      BY <1>3, <1>6
    <2>2. ASSUME NEW t \in Timer, NEW d \in Dues, In(t, d)
          PROVE  In(t, After(e, t, d))'
      BY <1>4, <2>1, <2>2 DEF In, Dues
    <2>3. ASSUME NEW t \in Timer, NEW d \in Dues, Only(t, d)
          PROVE  Only(t, After(e, t, d))'
      <3>1. CASE t = e.timer
        <4>1. \A r \in Period : t \notin urrids'[r]
          BY <1>6, <2>1, <2>3, <3>1 DEF Only
        <4> QED
          BY <4>1 DEF Only
      <3>2. CASE t # e.timer
        BY <1>4, <2>1, <2>3, <3>2 DEF Only
      <3> QED
        BY <3>1, <3>2
    <2>4. serve' = "stop" => urrids'[cur'] = {}
      BY <1>2, <1>3, <1>6
    <2> QED
      BY <1>1, <1>2, <2>2, <2>3, <2>4, RecvTracked
  <1> QED
    BY <1>1, <1>3, <1>5, <1>6 DEF ServeDel

\* TIMEOUT and CLOSE concern no timer; after CLOSE nothing is claimed.
LEMMA ServeOtherTracked ==
    ASSUME TypeOK, Tracked, ServeTimeout \/ ServeClose
    PROVE  Tracked'
  <1>1. CASE ServeTimeout
    <2>1. PICK e : e = Head(evtCh)
      OBVIOUS
    <2>2. /\ evtCh # <<>> /\ evtCh' = Tail(evtCh) /\ e.type = "TIMEOUT" /\ serve' # "stop"
          /\ urrids' = urrids /\ UNCHANGED <<calls, period, leaked, moved, closing, crashed>>
      BY <1>1, <2>1 DEF ServeTimeout, Recv, timerVars, mainVars, sessVars
    <2>3. \A t, d : After(e, t, d) = d
      BY <2>2 DEF After, Adds, Dels
    <2>4. ASSUME NEW t \in Timer, NEW d \in Dues
          PROVE  /\ In(t, d) => In(t, After(e, t, d))'
                 /\ Only(t, d) => Only(t, After(e, t, d))'
      BY <2>2, <2>3 DEF In, Only
    <2> QED
      BY <2>1, <2>2, <2>4, RecvTracked
  <1>2. CASE ServeClose
    BY <1>2 DEF ServeClose, Tracked
  <1> QED
    BY <1>1, <1>2

\* The group Serve deletes was already empty.
LEMMA StopTickerTracked ==
    ASSUME IInv, Tracked, StopTicker
    PROVE  Tracked'
  <1>1. CASE closing
    BY <1>1 DEF StopTicker, Tracked
  <1>2. CASE crashed
    BY <1>2 DEF StopTicker, Tracked
  <1>3. CASE ~closing /\ ~crashed
    <2>1. serve = "stop" /\ cur \in Period /\ urrids[cur] = {} /\ urrids \in [Period -> SUBSET Timer]
      BY <1>3 DEF StopTicker, Tracked, IInv, TypeOK, ServePlace
    <2>2. urrids' = urrids
      BY <2>1 DEF StopTicker
    <2>3. /\ UNCHANGED <<evtCh, calls, period, leaked, moved, closing, crashed>>
          /\ serve' = "range"
      BY <1>3 DEF StopTicker, mainVars, sessVars
    <2> QED
      BY <2>2, <2>3, SameTracked
  <1> QED
    BY <1>1, <1>2, <1>3

\* What a request does to the timers of live URRs.
LEMMA RequestLive ==
    ASSUME TypeOK, NEW s \in SEID, NEW live \in SUBSET SEID, NEW urrs \in SUBSET URRID, NEW events,
           Request(s, live, urrs, events), \A r : r # s => (r \in live <=> r \in alive)
    PROVE  /\ main = "select" /\ calls' = events
           /\ UNCHANGED <<evtCh, urrids, closing, crashed, serve, cur>>
           /\ \A t \in Timer : t[1] # s => (Live(t)' <=> Live(t))
           /\ \A t \in Timer : t[1] = s => (Live(t)' <=> s \in live /\ t[2] \in urrs)
  <1>1. /\ main = "select" /\ calls' = events /\ alive' = live /\ sess' = [sess EXCEPT ![s] = urrs]
        /\ UNCHANGED <<evtCh, urrids, closing, crashed, serve, cur>>
    BY DEF Request, evtVars, timerVars, serveVars
  <1>2. \A r \in SEID : sess'[r] = IF r = s THEN urrs ELSE sess[r]
    BY <1>1 DEF TypeOK
  <1>3. \A r : r # s => (r \in alive' <=> r \in alive)
    BY <1>1
  <1>4. ASSUME NEW t \in Timer
        PROVE  /\ t[1] # s => (Live(t)' <=> Live(t))
               /\ t[1] = s => (Live(t)' <=> s \in live /\ t[2] \in urrs)
    BY <1>1, <1>2, <1>3, Timers, SMT DEF Live
  <1> QED
    BY <1>1, <1>4

\* The events a request plans: for a URR with a period an ADD with that period,
LEMMA PlannedAdd ==
    ASSUME NEW s, NEW u, NEW p
    PROVE  /\ \A e \in AddCalls(s, u, p) :
                /\ p # None /\ e.type = "ADD" /\ e.period = p
                /\ \A t : (Adds(e, t) <=> t = <<s, u>>) /\ ~Dels(e, t)
           /\ p # None => AddCalls(s, u, p) # {}
           /\ \A e, f \in AddCalls(s, u, p) : e = f
  <1> DEFINE a == [type |-> "ADD", timer |-> <<s, u>>, period |-> p]
  <1>1. a.type = "ADD" /\ a.period = p /\ a.timer = <<s, u>>
    OBVIOUS
  <1>2. AddCalls(s, u, p) = IF p = None THEN {} ELSE {a}
    BY DEF AddCalls
  <1> HIDE DEF a
  <1>3. \A t : (Adds(a, t) <=> t = <<s, u>>) /\ ~Dels(a, t)
    BY <1>1 DEF Adds, Dels
  <1>4. CASE p = None
    <2>1. AddCalls(s, u, p) = {}
      BY <1>2, <1>4
    <2> QED
      BY <1>4, <2>1
  <1>5. CASE p # None
    <2>1. AddCalls(s, u, p) = {a}
      BY <1>2, <1>5
    <2> QED
      BY <1>1, <1>3, <1>5, <2>1
  <1> QED
    BY <1>4, <1>5

\* and for a removal a DEL.
LEMMA PlannedDel ==
    ASSUME NEW s, NEW u
    PROVE  /\ Del(s, u).type = "DEL"
           /\ \A t : ~Adds(Del(s, u), t) /\ (Dels(Del(s, u), t) <=> t = <<s, u>>)
  BY DEF Adds, Dels, Del

\* A URR is created, with a period or without: its timer had none or the same
\* period before, or may have been left behind.
LEMMA CreationTracked ==
    ASSUME TypeOK, Places, Tracked, main = "select",
           UNCHANGED <<evtCh, urrids, closing, crashed, serve, cur>>,
           NEW s \in SEID, NEW u \in URRID, NEW p \in Period \cup {None},
           calls' = AddCalls(s, u, p), Left \subseteq Left',
           period' = [period EXCEPT ![<<s, u>>] = p],
           period[<<s, u>>] \in {None, p} \/ <<s, u>> \in Left'
    PROVE  Tracked'
  <1>1. PICK v \in Timer : v = <<s, u>>
    BY Timers
  <1>2. \A t \in Timer : period'[t] = IF t = v THEN p ELSE period[t]
    BY <1>1 DEF TypeOK
  <1>3. /\ \A e \in calls' : /\ p # None /\ e.period = p
                             /\ \A t : (Adds(e, t) <=> t = v) /\ ~Dels(e, t)
        /\ p # None => calls' # {}
    BY <1>1, PlannedAdd
  <1>4. \A t \in Timer : ~Dropping(t)' /\ (Adding(t)' <=> t = v /\ p # None)
    BY <1>3 DEF Adding, Dropping
  <1>5. \A t \in Timer : period'[t] # None =>
          /\ ~Dropping(t)' /\ \A e \in calls' : Adds(e, t) => e.period = period'[t]
          /\ Adding(t)' \/ period'[t] = period[t]
    BY <1>2, <1>3, <1>4
  <1>6. \A t \in Timer \ Left' : Adding(t)' => period[t] \in {None, period'[t]}
    BY <1>1, <1>2, <1>4
  <1>7. \A t \in Timer \ Left' :
          period'[t] = None => ~Adding(t)' /\ (period[t] = None \/ Dropping(t)')
    BY <1>1, <1>2, <1>4
  <1> QED
    BY <1>5, <1>6, <1>7, RequestTracked

\* Session establishment.  The session was not alive, so none of its URRs had a
\* period; a failed establishment leaves the timer behind.
LEMMA EstablishTracked ==
    ASSUME TypeOK, Places, Tracked, NEW s \in SEID, NEW u \in URRID,
           NEW p \in Period \cup {None}, NEW ok \in BOOLEAN, Establish(s, u, p, ok)
    PROVE  Tracked'
  <1>1. /\ main = "select" /\ calls' = AddCalls(s, u, p) /\ moved' = moved /\ s \notin alive
        /\ UNCHANGED <<evtCh, urrids, closing, crashed, serve, cur>>
    BY DEF Establish, Request, evtVars, timerVars, serveVars
  <1>2. PICK v \in Timer : v = <<s, u>>
    BY Timers
  <1>3. period[v] = None
    BY <1>1, <1>2, Timers, SMT DEF Places, Live
  <1>4. CASE ok
    <2>1. period' = [period EXCEPT ![<<s, u>>] = p] /\ leaked' = leaked
      BY <1>4 DEF Establish
    <2>2. Left \subseteq Left'
      BY <1>1, <2>1 DEF Left
    <2>3. period[<<s, u>>] \in {None, p}
      BY <1>2, <1>3
    <2> QED
      BY <1>1, <2>1, <2>2, <2>3, CreationTracked
  <1>5. CASE ~ok
    <2>1. period' = period /\ leaked' = IF p = None THEN leaked ELSE leaked \cup {v}
      BY <1>2, <1>5 DEF Establish
    <2>2. Left \subseteq Left' /\ (p # None => v \in Left')
      BY <1>1, <2>1 DEF Left
    <2>3. \A e \in calls' : p # None /\ \A t : (Adds(e, t) <=> t = v) /\ ~Dels(e, t)
      BY <1>1, <1>2, PlannedAdd
    <2>4. \A t \in Timer : ~Dropping(t)' /\ (Adding(t)' => t = v /\ p # None)
      BY <2>3 DEF Adding, Dropping
    <2>5. \A t \in Timer : period'[t] # None =>
            /\ ~Dropping(t)' /\ \A e \in calls' : Adds(e, t) => e.period = period'[t]
            /\ Adding(t)' \/ period'[t] = period[t]
      BY <1>3, <2>1, <2>3, <2>4
    <2>6. \A t \in Timer \ Left' : ~Adding(t)'
      BY <2>2, <2>4
    <2> QED
      BY <1>1, <2>1, <2>2, <2>5, <2>6, RequestTracked
  <1> QED
    BY <1>4, <1>5

\* A CreateURR, of a URR the session has already or of a new one.
LEMMA CreateTracked ==
    ASSUME TypeOK, Places, Tracked, NEW s \in SEID, NEW u \in URRID,
           NEW p \in Period \cup {None}, CreateURR(s, u, p)
    PROVE  Tracked'
  <1>1. /\ main = "select" /\ calls' = AddCalls(s, u, p) /\ leaked' = leaked
        /\ UNCHANGED <<evtCh, urrids, closing, crashed, serve, cur>>
        /\ period' = [period EXCEPT ![<<s, u>>] = p]
        /\ moved' = IF period[<<s, u>>] \in {None, p} THEN moved ELSE moved \cup {<<s, u>>}
    BY DEF CreateURR, Request, evtVars, timerVars, serveVars
  <1>2. Left \subseteq Left' /\ (period[<<s, u>>] \in {None, p} \/ <<s, u>> \in Left')
    BY <1>1 DEF Left
  <1> QED
    BY <1>1, <1>2, CreationTracked

\* A RemoveURR, or the removals a deletion plans: the timers that lose their
\* period are dropped.
LEMMA RemovalTracked ==
    ASSUME TypeOK, Places, Tracked, main = "select", NEW s \in SEID, NEW gone \in SUBSET URRID,
           UNCHANGED <<evtCh, urrids, closing, crashed, serve, cur, leaked, moved>>,
           calls' = {Del(s, u) : u \in gone},
           \A t \in Timer : t[1] = s /\ t[2] \in gone => period'[t] = None,
           \A t \in Timer : period'[t] = period[t] \/ period'[t] = None,
           \A t \in Timer : period'[t] # period[t] => t[1] = s /\ t[2] \in gone
    PROVE  Tracked'
  <1>1. ASSUME NEW t \in Timer
        PROVE  ~Adding(t)' /\ (Dropping(t)' <=> t[1] = s /\ t[2] \in gone)
    <2>1. ~Adding(t)'
      BY PlannedDel, SMT DEF Adding
    <2>2. Dropping(t)' <=> \E u \in gone : Dels(Del(s, u), t)
      BY DEF Dropping
    <2>3. Dropping(t)' <=> \E u \in gone : t[1] = s /\ t[2] = u
      BY <2>2, PlannedDel, Timers, SMT
    <2> QED
      BY <2>1, <2>3
  <1>2. \A t \in Timer : \A e \in calls' : ~Adds(e, t)
    BY <1>1 DEF Adding
  <1>3. Left \subseteq Left'
    BY DEF Left
  <1> QED
    BY <1>1, <1>2, <1>3, RequestTracked

\* The same for the two requests that remove URRs.
LEMMA RemoveTracked ==
    ASSUME TypeOK, Places, Tracked, NEW s \in SEID,
           (\E u \in URRID : RemoveURR(s, u)) \/ DeleteSess(s)
    PROVE  Tracked'
  <1>1. ASSUME NEW u \in URRID, RemoveURR(s, u)
        PROVE  Tracked'
    <2>1. /\ main = "select" /\ calls' = {Del(s, u)}
          /\ UNCHANGED <<evtCh, urrids, closing, crashed, serve, cur, leaked, moved>>
          /\ period' = [period EXCEPT ![<<s, u>>] = None]
      BY <1>1 DEF RemoveURR, Request, evtVars, timerVars, serveVars
    <2>2. {Del(s, v) : v \in {u}} = {Del(s, u)} /\ {u} \in SUBSET URRID
      OBVIOUS
    <2>3. \A t \in Timer : period'[t] = IF t = <<s, u>> THEN None ELSE period[t]
      BY <2>1 DEF TypeOK
    <2>4. ASSUME NEW t \in Timer
          PROVE  /\ t[1] = s /\ t[2] \in {u} => period'[t] = None
                 /\ period'[t] = period[t] \/ period'[t] = None
                 /\ period'[t] # period[t] => t[1] = s /\ t[2] \in {u}
      BY <2>3, Timers, SMT
    <2>5. calls' = {Del(s, v) : v \in {u}}
      BY <2>1, <2>2
    <2> QED
      BY <2>1, <2>2, <2>4, <2>5, RemovalTracked, ZenonT(60)
  <1>2. CASE DeleteSess(s)
    <2>1. /\ main = "select" /\ calls' = {Del(s, u) : u \in sess[s]} /\ s \in alive
          /\ UNCHANGED <<evtCh, urrids, closing, crashed, serve, cur, leaked, moved>>
          /\ period' = [t \in Timer |-> IF t[1] = s THEN None ELSE period[t]]
      BY <1>2 DEF DeleteSess, Request, evtVars, timerVars, serveVars
    <2>2. sess[s] \in SUBSET URRID
      BY DEF TypeOK
    <2>3. \A t \in Timer : period'[t] = IF t[1] = s THEN None ELSE period[t]
      BY <2>1
    <2>4. \A t \in Timer : t[1] = s /\ period[t] # None => t[2] \in sess[s]
      BY DEF Places, Live
    <2> QED
      BY <2>1, <2>2, <2>3, <2>4, RemovalTracked, ZenonT(60)
  <1> QED
    BY <1>1, <1>2

\* The steps that touch neither the queue, the groups nor the sessions.
LEMMA IdleTracked ==
    ASSUME Tracked,
           \/ \E p \in Period : Tick(p)
           \/ Notify \/ ServeReport \/ MainStop \/ StopPfcp
           \/ UNCHANGED vars
    PROVE  Tracked'
  <1>1. CASE UNCHANGED vars
    BY <1>1, SameTracked DEF vars, evtVars, timerVars, serveVars, mainVars, sessVars
  <1>2. CASE \E p \in Period : Tick(p)
    BY <1>2, SameTracked, SMT DEF Tick, evtVars, serveVars, mainVars, sessVars
  <1>3. CASE Notify
    BY <1>3, SameTracked, SMT DEF Notify, evtVars, timerVars, mainVars, sessVars
  <1>4. CASE ServeReport
    BY <1>4, SameTracked DEF ServeReport, evtVars, timerVars, serveVars, mainVars, sessVars
  <1>5. CASE MainStop
    BY <1>5, SameTracked DEF MainStop, evtVars, timerVars, serveVars, sessVars
  <1>6. CASE StopPfcp
    BY <1>6, SameTracked DEF StopPfcp, evtVars, timerVars, serveVars, mainVars, sessVars
  <1> QED
    BY <1>1, <1>2, <1>3, <1>4, <1>5, <1>6

\* The steps that send on evtCh.
LEMMA SenderTracked ==
    ASSUME TypeOK, Places, Tracked, ~crashed,
           (\E p \in Period : TickSend(p)) \/ CloseDriver \/ Call
    PROVE  Tracked'
  <1>1. ASSUME NEW p \in Period, TickSend(p)
        PROVE  Tracked'
    <2> DEFINE e == [type |-> "TIMEOUT", period |-> p]
    <2>1. e \in Event /\ e.type \notin {"ADD", "DEL"}
      BY DEF Event
    <2>2. SendEvt(e) /\ UNCHANGED <<urrids, calls, period, leaked, moved, closing, serve, cur>>
      BY <1>1 DEF TickSend, serveVars, mainVars, sessVars
    <2> HIDE DEF e
    <2> QED
      BY <2>1, <2>2, SendTracked
  <1>2. CASE CloseDriver
    <2> DEFINE e == [type |-> "CLOSE"]
    <2>1. e \in Event /\ e.type \notin {"ADD", "DEL"}
      BY DEF Event
    <2>2. SendEvt(e) /\ UNCHANGED <<urrids, calls, period, leaked, moved, closing, serve, cur>>
      BY <1>2 DEF CloseDriver, timerVars, serveVars, mainVars, sessVars
    <2> HIDE DEF e
    <2> QED
      BY <2>1, <2>2, SendTracked
  <1>3. CASE Call
    <2>1. PICK e \in calls : SendEvt(e) /\ calls' = calls \ {e}
      BY <1>3 DEF Call
    <2>2. e \in Event /\ UNCHANGED <<urrids, period, leaked, moved, closing, serve, cur>>
      BY <1>3 DEF Call, timerVars, serveVars, sessVars, TypeOK
    <2> QED
      BY <2>1, <2>2, SendTracked
  <1> QED
    BY <1>1, <1>2, <1>3

\* Every step keeps the timers on the track of the sessions.
LEMMA NextTracked ==
    ASSUME IInv, Places, Tracked, [Next]_vars
    PROVE  Tracked'
  <1> USE DEF IInv
  <1>1. CASE UNCHANGED vars
    BY <1>1, IdleTracked
  <1>2. CASE ~crashed /\ \E p \in Period : Tick(p) \/ TickSend(p)
    BY <1>2, IdleTracked, SenderTracked
  <1>3. CASE ~crashed /\ Serve
    BY <1>3, ServeAddTracked, ServeDelTracked, ServeOtherTracked, StopTickerTracked, IdleTracked
       DEF Serve
  <1>4. CASE ~crashed /\ Main
    BY <1>4, RemoveTracked, EstablishTracked, CreateTracked, SenderTracked, IdleTracked DEF Main
  <1>5. CASE ~crashed /\ (StopPfcp \/ CloseDriver)
    BY <1>5, IdleTracked, SenderTracked
  <1> QED
    BY <1>1, <1>2, <1>3, <1>4, <1>5 DEF Next, Terminated

\* A request keeps the places if it gives periods to URRs of a live session only.
LEMMA RequestPlaces ==
    ASSUME TypeOK, Places, NEW s \in SEID, NEW live \in SUBSET SEID, NEW urrs \in SUBSET URRID,
           NEW events, Request(s, live, urrs, events), \A r : r # s => (r \in live <=> r \in alive),
           \A e \in events : e.type \in {"ADD", "DEL"},
           \A e, f \in events : e.type = "ADD" => e = f,
           \A t \in Timer : t[1] # s => period'[t] = period[t],
           \A t \in Timer : t[1] = s /\ period'[t] # None => s \in live /\ t[2] \in urrs
    PROVE  Places'
  <1>1. /\ \A t \in Timer : t[1] # s => (Live(t)' <=> Live(t))
        /\ \A t \in Timer : t[1] = s => (Live(t)' <=> s \in live /\ t[2] \in urrs)
    BY RequestLive
  <1>2. \A t \in Timer : period'[t] # None => Live(t)'
    BY <1>1 DEF Places
  <1>3. /\ calls' = events /\ (main' # "call" => events = {})
        /\ UNCHANGED <<perioList, urrids, closing, serve>>
    BY DEF Request, timerVars, serveVars
  <1> QED
    BY <1>2, <1>3 DEF Places

\* Establishment: the URRs of a session that is not alive have no period.
LEMMA EstablishPlaces ==
    ASSUME TypeOK, Places, NEW s \in SEID, NEW u \in URRID, NEW p \in Period \cup {None},
           NEW ok \in BOOLEAN, Establish(s, u, p, ok)
    PROVE  Places'
  <1>1. \A t \in Timer : t[1] = s => period[t] = None
    <2>1. s \notin alive
      BY DEF Establish
    <2>2. \A t \in Timer : period[t] # None => Live(t)
      BY DEF Places
    <2> QED
      BY <2>1, <2>2 DEF Live
  <1>2. /\ \A e \in AddCalls(s, u, p) : e.type = "ADD"
        /\ \A e, f \in AddCalls(s, u, p) : e = f
    BY PlannedAdd
  <1> DEFINE live == IF ok THEN alive \cup {s} ELSE alive
             urrs == IF ok THEN {u} ELSE {}
             events == AddCalls(s, u, p)
  <1>3. Request(s, live, urrs, events)
    BY DEF Establish
  <1>4. /\ live \in SUBSET SEID /\ urrs \in SUBSET URRID
        /\ \A r : r # s => (r \in live <=> r \in alive)
    BY DEF TypeOK
  <1>5. ok => s \in live /\ u \in urrs
    OBVIOUS
  <1> HIDE DEF live, urrs, events
  <1>6. ASSUME NEW t \in Timer
        PROVE  /\ t[1] # s => period'[t] = period[t]
               /\ t[1] = s /\ period'[t] # None => s \in live /\ t[2] \in urrs
    <2>1. CASE ok
      <3>1. period' = [period EXCEPT ![<<s, u>>] = p]
        BY <2>1 DEF Establish
      <3>2. period'[t] = IF t = <<s, u>> THEN p ELSE period[t]
        BY <3>1 DEF TypeOK
      <3> QED
        BY <1>1, <1>5, <2>1, <3>2, Timers, SMT
    <2>2. CASE ~ok
      BY <1>1, <2>2 DEF Establish
    <2> QED
      BY <2>1, <2>2
  <1>7. /\ \A e \in events : e.type \in {"ADD", "DEL"}
        /\ \A e, f \in events : e.type = "ADD" => e = f
    BY <1>2 DEF events
  <1>8. \A t \in Timer : t[1] # s => period'[t] = period[t]
    BY <1>6
  <1>9. \A t \in Timer : t[1] = s /\ period'[t] # None => s \in live /\ t[2] \in urrs
    BY <1>6
  <1> QED
    BY <1>3, <1>4, <1>7, <1>8, <1>9, RequestPlaces, ZenonT(60)

\* CreateURR: the URR belongs to the session now, if it did not before.
LEMMA CreatePlaces ==
    ASSUME TypeOK, Places, NEW s \in SEID, NEW u \in URRID, NEW p \in Period \cup {None},
           CreateURR(s, u, p)
    PROVE  Places'
  <1> DEFINE urrs == sess[s] \cup {u}
             events == AddCalls(s, u, p)
  <1>1. (\A e \in events : e.type = "ADD") /\ (\A e, f \in events : e = f)
    BY PlannedAdd
  <1>2. /\ Request(s, alive, urrs, events) /\ s \in alive
        /\ period' = [period EXCEPT ![<<s, u>>] = p]
    BY DEF CreateURR
  <1>3. \A t \in Timer : period'[t] = IF t = <<s, u>> THEN p ELSE period[t]
    BY <1>2 DEF TypeOK
  <1>4. alive \in SUBSET SEID /\ urrs \in SUBSET URRID /\ u \in urrs /\ sess[s] \subseteq urrs
    BY DEF TypeOK
  <1>5. \A t \in Timer : t[1] = s /\ period[t] # None => t[2] \in sess[s]
    BY DEF Places, Live
  <1> HIDE DEF urrs, events
  <1>6. ASSUME NEW t \in Timer
        PROVE  /\ t[1] # s => period'[t] = period[t]
               /\ t[1] = s /\ period'[t] # None => s \in alive /\ t[2] \in urrs
    BY <1>2, <1>3, <1>4, <1>5, Timers, SMT
  <1>7. \A t \in Timer : t[1] # s => period'[t] = period[t]
    BY <1>6
  <1>8. \A t \in Timer : t[1] = s /\ period'[t] # None => s \in alive /\ t[2] \in urrs
    BY <1>6
  <1>9. /\ \A e \in events : e.type \in {"ADD", "DEL"}
        /\ \A e, f \in events : e.type = "ADD" => e = f
    BY <1>1
  <1> QED
    BY <1>2, <1>4, <1>7, <1>8, <1>9, RequestPlaces, ZenonT(60)

\* Removal and deletion: a URR that leaves the session loses its period.
LEMMA RemovePlaces ==
    ASSUME TypeOK, Places, NEW s \in SEID, (\E u \in URRID : RemoveURR(s, u)) \/ DeleteSess(s)
    PROVE  Places'
  <1>1. \A t \in Timer : t[1] = s /\ period[t] # None => t[2] \in sess[s]
    BY DEF Places, Live
  <1>2. ASSUME NEW u \in URRID, RemoveURR(s, u)
        PROVE  Places'
    <2> DEFINE urrs == sess[s] \ {u}
               events == {Del(s, u)}
    <2>1. /\ Request(s, alive, urrs, events) /\ s \in alive
          /\ period' = [period EXCEPT ![<<s, u>>] = None]
      BY <1>2 DEF RemoveURR
    <2>2. \A t \in Timer : period'[t] = IF t = <<s, u>> THEN None ELSE period[t]
      BY <2>1 DEF TypeOK
    <2>3. /\ alive \in SUBSET SEID /\ urrs \in SUBSET URRID
          /\ \A v : v \in sess[s] /\ v # u => v \in urrs
      BY DEF TypeOK
    <2>4. \A e \in events : e.type = "DEL"
      BY PlannedDel
    <2> HIDE DEF urrs, events
    <2>5. ASSUME NEW t \in Timer
          PROVE  /\ t[1] # s => period'[t] = period[t]
                 /\ t[1] = s /\ period'[t] # None => s \in alive /\ t[2] \in urrs
      BY <1>1, <2>1, <2>2, <2>3, Timers, SMT
    <2>6. /\ \A e \in events : e.type \in {"ADD", "DEL"}
          /\ \A e, f \in events : e.type = "ADD" => e = f
      BY <2>4
    <2>7. \A t \in Timer : t[1] # s => period'[t] = period[t]
      BY <2>5
    <2>8. \A t \in Timer : t[1] = s /\ period'[t] # None => s \in alive /\ t[2] \in urrs
      BY <2>5
    <2> QED
      BY <2>1, <2>3, <2>6, <2>7, <2>8, RequestPlaces, ZenonT(60)
  <1>3. CASE DeleteSess(s)
    <2> DEFINE live == alive \ {s}
               urrs == {}
               events == {Del(s, u) : u \in sess[s]}
    <2>1. Request(s, live, urrs, events)
      BY <1>3 DEF DeleteSess
    <2>2. \A e \in events : e.type = "DEL"
      BY PlannedDel
    <2>3. /\ live \in SUBSET SEID /\ urrs \in SUBSET URRID
          /\ \A r : r # s => (r \in live <=> r \in alive)
      BY DEF TypeOK
    <2> HIDE DEF live, urrs, events
    <2>4. /\ \A e \in events : e.type \in {"ADD", "DEL"}
          /\ \A e, f \in events : e.type = "ADD" => e = f
      BY <2>2
    <2>5. \A t \in Timer : t[1] # s => period'[t] = period[t]
      BY <1>3 DEF DeleteSess
    <2>6. \A t \in Timer : t[1] = s /\ period'[t] # None => s \in live /\ t[2] \in urrs
      BY <1>3 DEF DeleteSess
    <2> QED
      BY <2>1, <2>3, <2>4, <2>5, <2>6, RequestPlaces, ZenonT(60)
  <1> QED
    BY <1>2, <1>3

\* Every step keeps the places of the groups, the calls and the two loops.
LEMMA NextPlaces ==
    ASSUME IInv, Places, [Next]_vars
    PROVE  Places'
  <1> USE DEF Places
  <1>1. CASE UNCHANGED vars
    BY <1>1 DEF vars, timerVars, serveVars, mainVars, sessVars, Live
  <1>2. ASSUME NEW p \in Period, Tick(p) \/ TickSend(p)
        PROVE  Places'
    BY <1>2, SMT DEF Tick, TickSend, serveVars, mainVars, sessVars, Live
  <1>3. CASE ServeAdd
    <2>1. Head(evtCh) \in Event /\ Head(evtCh).type = "ADD"
      BY <1>3, RecvEvent DEF ServeAdd, Recv, IInv
    <2>2. Head(evtCh).period \in Period
      BY <2>1, EventFields
    <2>3. \A p \in Period \ perioList' : urrids'[p] = {}
      BY <1>3, <2>2 DEF ServeAdd, IInv, TypeOK
    <2> QED
      BY <1>3, <2>3 DEF ServeAdd, serveVars, mainVars, sessVars, Live
  <1>4. CASE ServeDel
    <2>1. \A p \in Period \ perioList' : urrids'[p] = {}
      BY <1>4 DEF ServeDel, IInv, TypeOK
    <2>2. ~closing' /\ UNCHANGED <<main, calls, period, alive, sess>>
      BY <1>4 DEF ServeDel, Recv, mainVars, sessVars
    <2> QED
      BY <2>1, <2>2 DEF Live
  <1>5. CASE ServeTimeout
    <2>1. ~closing' /\ UNCHANGED <<main, calls, perioList, urrids, period, alive, sess>>
      BY <1>5 DEF ServeTimeout, Recv, mainVars, sessVars, timerVars
    <2> QED
      BY <2>1 DEF Live
  <1>6. CASE ServeClose
    BY <1>6 DEF ServeClose, StopNextOf, mainVars, sessVars, timerVars, Live
  <1>7. CASE StopTicker
    <2>1. \A p \in Period \ perioList' : urrids'[p] = {}
      BY <1>7 DEF StopTicker, IInv, TypeOK, ServePlace
    <2>2. UNCHANGED <<main, calls, closing, period, alive, sess>>
      BY <1>7 DEF StopTicker, mainVars, sessVars
    <2>3. closing => serve' \in {"stop", "done"}
      BY <1>7 DEF StopTicker, StopNextOf
    <2> QED
      BY <2>1, <2>2, <2>3 DEF Live
  <1>8. CASE Notify
    <2>1. ~closing' /\ UNCHANGED <<main, calls, perioList, urrids, period, alive, sess>>
      BY <1>8 DEF Notify, mainVars, sessVars, timerVars
    <2> QED
      BY <2>1 DEF Live
  <1> HIDE DEF Places
  <1>9. ASSUME NEW s \in SEID, NEW u \in URRID, NEW p \in Period \cup {None}, NEW ok \in BOOLEAN,
                Establish(s, u, p, ok)
         PROVE  Places'
    BY <1>9, EstablishPlaces DEF IInv
  <1>10. ASSUME NEW s \in SEID, NEW u \in URRID, NEW p \in Period \cup {None}, CreateURR(s, u, p)
         PROVE  Places'
    BY <1>10, CreatePlaces DEF IInv
  <1>11. ASSUME NEW s \in SEID, (\E u \in URRID : RemoveURR(s, u)) \/ DeleteSess(s)
         PROVE  Places'
    BY <1>11, RemovePlaces DEF IInv
  <1> USE DEF Places
  <1>12. CASE Call
    BY <1>12 DEF Call, timerVars, serveVars, sessVars, Live
  <1>13. CASE ServeReport
    BY <1>13 DEF ServeReport, timerVars, serveVars, mainVars, sessVars, Live
  <1>14. CASE MainStop
    BY <1>14 DEF MainStop, timerVars, serveVars, sessVars, Live
  <1>15. CASE StopPfcp \/ CloseDriver
    BY <1>15, SMT DEF StopPfcp, CloseDriver, timerVars, serveVars, mainVars, sessVars, Live
  <1> HIDE DEF Places
  <1> QED
    BY <1>1, <1>2, <1>3, <1>4, <1>5, <1>6, <1>7, <1>8, <1>9, <1>10, <1>11, <1>12,
       <1>13, <1>14, <1>15 DEF Next, Serve, Main, Terminated

\* Nothing is live and nothing is registered at the start.
LEMMA InitTracked == Init => Places /\ Tracked
  <1> SUFFICES ASSUME Init PROVE Places /\ Tracked
    OBVIOUS
  <1>1. Places
    BY DEF Init, Places
  <1>2. Len(evtCh) = 0 /\ evtCh = <<>> /\ serve = "range"
    BY DEF Init
  <1>3. ASSUME NEW t \in Timer
        PROVE  (\A p \in Period : t \notin urrids[p]) /\ period[t] = None /\ ~Adding(t)
    BY DEF Init, Adding
  <1>4. ASSUME NEW t \in Timer
        PROVE  Good(t)
    <2>1. PICK h \in [{0} -> Dues] : h[0] = None
      <3>1. [k \in {0} |-> None] \in [{0} -> Dues] /\ [k \in {0} |-> None][0] = None
        BY DEF Dues
      <3> QED
        BY <3>1
    <2>2. 0 .. Len(evtCh) = {0} /\ 1 .. Len(evtCh) = {}
      BY <1>2, SMT
    <2>3. Trace(h, t) /\ AddedOnce(h, t) /\ Ends(h[Len(evtCh)], t)
      BY <1>2, <1>3, <2>1, <2>2 DEF Trace, AddedOnce, Ends, In, Only
    <2> QED
      BY <2>1, <2>2, <2>3 DEF Good
  <1> QED
    BY <1>1, <1>2, <1>4 DEF Tracked

\* When nothing is on its way every timer is where it is due.
LEMMA QuietTimers ==
    ASSUME IInv, Places, Tracked
    PROVE  TimersFollowSessions
  <1> SUFFICES ASSUME Quiet, NEW t \in Timer, NEW p \in Period
               PROVE  /\ Live(t) /\ period[t] = p => Grouped(t, p)
                      /\ Grouped(t, p) => (Live(t) /\ period[t] = p) \/ t \in leaked \cup moved
    BY DEF TimersFollowSessions
  <1>1. Len(evtCh) = 0 /\ ~closing /\ ~crashed /\ calls = {}
    BY DEF Quiet, Places
  <1>2. ~Adding(t) /\ ~Dropping(t)
    BY <1>1 DEF Adding, Dropping
  <1>3. PICK h \in [0 .. Len(evtCh) -> Dues] :
            /\ Trace(h, t)
            /\ t \notin Left => AddedOnce(h, t)
            /\ Ends(h[Len(evtCh)], t)
    BY <1>1 DEF Tracked, Good
  <1>4. period[t] = p => t \in urrids[p]
    BY <1>1, <1>2, <1>3, PerioAssumption DEF Trace, Ends, In
  <1>5. t \in urrids[p] => p \in perioList
    BY DEF Places
  <1>6. t \notin Left /\ t \in urrids[p] => period[t] = p
    <2> SUFFICES ASSUME t \notin Left, t \in urrids[p]
                 PROVE  period[t] = p
      OBVIOUS
    <2>1. h[0] = p
      BY <1>3 DEF AddedOnce, Only
    <2>2. p # None
      BY PerioAssumption
    <2> QED
      BY <1>1, <1>2, <1>3, <2>1, <2>2 DEF Ends
  <1>7. period[t] = p => Live(t)
    BY PerioAssumption DEF Places
  <1> QED
    BY <1>4, <1>5, <1>6, <1>7 DEF Grouped, Left

\* Once its calls are processed the perio server has the timer of every periodic
\* URR of a live session in the group of the period the URR was last created with,
\* and no timer but those, however the PFCP loop's requests, Serve and the tickers
\* interleave: what a failed establishment or a URR created again with another
\* period has left behind is the only exception.
THEOREM TimersMatchSessions == Spec => []TimersFollowSessions
  <1> DEFINE TInv == IInv /\ Places /\ Tracked
  <1>1. Init => TInv
    BY InitIInv, InitTracked
  <1>2. TInv /\ [Next]_vars => TInv'
    BY NextIInv, NextPlaces, NextTracked
  <1>3. TInv => TimersFollowSessions
    BY QuietTimers
  <1> QED
    BY <1>1, <1>2, <1>3, PTL DEF Spec
=============================================================================

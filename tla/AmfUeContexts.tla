---------------------------- MODULE AmfUeContexts ----------------------------
(***************************************************************************)
(* The UE contexts of the AMF (AmfUe) of one subscriber on 3GPP access:    *)
(* the GMM state machine (NFs/amf/internal/gmm), the retransmission timers *)
(* T3560, T3550 and T3570 (context/timer.go, gmm/message/send.go), the     *)
(* pool that finds a context by its SUPI, and the RanUe link that the gNB  *)
(* sets up and takes down (ngap/handler.go).                               *)
(*                                                                         *)
(* A NAS handler runs on an NGAP worker and is cut where it waits for      *)
(* another network function (field work); timers and the handlers of other *)
(* NGAP messages run meanwhile.  A context whose UE came back over a new   *)
(* connection lives on beside the new one.  UE and gNB are external: the   *)
(* UE answers on its current connection only, in order, or not at all.     *)
(* Paging, notification, configuration update and network-initiated        *)
(* deregistration with their timers are left out.                          *)
(***************************************************************************)
EXTENDS Naturals, Sequences, FiniteSets

CONSTANTS
    MaxCtx,     \* bound on the AmfUe objects created
    MaxRetry,   \* MaxRetryTimes of every timer
    MaxTimers,  \* bound on the goroutines of one timer kind of a context
    MaxUp,      \* bound on the uplink messages under way
    MaxRequests,\* bound on the registration requests
    MaxLate     \* bound on the contexts with a stopped timer that still fires

ASSUME ContextsAssumption ==
    /\ {MaxCtx, MaxTimers, MaxUp, MaxRequests} \subseteq Nat \ {0}
    /\ {MaxRetry, MaxLate} \subseteq Nat

Ctx == 1 .. MaxCtx
None == 0
Kind == {"T3560", "T3550", "T3570"}
Request == {"suci", "imei", "auth", "smc", "acc"}
Timer == [kind : Kind, id : 1 .. MaxTimers, what : Request,
          n : 0 .. MaxRetry, stopped : BOOLEAN, live : BOOLEAN]
    \* live: the RanUe the timer was started for is still the context's

VARIABLES
    ue,       \* the AmfUe objects
    tm,       \* goroutines of the timers of each context
    pool,     \* UePool entry of the subscriber's SUPI
    udm,      \* UDM holds an AMF registration of the subscriber
    down,     \* the last request to the UE that it has yet to answer
    up,       \* answers the AMF has yet to handle
    cur,      \* context of the UE's present connection
    made,     \* number of contexts created
    reqs      \* number of registration requests

vars == <<ue, tm, pool, udm, down, up, cur, made, reqs>>
reg == <<pool, udm>>

NoTimers == [k \in Kind |-> 0]
AmfUe == [state : {"Dereg", "Auth", "Sec", "Setup", "Reg", "DeregInit"},
          work : {"idle", "ausf", "confirm", "resync", "setup", "complete", "dereg"},
          ran : {"off", "on", "half"},          \* RanUe; half: its AmfUe is nil
          T : [Kind -> 0 .. MaxTimers],         \* T3560, T3550, T3570; 0 is nil
          type : {"none", "init", "upd"}, asked : {"none", "suci", "imei"},
          rel : {"none", "n2", "ue"},           \* ReleaseAction of the RanUe
          hold : 0 .. MaxCtx,                   \* HoldingAmfUe of the RanUe
          supi : BOOLEAN, ident : BOOLEAN, guti : BOOLEAN, pei : BOOLEAN,
          sec : BOOLEAN, sync : BOOLEAN, valid : BOOLEAN, cm : BOOLEAN,
          gone : BOOLEAN,                       \* ue.Remove() has run
          other : BOOLEAN,    \* the Deregistration Request does not name 3GPP access
          cut : BOOLEAN, late : BOOLEAN, dup : BOOLEAN]        \* history, see below

\* NewAmfUe.  cut records that the present procedure lost its connection, or
\* that a call it depends on failed without an answer to the UE; late that a
\* timer of the context fired after Stop; dup that the UE was sent a request
\* again that it had answered, which a context's UE sees once at most.
NewAmfUe ==
    [state |-> "Dereg", work |-> "idle", ran |-> "off", T |-> NoTimers,
     type |-> "none", asked |-> "none", rel |-> "none", hold |-> None,
     supi |-> FALSE, ident |-> FALSE, guti |-> FALSE, pei |-> FALSE,
     sec |-> FALSE, sync |-> FALSE, valid |-> FALSE, cm |-> FALSE,
     gone |-> FALSE, other |-> FALSE, cut |-> FALSE, late |-> FALSE, dup |-> FALSE]

Init ==
    /\ ue = [c \in Ctx |-> NewAmfUe] /\ tm = [c \in Ctx |-> {}]
    /\ pool = None /\ udm = FALSE
    /\ down = [c \in Ctx |-> "none"] /\ up = [c \in Ctx |-> <<>>]
    /\ cur = None /\ made = 0 /\ reqs = 0

-----------------------------------------------------------------------------
(* A handler works on x, a context with its timers, the request under way   *)
(* to its UE, the pool and the UDM; Put stores what the handler made of it. *)
(* l says whether a timer that the handler stops still fires: Stop leaves a *)
(* token in the timer's done channel, and a tick that is ready at the same  *)
(* time may be chosen by the goroutine's select.  Lates bounds this to one  *)
(* such timer per context.                                                  *)

Lates(c) ==
    IF Cardinality({d \in Ctx : ue[d].late \/ \E t \in tm[d] : t.stopped}) < MaxLate
    THEN BOOLEAN ELSE {FALSE}

At(c, l) == [c |-> c, l |-> l, u |-> ue[c], ts |-> tm[c], d |-> down[c],
             pool |-> pool, udm |-> udm]

\* A context that nothing refers to any more keeps nothing that matters.
Kept(x) ==
    IF x.u.gone /\ x.u.work = "idle" /\ x.ts = {} /\ x.pool # x.c
    THEN [NewAmfUe EXCEPT !.gone = TRUE, !.supi = x.u.supi] ELSE x.u

Put(c, x) ==
    /\ x.ts \subseteq Timer
    /\ ue' = [ue EXCEPT ![c] = Kept(x)]
    /\ tm' = [tm EXCEPT ![c] = x.ts]
    /\ down' = [down EXCEPT ![c] = x.d]
    /\ pool' = x.pool /\ udm' = x.udm

\* Stop of the timers of kinds K that the context refers to.
Stop(x, K) ==
    LET Named(t) == t.kind \in K /\ x.u.T[t.kind] = t.id IN
    [x EXCEPT !.u.T = [k \in Kind |-> IF k \in K THEN 0 ELSE @[k]],
              !.ts = {[t EXCEPT !.stopped = @ \/ Named(t)] : t \in {r \in @ : x.l \/ ~Named(r)}}]

\* A Send... function of gmm/message: nothing at all without a RanUe (one that
\* knows the AmfUe, but for the Registration Accept), else the request goes out
\* and NewTimer replaces the context's timer of that kind.
Sends(x, k) == x.u.ran = "on" \/ (x.u.ran = "half" /\ k = "T3550")
Send(x, k, what) ==
    LET i == CHOOSE j \in 1 .. MaxTimers + 1 :
                /\ \A t \in x.ts : t.kind = k => t.id # j
                /\ \A h \in 1 .. j - 1 : \E t \in x.ts : t.kind = k /\ t.id = h
    IN  IF ~Sends(x, k) THEN x
        ELSE [x EXCEPT !.u.T[k] = i, !.d = what,
                       !.ts = @ \cup {[kind |-> k, id |-> i, what |-> what, n |-> 0,
                                       stopped |-> FALSE, live |-> TRUE]}]

SendIdentityRequest(x, what) ==
    Send([x EXCEPT !.u.asked = IF Sends(x, "T3570") THEN what ELSE @], "T3570", what)
SendAuthenticationRequest(x) == Send(x, "T3560", "auth")
SendSecurityModeCommand(x) ==
    Send([x EXCEPT !.u.sec = @ \/ Sends(x, "T3560")], "T3560", "smc")
SendRegistrationAccept(x) == Send(x, "T3550", "acc")

\* PurgeAmfUeSubscriberData deregisters at the UDM while there is a RanUe.
Purge(x) ==
    IF x.u.ran # "off" /\ x.u.valid /\ x.u.cm
    THEN [x EXCEPT !.u.cm = FALSE, !.udm = FALSE] ELSE x

Transient == {"Auth", "Sec", "Setup", "DeregInit"}

\* Mutant: the pool's entry goes with the connection.
RemoveRanUeDeep(x) ==
    IF x.u.ran # "on" THEN x
    ELSE [x EXCEPT !.u.ran = "off", !.u.rel = "none", !.u.hold = None, !.d = "none",
                   !.u.cut = @ \/ x.u.state \in Transient,
                   !.ts = {[t EXCEPT !.live = FALSE] : t \in @},
                   !.pool = IF x.u.supi THEN None ELSE @]

\* RanUe.Remove: a RanUe that knows the AmfUe is detached from it.  cut records
\* a procedure that lost its connection.
RemoveRanUe(x) ==
    IF x.u.ran # "on" THEN x
    ELSE [x EXCEPT !.u.ran = "off", !.u.rel = "none", !.u.hold = None, !.d = "none",
                   !.u.cut = @ \/ x.u.state \in Transient,
                   !.ts = {[t EXCEPT !.live = FALSE] : t \in @}]

\* RemoveAmfUe: purge, stop the timers, drop the RanUe, and delete the pool's
\* entry of the SUPI, whichever context it names.
RemoveAmfUe(x) ==
    [RemoveRanUe(Stop(Purge(x), Kind)) EXCEPT
        !.u.gone = TRUE, !.pool = IF x.u.supi THEN None ELSE @]

-----------------------------------------------------------------------------
(* GMM procedures.                                                          *)

\* A transition of the state machine with its exit and entry actions.
Enter(x, s) ==
    [x EXCEPT !.u.state = s, !.u.sync = FALSE, !.u.other = FALSE,
              !.u.type = IF s \in {"Dereg", "Reg"} THEN "none" ELSE @,
              !.u.guti = @ /\ s = "Auth", !.u.cut = @ /\ s \in {"Sec", "Setup"}]

\* SendEvent: without a transition from the current state nothing happens.
Event(x, from, to) == IF x.u.state = from THEN Enter(x, to) ELSE x

\* A handler returns without an answer to the UE and without a timer.
Silent(x) == [x EXCEPT !.u.cut = TRUE]

\* AuthenticationProcedure, up to its call of the AUSF.  mac: the message under
\* way passed the integrity check, without which the context is not valid.
AuthenticationProcedure(x, mac) ==
    IF ~x.u.ident THEN SendIdentityRequest([x EXCEPT !.u.guti = FALSE], "suci")
    ELSE IF x.u.sec /\ mac THEN [Enter(x, "Setup") EXCEPT !.u.work = "setup"]
    ELSE [x EXCEPT !.u.work = "ausf"]

\* Mutant: a request drops the security context before the state check.
RegistrationRequestEarly(x, id, type, mac) ==
    LET y(s) == [x EXCEPT !.u.type = type, !.u.sec = s,
                          !.u.guti = (id = "guti"), !.u.ident = @ \/ id = "suci"]
    IN  IF x.u.state \notin {"Dereg", "Reg"} \/ (x.u.state = "Dereg" /\ type = "upd")
        THEN {x, [x EXCEPT !.u.sec = FALSE]}
        ELSE {x} \cup UNION {{y(s), AuthenticationProcedure(Enter(y(s), "Auth"), mac)} :
                              s \in {x.u.sec, FALSE}}

\* A Registration Request in states Dereg and Reg: HandleRegistrationRequest,
\* which may reject it at the start or halfway, then StartAuthEvent.  A logged
\* mismatch in all other states.  The security context goes with an initial
\* registration, unless its type is a reserved one, and with a NAS container
\* that cannot be deciphered.
RegistrationRequest(x, id, type, mac) ==
    LET y(s) == [x EXCEPT !.u.type = type, !.u.sec = s,
                          !.u.guti = (id = "guti"), !.u.ident = @ \/ id = "suci"]
    IN  IF x.u.state \notin {"Dereg", "Reg"} \/ (x.u.state = "Dereg" /\ type = "upd") THEN {x}
        ELSE {x} \cup UNION {{y(s), AuthenticationProcedure(Enter(y(s), "Auth"), mac)} :
                              s \in {x.u.sec, FALSE}}

\* handleInitialUEMessage and HandleNAS: the UE opens a new connection.  The
\* gNB may have given it the RAN-UE-NGAP-ID of the old one (reuse).  The
\* identity finds the context in the pool (found) or none; a context without
\* RanUe is attached, a connected one held until the new one is authenticated.
\* (Without a context an update is refused and no context comes about.)
InitialUEMessage(id, type, found, reuse, mac) ==
    LET Old(c) == IF c # cur THEN At(c, FALSE)
                  ELSE IF reuse THEN RemoveRanUe(Stop(At(c, FALSE), Kind))
                  ELSE [At(c, FALSE) EXCEPT !.d = "none"]
        attach == found /\ Old(pool).u.ran = "off"
        c == IF attach THEN pool ELSE made + 1
        new == [c |-> made + 1, l |-> FALSE,
                u |-> [NewAmfUe EXCEPT !.hold = IF found THEN pool ELSE None],
                ts |-> {}, d |-> "none", pool |-> pool, udm |-> udm]
    IN  /\ reqs < MaxRequests /\ reqs' = reqs + 1
        /\ reuse => cur # None /\ ue[cur].ran = "on"
        /\ found => pool # None
        /\ found \/ type = "init"
        /\ c \in Ctx /\ (ue[c].work = "idle" \/ ue[c].state \in Transient)
        /\ \E x \in RegistrationRequest([(IF attach THEN Old(c) ELSE new) EXCEPT !.u.ran = "on"],
                                        id, type, mac) :
              /\ x.ts \subseteq Timer
              /\ ue' = [d \in Ctx |-> IF d = c THEN x.u ELSE Old(d).u]
              /\ tm' = [d \in Ctx |-> IF d = c THEN x.ts ELSE Old(d).ts]
              /\ down' = [d \in Ctx |-> IF d = c THEN x.d ELSE Old(d).d]
        /\ up' = [up EXCEPT ![c] = <<>>]
        /\ cur' = c /\ made' = IF attach THEN made ELSE c
        /\ UNCHANGED reg

\* A Registration Request on a connection that is already there: Decode takes
\* none that fails the integrity check while there is a security context.
LaterRequest(c, type) ==
    /\ c = cur /\ ue[c].ran = "on" /\ ue[c].work = "idle" /\ ue[c].state \in {"Dereg", "Reg"}
    /\ reqs < MaxRequests /\ reqs' = reqs + 1
    /\ \E x \in RegistrationRequest(At(c, FALSE), "guti", type, TRUE) : Put(c, x)
    /\ UNCHANGED <<up, cur, made>>

-----------------------------------------------------------------------------
(* What the handlers make of an answer: the set of possible results.        *)

\* AuthFailEvent: the RanUe goes first, so that nothing is purged at the UDM.
AuthFail(x) ==
    IF x.u.state = "Auth" THEN Enter(RemoveAmfUe(RemoveRanUe(x)), "Dereg") ELSE x

\* A wrong response: one identity request if the UE came with a GUTI, else reject
\* (guti also stands for IdentityRequestSendTimes = 0).
WrongResponse(x) ==
    IF x.u.guti THEN SendIdentityRequest([x EXCEPT !.u.guti = FALSE], "suci") ELSE AuthFail(x)

\* HandleIdentityResponse, then AuthRestartEvent or the rest of the setup.
HandleIdentityResponse(x, m) ==
    LET y == Stop(x, {"T3570"}) IN
    IF x.u.asked # m \/ x.u.state \notin {"Auth", "Setup"} THEN {x}
    ELSE {Silent(y),
          IF x.u.state = "Auth"
          THEN AuthenticationProcedure([y EXCEPT !.u.ident = @ \/ m = "suci"], TRUE)
          ELSE [y EXCEPT !.u.pei = @ \/ m = "imei", !.u.work = "setup"]}

\* Mutant: T3560 is stopped before the state is looked at.
HandleAuthenticationStop(x) ==
    LET y == Stop(x, {"T3560"}) IN
    IF x.u.state # "Auth" THEN {y}
    ELSE {Silent(y), WrongResponse(y), AuthFail(y), [y EXCEPT !.u.work = "confirm"]}

\* HandleAuthenticationResponse and HandleAuthenticationFailure up to the call
\* of the AUSF (work confirm or resync).  A UE asks for another request, by a
\* synch failure or an ngKSI in use, once per procedure.
HandleAuthentication(x) ==
    LET y == Stop(x, {"T3560"}) IN
    IF x.u.state # "Auth" THEN {x}
    ELSE {Silent(y), WrongResponse(y), AuthFail(y), [y EXCEPT !.u.work = "confirm"]} \cup
         (IF x.u.sync THEN {}
          ELSE {[y EXCEPT !.u.sync = TRUE, !.u.work = "resync"],
                SendAuthenticationRequest([y EXCEPT !.u.sync = TRUE])})

\* Entry of state SecurityMode.
SecurityMode(x) ==
    IF x.u.state # "Auth" THEN {x}
    ELSE IF x.u.sec THEN {[Enter(x, "Setup") EXCEPT !.u.work = "setup"]}
    ELSE {SendSecurityModeCommand(Enter(x, "Sec")), Enter(x, "Dereg")}

\* HandleSecurityModeComplete, which releases the connection of a UE that asked
\* for service, and HandleSecurityModeReject.
HandleSecurityMode(x) ==
    LET y == Stop(x, {"T3560"}) IN
    IF x.u.state # "Sec" THEN {x}
    ELSE {x, Silent(y)} \cup {[Enter(y, "Dereg") EXCEPT !.u.rel = r] : r \in {x.u.rel, "n2"}} \cup
         {[Enter(y, "Setup") EXCEPT !.u.pei = @ \/ p, !.u.work = "setup"] : p \in BOOLEAN}

\* HandleRegistrationComplete, up to the release of the UE's sessions.
HandleRegistrationComplete(x) ==
    IF x.u.state # "Setup" \/ x.u.T["T3550"] = 0 THEN {x}
    ELSE {[Stop(x, {"T3550"}) EXCEPT !.u.work = "complete"]}

HandleAnswer(x, m) ==
    CASE m \in {"suci", "imei"} -> HandleIdentityResponse(x, m)
      [] m = "auth" -> HandleAuthentication(x)
      [] m = "smc"  -> HandleSecurityMode(x)
      [] m = "acc"  -> HandleRegistrationComplete(x)

\* handleUplinkNASTransport and HandleNAS, whose Decode may refuse the message.
\* Once the security context is valid the RanUe of the held context forgets it
\* (ClearHoldingRanUe).
UplinkNAS(c) ==
    LET h == IF ue[c].sec THEN ue[c].hold ELSE None IN
    /\ up[c] # <<>> /\ ue[c].work = "idle"
    /\ up' = [up EXCEPT ![c] = Tail(@)]
    /\ UNCHANGED <<cur, made, reqs>>
    /\ \/ UNCHANGED <<ue, tm, pool, udm, down>>
       \/ /\ ue[c].ran = "on"
          /\ \E l \in Lates(c) :
             \E x \in HandleAnswer([At(c, l) EXCEPT !.u.hold = IF ue[c].sec THEN None ELSE @],
                                   Head(up[c])) :
                /\ x.ts \subseteq Timer
                /\ ue' = [d \in Ctx |-> IF d = c THEN Kept(x)
                                        ELSE IF d = h /\ ue[d].ran = "on"
                                             THEN [ue[d] EXCEPT !.ran = "half", !.cut = TRUE]
                                        ELSE ue[d]]
                /\ tm' = [tm EXCEPT ![c] = x.ts] /\ down' = [down EXCEPT ![c] = x.d]
                /\ pool' = x.pool /\ udm' = x.udm

-----------------------------------------------------------------------------
(* Answers of the other network functions.                                  *)

\* What the waiting handler does with the answer (or the error) it gets.
AusfAnswers(x) == {SendAuthenticationRequest(x), Event(x, "Auth", "Dereg")}
ResyncAnswers(x) == {SendAuthenticationRequest(x), Silent(x)}
ConfirmAnswers(x) ==
    SecurityMode([x EXCEPT !.u.supi = TRUE]) \cup {WrongResponse(x), Silent(x)}

\* ContextSetupFailEvent: deregisters at the UDM, and leaves UeCmRegistered and
\* ContextValid as they are.
SetupFails(x) ==
    IF x.u.state # "Setup" THEN x
    ELSE Enter([x EXCEPT !.udm = @ /\ ~x.u.cm], "Dereg")

\* HandleInitialRegistration, HandleMobilityAndPeriodicRegistrationUpdating and
\* communicateWithUDM, which may fail before or after the UECM registration.
SetupAnswers(x) ==
    LET registered == [x EXCEPT !.u.cm = TRUE, !.udm = TRUE]
        y == IF x.u.valid THEN x ELSE [registered EXCEPT !.u.valid = TRUE]
    IN  {SetupFails(x)} \cup
        (IF ~x.u.pei THEN {SendIdentityRequest(x, "imei")}
         ELSE {SendRegistrationAccept(
                   [y EXCEPT !.pool = IF x.u.type = "init" THEN x.c ELSE @])} \cup
              (IF x.u.valid THEN {} ELSE {SetupFails(registered)}))

\* The rest of HandleRegistrationComplete: a UE that asked for no follow-on is
\* released.
CompleteAnswers(x) ==
    {[Event(x, "Setup", "Reg") EXCEPT !.u.rel = r] :
        r \in {x.u.rel, IF x.u.ran = "on" THEN "n2" ELSE x.u.rel}}

\* HandleDeregistrationRequest.  A request that names the other access type, or
\* a reserved one, ends with state DeregisteredInitiated of 3GPP access as it is:
\* the accept event goes to the other state machine, or nowhere.
DeregAnswers(x) ==
    {IF x.u.other THEN Purge(x)
     ELSE Event([Purge(x) EXCEPT !.u.rel = IF x.u.ran = "on" THEN "ue" ELSE @],
                "DeregInit", "Dereg")}

Answered(c) ==
    LET w == ue[c].work IN
        /\ w # "idle"
        /\ \E l \in Lates(c) :
           LET x == [At(c, l) EXCEPT !.u.work = "idle"] IN
           \E y \in CASE w = "ausf" -> AusfAnswers(x)
                      [] w = "resync" -> ResyncAnswers(x)
                      [] w = "confirm" -> ConfirmAnswers(x)
                      [] w = "setup" -> SetupAnswers(x)
                      [] w = "complete" -> CompleteAnswers(x)
                      [] w = "dereg" -> DeregAnswers(x) : Put(c, y)
        /\ UNCHANGED <<up, cur, made, reqs>>

\* A Deregistration Request of the UE, for 3GPP access or both (other FALSE) or
\* not, up to the calls of SMF, PCF and UDM.
DeregistrationRequest(c, other) ==
    /\ c = cur /\ ue[c].ran = "on" /\ ue[c].work = "idle" /\ ue[c].state = "Reg"
    /\ Put(c, [Enter(At(c, FALSE), "DeregInit") EXCEPT !.u.work = "dereg",
                                                      !.u.other = other])
    /\ UNCHANGED <<up, cur, made, reqs>>

-----------------------------------------------------------------------------
(* Timers.                                                                  *)

\* expiredFunc: the request goes out again on the RanUe it was first sent on;
\* without a RanUe T3550 only clears the context's reference to it.
Retransmit(x, t) ==
    IF t.kind = "T3550" /\ x.u.ran = "off" THEN [x EXCEPT !.u.T["T3550"] = 0]
    ELSE IF /\ x.u.ran = "on" /\ (t.live \/ t.kind = "T3550")
            /\ x.d # t.what /\ ~x.u.dup
         THEN [x EXCEPT !.d = t.what, !.u.dup = TRUE]
    ELSE x

\* cancelFunc.  T3560 and T3550 clear the context's reference, whichever timer
\* it names; T3550 declares the UE registered.
Cancel(x, t) ==
    LET y == [x EXCEPT !.u.T[t.kind] = 0] IN
    CASE t.kind = "T3560" -> RemoveAmfUe(y)
      [] t.kind = "T3570" -> RemoveAmfUe(x)
      [] t.kind = "T3550" -> [y EXCEPT !.u.state = "Reg", !.u.type = "none",
                                      !.u.sync = FALSE, !.u.guti = FALSE]

\* Mutant: the expiry count does not grow.
FireForever(c, t) ==
    /\ \E l \in Lates(c) :
       LET rest == [At(c, l) EXCEPT !.ts = @ \ {t}, !.u.late = @ \/ t.stopped]
           again == IF t.stopped THEN {} ELSE {t}
       IN  Put(c, IF t.n < MaxRetry THEN Retransmit([rest EXCEPT !.ts = @ \cup again], t)
                  ELSE Cancel(rest, t))
    /\ UNCHANGED <<up, cur, made, reqs>>

\* The timer's goroutine takes a tick, a stopped one its last.
Fire(c, t) ==
    /\ \E l \in Lates(c) :
       LET rest == [At(c, l) EXCEPT !.ts = @ \ {t}, !.u.late = @ \/ t.stopped]
           again == IF t.stopped THEN {} ELSE {[t EXCEPT !.n = @ + 1]}
       IN  Put(c, IF t.n < MaxRetry THEN Retransmit([rest EXCEPT !.ts = @ \cup again], t)
                  ELSE Cancel(rest, t))
    /\ UNCHANGED <<up, cur, made, reqs>>

-----------------------------------------------------------------------------
(* UE and gNB.                                                              *)

\* The UE answers a request.
UeAnswers(c, m) ==
    /\ c = cur /\ ue[c].ran = "on" /\ m = down[c] /\ Len(up[c]) < MaxUp
    /\ down' = [down EXCEPT ![c] = "none"]
    /\ up' = [up EXCEPT ![c] = Append(@, m)]
    /\ UNCHANGED <<ue, tm, pool, udm, cur, made, reqs>>

\* The association or the interface goes down, or NG Reset names the RanUe:
\* RanUe.Remove, and the timers go on.
ConnectionLost(c) ==
    /\ ue[c].ran = "on"
    /\ Put(c, RemoveRanUe(At(c, FALSE))) /\ UNCHANGED <<up, cur, made, reqs>>

\* handleUEContextReleaseRequest.
ReleaseRequest(c) ==
    /\ ue[c].ran = "on" /\ ue[c].rel = "none"
    /\ \E l \in Lates(c) : LET x == Stop(At(c, l), Kind) IN
       Put(c, IF pool # c THEN RemoveRanUe(x)
              ELSE IF ue[c].state = "Reg" THEN [x EXCEPT !.u.rel = "n2"]
              ELSE [x EXCEPT !.u.rel = "ue", !.u.cut = @ \/ ue[c].state \in Transient])
    /\ UNCHANGED <<up, cur, made, reqs>>

\* handleUEContextReleaseComplete.  (The one of a RanUe without AmfUe changes
\* no context.)
ReleaseComplete(c) ==
    /\ ue[c].ran = "on" /\ ue[c].rel # "none"
    /\ \E l \in Lates(c) :
       Put(c, IF ue[c].rel = "n2" THEN RemoveRanUe(At(c, l)) ELSE RemoveAmfUe(At(c, l)))
    /\ UNCHANGED <<up, cur, made, reqs>>

-----------------------------------------------------------------------------
Amf(c) == UplinkNAS(c) \/ Answered(c) \/ \E t \in tm[c] : Fire(c, t)

Next ==
    \/ \E id \in {"suci", "guti"}, type \in {"init", "upd"}, f, r, mac \in BOOLEAN :
          InitialUEMessage(id, type, f, r, mac)
    \/ \E c \in Ctx :
          \/ Amf(c)
          \/ \E type \in {"init", "upd"} : LaterRequest(c, type)
          \/ \E other \in BOOLEAN : DeregistrationRequest(c, other)
          \/ \E m \in Request : UeAnswers(c, m)
          \/ ConnectionLost(c) \/ ReleaseRequest(c) \/ ReleaseComplete(c)

Spec == Init /\ [][Next]_vars

\* Workers, timer goroutines and the other network functions make progress;
\* nothing is assumed of UE and gNB.
FairSpec ==
    /\ Spec
    /\ \A c \in Ctx : WF_vars(UplinkNAS(c)) /\ WF_vars(Answered(c))
    /\ \A c \in Ctx : WF_vars(\E t \in tm[c] : Fire(c, t))

-----------------------------------------------------------------------------
\* Every variable has a value the program can give it.
TypeOK ==
    /\ ue \in [Ctx -> AmfUe] /\ \A c \in Ctx : tm[c] \subseteq Timer
    /\ pool \in {None} \cup Ctx /\ udm \in BOOLEAN
    /\ \A c \in Ctx : down[c] \in Request \cup {"none"} /\ up[c] \in Seq(Request)
    /\ cur \in {None} \cup Ctx /\ made \in 0 .. MaxCtx /\ reqs \in 0 .. MaxRequests

Running(c) == {t \in tm[c] : ~t.stopped}
Pending(c) == ue[c].state \in Transient /\ ~ue[c].gone

\* While an authentication, a security mode procedure or a context setup waits
\* for its UE a timer runs that will end it, unless the procedure lost its
\* connection or a handler gave up without an answer.  (A deregistration that
\* the UE asks for waits for nothing.)
TimerGuards ==
    \A c \in Ctx : /\ Pending(c) /\ ue[c].state # "DeregInit"
                   /\ ue[c].work = "idle" /\ ~ue[c].cut
                   => Running(c) # {}

\* A context setup ends in state Registered only with a security context that
\* the security mode procedure has activated, whatever messages and timers came
\* in between, unless a stopped timer fired late.  (RegisteredFromSetup below is
\* about the other ways into the state.)
RegisteredAuthenticated ==
    [][\A c \in Ctx : ue[c].state # "Reg" /\ ue'[c].state = "Reg"
                      => ue'[c].sec \/ ue'[c].late \/ ue[c].state # "Setup"]_vars

\* A registered context is the one the pool finds for the SUPI, unless another
\* context of the subscriber has been authenticated.
RegisteredFindable ==
    \A c \in Ctx : /\ ue[c].state = "Reg" /\ ~ue[c].gone
                   /\ \A d \in Ctx \ {c} : ~ue[d].supi
                   => pool = c

\* Every procedure ends, or lost its connection, or was left without an answer.
\* Of the deregistrations this is so of those that name 3GPP access: one that
\* does not leaves the state machine in DeregisteredInitiated.
ProcedureEnds ==
    \A c \in Ctx : Pending(c) ~> ~Pending(c) \/ ue[c].cut \/ ue[c].other

-----------------------------------------------------------------------------
(* Stronger statements that the code does not satisfy.                      *)

\* The context of a registered UE that is connected is found by its SUPI.
ConnectedFindable ==
    \A c \in Ctx : c = cur /\ ue[c].ran = "on" /\ ue[c].state = "Reg" => pool = c

\* A registered UE is registered at the UDM.
RegisteredAtUdm ==
    \A c \in Ctx : c = cur /\ ue[c].ran = "on" /\ ue[c].state = "Reg" => udm

\* A UE becomes registered only at the end of a context setup.
RegisteredFromSetup ==
    [][\A c \in Ctx : ue[c].state # "Reg" /\ ue'[c].state = "Reg"
                      => ue[c].state = "Setup"]_vars

\* The context that the pool finds for a connected UE can take its Registration
\* Request, or a handler or a timer is about to end what stands in the way.
NotLockedOut ==
    pool # None /\ pool = cur /\ ue[cur].ran = "on" /\ ue[cur].rel = "none"
    => ue[cur].state \in {"Dereg", "Reg"} \/ ue[cur].work # "idle" \/ Running(cur) # {}

\* After Stop no timeout event is triggered.
StopIsFinal == \A c \in Ctx : ~ue[c].late

=============================================================================

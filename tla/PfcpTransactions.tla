-------------------------- MODULE PfcpTransactions --------------------------
(***************************************************************************)
(* PFCP transactions of the UPF (NFs/upf/internal/pfcp/transaction.go and  *)
(* the packet and timeout cases of the main loop in pfcp.go) against one   *)
(* peer over a network that loses, duplicates, reorders and delays.        *)
(*                                                                         *)
(* Time is discrete.  A copy of a message can be received, any number of   *)
(* times, while it is at most Delay ticks old.  The timers of the UPF fire *)
(* no earlier than they are due, and the timeout they queue on trToCh is   *)
(* handled at any later time.  The peer is external: it retransmits like   *)
(* the UPF does, every T ticks and at most N times, and is punctual.       *)
(***************************************************************************)
EXTENDS Integers, Sequences

CONSTANTS
    T,        \* RetransTimeout
    N,        \* MaxRetrans
    Delay,    \* longest life of a message copy, queueing in rcvCh included
    PeerSeq,  \* sequence numbers of the peer's requests
    MaxTx,    \* bound on the requests the UPF sends; below the 2^24 sequence
              \* numbers of the wire format
    TrCap     \* capacity of trToCh (TRANS_TIMEOUT_CHANNEL_LEN)

ASSUME TransAssumption ==
    /\ T \in Nat \ {0} /\ N \in Nat /\ MaxTx \in Nat /\ TrCap \in Nat \ {0}
    /\ Delay \in Nat

Off == -1                        \* a timer that is stopped or has fired
TxSeq == 0 .. MaxTx - 1
Msg == [kind : {"peerReq", "upfRsp"}, seq : PeerSeq, age : 0 .. Delay]
         \cup [kind : {"upfReq", "peerRsp"}, seq : TxSeq, age : 0 .. Delay]
Timeout == [type : {"TX"}, seq : TxSeq] \cup [type : {"RX"}, seq : PeerSeq]

\* Mutated: the lifetime leaves out the first transmission.
RxTimeoutShort == T * N

\* NewRxTransaction: RetransTimeout * (MaxRetrans + 1); the sum is a uint8.
RxTimeout == T * ((N + 1) % 256)

VARIABLES
    net,      \* message copies that can be received
    txSeq,    \* the sequence number of the next request
    txTrans,  \* the open TxTransactions
    tx,       \* timer and retransCount of each of them
    rxTrans,  \* the open RxTransactions
    rx,       \* timer of each of them and whether it holds a response
    trToCh,   \* queued transaction timeouts
    peer,     \* the peer's requests: place, timer, retransmissions left
    ended,    \* history: how each request of the UPF ended, in order
    handled   \* history: times each request of the peer was dispatched

upfVars == <<txSeq, txTrans, tx, rxTrans, rx, trToCh, ended, handled>>
vars == <<net, peer, upfVars>>

\* Every variable has a value the program can give it; trToCh keeps to its
\* capacity.
TypeOK ==
    /\ net \subseteq Msg
    /\ txSeq \in 0 .. MaxTx /\ txTrans \subseteq TxSeq
    /\ tx \in [TxSeq -> [timer : Off .. T, retransCount : 0 .. N]]
    /\ rxTrans \subseteq PeerSeq
    /\ rx \in [PeerSeq -> [timer : Off .. RxTimeout, rsp : BOOLEAN]]
    /\ trToCh \in Seq(Timeout) /\ Len(trToCh) <= TrCap
    /\ peer \in [PeerSeq -> [at : {"idle", "open", "closed"},
                             timer : 0 .. T, left : 0 .. N]]
    /\ ended \in [TxSeq -> Seq({"response", "timeout"})]
    /\ handled \in [PeerSeq -> Nat]

Init ==
    /\ net = {} /\ txSeq = 0 /\ txTrans = {} /\ rxTrans = {}
    /\ tx = [s \in TxSeq |-> [timer |-> Off, retransCount |-> 0]]
    /\ rx = [s \in PeerSeq |-> [timer |-> Off, rsp |-> FALSE]]
    /\ trToCh = <<>>
    /\ peer = [s \in PeerSeq |-> [at |-> "idle", timer |-> 0, left |-> N]]
    /\ ended = [s \in TxSeq |-> <<>>]
    /\ handled = [s \in PeerSeq |-> 0]

Sent(kind, s) == [kind |-> kind, seq |-> s, age |-> 0]
InNet(kind, s) == \E m \in net : m.kind = kind /\ m.seq = s

-----------------------------------------------------------------------------
(* Requests of the UPF. *)

\* sendReqTo: a new TxTransaction, its timer, the first transmission.  It is
\* assumed that the messages the UPF builds can be marshalled (an error would
\* leave the transaction without a timer).
SendReq ==
    /\ txSeq < MaxTx /\ txSeq' = txSeq + 1
    /\ txTrans' = txTrans \cup {txSeq}
    /\ tx' = [tx EXCEPT ![txSeq].timer = T]
    /\ net' = net \cup {Sent("upfReq", txSeq)}
    /\ UNCHANGED <<rxTrans, rx, trToCh, peer, ended, handled>>

\* A response: tx.recv stops the timer, deletes the transaction and the
\* response is dispatched.  Without the transaction it is dropped.
RecvRsp(s) ==
    /\ InNet("peerRsp", s) /\ s \in txTrans
    /\ txTrans' = txTrans \ {s} /\ tx' = [tx EXCEPT ![s].timer = Off]
    /\ ended' = [ended EXCEPT ![s] = Append(@, "response")]
    /\ UNCHANGED <<net, txSeq, rxTrans, rx, trToCh, peer, handled>>

\* The AfterFunc of a timer that is due queues its timeout.
FireTx(s) ==
    /\ tx[s].timer = 0 /\ Len(trToCh) < TrCap
    /\ tx' = [tx EXCEPT ![s].timer = Off]
    /\ trToCh' = Append(trToCh, [type |-> "TX", seq |-> s])
    /\ UNCHANGED <<net, txSeq, txTrans, rxTrans, rx, peer, ended, handled>>

\* Mutated: the timeout is not checked against the open transactions.
TxTimeoutUnchecked(s) ==
    IF tx[s].retransCount < N
    THEN /\ tx' = [tx EXCEPT ![s] = [timer |-> T, retransCount |-> @.retransCount + 1]]
         /\ net' = net \cup {Sent("upfReq", s)}
         /\ UNCHANGED <<txTrans, ended>>
    ELSE /\ txTrans' = txTrans \ {s}
         /\ ended' = [ended EXCEPT ![s] = Append(@, "timeout")]
         /\ UNCHANGED <<net, tx>>

\* Mutated: the retransmission does not restart the timer.
TxTimeoutNoRestart(s) ==
    \/ /\ s \notin txTrans
       /\ UNCHANGED <<net, txTrans, tx, ended>>
    \/ /\ s \in txTrans /\ tx[s].retransCount < N
       /\ tx' = [tx EXCEPT ![s].retransCount = @ + 1]
       /\ net' = net \cup {Sent("upfReq", s)}
       /\ UNCHANGED <<txTrans, ended>>
    \/ /\ s \in txTrans /\ tx[s].retransCount = N
       /\ txTrans' = txTrans \ {s}
       /\ ended' = [ended EXCEPT ![s] = Append(@, "timeout")]
       /\ UNCHANGED <<net, tx>>

\* Mutated: one retransmission too few.
TxTimeoutEarly(s) ==
    \/ /\ s \notin txTrans
       /\ UNCHANGED <<net, txTrans, tx, ended>>
    \/ /\ s \in txTrans /\ tx[s].retransCount + 1 < N
       /\ tx' = [tx EXCEPT ![s] = [timer |-> T, retransCount |-> @.retransCount + 1]]
       /\ net' = net \cup {Sent("upfReq", s)}
       /\ UNCHANGED <<txTrans, ended>>
    \/ /\ s \in txTrans /\ tx[s].retransCount + 1 >= N
       /\ txTrans' = txTrans \ {s}
       /\ ended' = [ended EXCEPT ![s] = Append(@, "timeout")]
       /\ UNCHANGED <<net, tx>>

\* Mutated: retransmissions are not counted.
TxTimeoutUncounted(s) ==
    \/ /\ s \notin txTrans
       /\ UNCHANGED <<net, txTrans, tx, ended>>
    \/ /\ s \in txTrans
       /\ tx' = [tx EXCEPT ![s].timer = T]
       /\ net' = net \cup {Sent("upfReq", s)}
       /\ UNCHANGED <<txTrans, ended>>

\* tx.handleTimeout, if the transaction is still open: retransmit and restart
\* the timer, or delete the transaction and dispatch the timeout.
TxTimeout(s) ==
    \/ /\ s \notin txTrans
       /\ UNCHANGED <<net, txTrans, tx, ended>>
    \/ /\ s \in txTrans /\ tx[s].retransCount < N
       /\ tx' = [tx EXCEPT ![s] = [timer |-> T, retransCount |-> @.retransCount + 1]]
       /\ net' = net \cup {Sent("upfReq", s)}
       /\ UNCHANGED <<txTrans, ended>>
    \/ /\ s \in txTrans /\ tx[s].retransCount >= N
       /\ txTrans' = txTrans \ {s}
       /\ ended' = [ended EXCEPT ![s] = Append(@, "timeout")]
       /\ UNCHANGED <<net, tx>>

-----------------------------------------------------------------------------
(* Requests of the peer. *)

\* A request without a transaction: NewRxTransaction, then the handler, which
\* answers through sendRspTo unless it is one of those that do not answer.
RecvNewReq(s, answers) ==
    /\ InNet("peerReq", s) /\ s \notin rxTrans
    /\ rxTrans' = rxTrans \cup {s}
    /\ rx' = [rx EXCEPT ![s] = [timer |-> RxTimeout, rsp |-> answers]]
    /\ handled' = [handled EXCEPT ![s] = @ + 1]
    /\ net' = IF answers THEN net \cup {Sent("upfRsp", s)} ELSE net
    /\ UNCHANGED <<txSeq, txTrans, tx, trToCh, peer, ended>>

\* A request with a transaction: its response, if there is one, is sent again.
RecvOldReq(s) ==
    /\ InNet("peerReq", s) /\ s \in rxTrans /\ rx[s].rsp
    /\ net' = net \cup {Sent("upfRsp", s)}
    /\ UNCHANGED <<peer, upfVars>>

FireRx(s) ==
    /\ rx[s].timer = 0 /\ Len(trToCh) < TrCap
    /\ rx' = [rx EXCEPT ![s].timer = Off]
    /\ trToCh' = Append(trToCh, [type |-> "RX", seq |-> s])
    /\ UNCHANGED <<net, txSeq, txTrans, tx, rxTrans, peer, ended, handled>>

\* case trTo := <-s.trToCh
TrTo ==
    /\ trToCh # <<>> /\ trToCh' = Tail(trToCh)
    /\ LET e == Head(trToCh) IN
       \/ /\ e.type = "TX" /\ TxTimeout(e.seq) /\ UNCHANGED rxTrans
       \/ /\ e.type = "RX" /\ rxTrans' = rxTrans \ {e.seq}
          /\ UNCHANGED <<net, txTrans, tx, ended>>
    /\ UNCHANGED <<txSeq, rx, peer, handled>>

-----------------------------------------------------------------------------
(* The peer and the clock (external). *)

PeerSend(s) ==
    /\ peer[s].at = "idle"
    /\ peer' = [peer EXCEPT ![s] = [at |-> "open", timer |-> T, left |-> N]]
    /\ net' = net \cup {Sent("peerReq", s)}
    /\ UNCHANGED upfVars

PeerTimeout(s) ==
    /\ peer[s].at = "open" /\ peer[s].timer = 0
    /\ \/ /\ peer[s].left > 0
          /\ peer' = [peer EXCEPT ![s].timer = T, ![s].left = @ - 1]
          /\ net' = net \cup {Sent("peerReq", s)}
       \/ /\ peer[s].left = 0
          /\ peer' = [peer EXCEPT ![s].at = "closed"]
          /\ UNCHANGED net
    /\ UNCHANGED upfVars

PeerRecvRsp(s) ==
    /\ peer[s].at = "open" /\ InNet("upfRsp", s)
    /\ peer' = [peer EXCEPT ![s] = [at |-> "closed", timer |-> 0, left |-> @.left]]
    /\ UNCHANGED <<net, upfVars>>

PeerAnswer(s) ==
    /\ InNet("upfReq", s)
    /\ net' = net \cup {Sent("peerRsp", s)}
    /\ UNCHANGED <<peer, upfVars>>

Down(t) == IF t > 0 THEN t - 1 ELSE t

\* One tick: timers run down, old copies vanish.  It waits for a peer whose
\* timer is due, and for nothing the UPF does.
Tick ==
    /\ \A s \in PeerSeq : peer[s].at = "open" => peer[s].timer > 0
    /\ net' = {[m EXCEPT !.age = @ + 1] : m \in {m \in net : m.age < Delay}}
    /\ peer' = [s \in PeerSeq |-> [peer[s] EXCEPT !.timer = Down(@)]]
    /\ tx' = [s \in TxSeq |-> [tx[s] EXCEPT !.timer = Down(@)]]
    /\ rx' = [s \in PeerSeq |-> [rx[s] EXCEPT !.timer = Down(@)]]
    /\ UNCHANGED <<txSeq, txTrans, rxTrans, trToCh, ended, handled>>

Next ==
    \/ SendReq \/ TrTo \/ Tick
    \/ \E s \in TxSeq : RecvRsp(s) \/ FireTx(s) \/ PeerAnswer(s)
    \/ \E s \in PeerSeq :
         \/ \E answers \in BOOLEAN : RecvNewReq(s, answers)
         \/ RecvOldReq(s) \/ FireRx(s)
         \/ PeerSend(s) \/ PeerTimeout(s) \/ PeerRecvRsp(s)

Spec == Init /\ [][Next]_vars

\* Time passes, due timers fire, the main loop drains trToCh (a select case
\* that stays ready is taken) and the peer is punctual.  No message has to
\* arrive.
Fairness ==
    /\ WF_vars(Tick) /\ WF_vars(TrTo)
    /\ \A s \in TxSeq : SF_vars(FireTx(s))
    /\ \A s \in PeerSeq : SF_vars(FireRx(s)) /\ WF_vars(PeerTimeout(s))

FairSpec == Spec /\ Fairness

-----------------------------------------------------------------------------
(* Properties. *)

\* While copies live shorter than T, a request of the peer is dispatched at
\* most once, whatever is lost, duplicated or reordered: the RxTransaction
\* outlives the peer's last retransmission.  (MaxRetrans = 255 is the exception:
\* RxTimeout is then 0.)
AtMostOnce == Delay < T => \A s \in PeerSeq : handled[s] <= 1

Queued(type, s) == {k \in 1 .. Len(trToCh) : trToCh[k] = [type |-> type, seq |-> s]}

\* An open transaction has either a running timer or exactly one timeout in
\* trToCh: none is stuck without a timer, and none is charged two timeouts.
OneTimerEach ==
    /\ \A s \in txTrans : IF tx[s].timer = Off
                          THEN \E k \in Queued("TX", s) : Queued("TX", s) = {k}
                          ELSE Queued("TX", s) = {}
    /\ \A s \in rxTrans : IF rx[s].timer = Off
                          THEN \E k \in Queued("RX", s) : Queued("RX", s) = {k}
                          ELSE Queued("RX", s) = {}

\* A request of the UPF ends once, with its response or with its timeout, also
\* when the response overtakes a timeout that is already queued.
EndsOnce ==
    \A s \in TxSeq : Len(ended[s]) = IF s < txSeq /\ s \notin txTrans THEN 1 ELSE 0

\* A request of the UPF is given up only after all N retransmissions.
GivenUpLast ==
    \A s \in TxSeq : ended[s] = <<"timeout">> => tx[s].retransCount = N

\* Every request of the UPF ends, and every RxTransaction is deleted, even if
\* nothing is ever received again.
TransactionsEnd ==
    /\ \A s \in TxSeq : s \in txTrans ~> s \notin txTrans
    /\ \A s \in PeerSeq : s \in rxTrans ~> s \notin rxTrans
=============================================================================

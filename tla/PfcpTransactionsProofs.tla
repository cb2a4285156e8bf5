------------------------ MODULE PfcpTransactionsProofs ------------------------
(***************************************************************************)
(* Proofs about the UPF's PFCP transactions: each open one has one timer   *)
(* or one queued timeout, each request ends once, and a request of the     *)
(* peer is dispatched at most once, for any number of sequence numbers,    *)
(* any capacity of trToCh and any timer values.                            *)
(***************************************************************************)
EXTENDS PfcpTransactions, SequenceTheorems, TLAPS

\* Leaves go to Zenon; those with arithmetic or sequences cite SMT.
USE Zenon

Uniq(S) == \A j, k \in S : j = k

\* Requests are numbered in the order they are sent; a transaction that is not
\* open has no running timer, and one that was never opened no timeout either.
\* A closed TxTransaction may have left one timeout in trToCh.
TxTimers ==
    /\ \A s \in txTrans : s < txSeq
    /\ \A s \in TxSeq : s \notin txTrans => tx[s].timer = Off
    /\ \A s \in TxSeq : s >= txSeq => Queued("TX", s) = {}
    /\ \A s \in txTrans : /\ tx[s].timer = Off <=> Queued("TX", s) # {}
                          /\ Uniq(Queued("TX", s))

\* An RxTransaction is deleted by its timeout alone, so a closed one has left
\* neither a timer nor a timeout.
RxTimers ==
    /\ \A s \in PeerSeq : s \notin rxTrans =>
         rx[s].timer = Off /\ Queued("RX", s) = {}
    /\ \A s \in rxTrans : /\ rx[s].timer = Off <=> Queued("RX", s) # {}
                          /\ Uniq(Queued("RX", s))

IInv == TypeOK /\ TxTimers /\ RxTimers /\ EndsOnce /\ GivenUpLast

\* Why a dispatched request is not dispatched again: its RxTransaction outlives
\* every copy in the network and every copy the peer may still send.
Covered(s) ==
    /\ \A m \in net : m.kind = "peerReq" /\ m.seq = s => Delay - m.age < rx[s].timer
    /\ peer[s].at = "open" /\ peer[s].left > 0 =>
         peer[s].timer + (peer[s].left - 1) * T + Delay < rx[s].timer

Outlives ==
    \A s \in PeerSeq :
      /\ peer[s].at = "idle" => handled[s] = 0 /\ ~InNet("peerReq", s)
      /\ handled[s] = 0 \/ (handled[s] = 1 /\ Covered(s))
-----------------------------------------------------------------------------
(* The queue of timeouts. *)

\* A timeout of type TX carries a sequence number of the UPF, one of type RX one
\* of the peer.
LEMMA TimeoutFields ==
    ASSUME NEW e \in Timeout
    PROVE  /\ e.type \in {"TX", "RX"}
           /\ e.type = "TX" => e.seq \in TxSeq /\ e = [type |-> "TX", seq |-> e.seq]
           /\ e.type = "RX" => e.seq \in PeerSeq /\ e = [type |-> "RX", seq |-> e.seq]
  BY DEF Timeout

\* Queueing a timeout adds one position to its own positions.
LEMMA QueueAppend ==
    ASSUME TypeOK, NEW e \in Timeout, Len(trToCh) < TrCap, trToCh' = Append(trToCh, e)
    PROVE  /\ trToCh' \in Seq(Timeout) /\ Len(trToCh') <= TrCap
           /\ \A t, s : [type |-> t, seq |-> s] # e => Queued(t, s)' = Queued(t, s)
           /\ \A t, s : [type |-> t, seq |-> s] = e =>
                Queued(t, s)' = Queued(t, s) \cup {Len(trToCh) + 1}
  <1>1. trToCh \in Seq(Timeout) /\ Len(trToCh) \in Nat /\ TrCap \in Nat
    BY TransAssumption, SMT DEF TypeOK
  <1>2. /\ trToCh' \in Seq(Timeout) /\ Len(trToCh') = Len(trToCh) + 1
        /\ \A i \in 1 .. Len(trToCh) : trToCh'[i] = trToCh[i]
        /\ trToCh'[Len(trToCh) + 1] = e
    BY <1>1, AppendProperties, SMT
  <1>3. \A k : k \in 1 .. Len(trToCh') <=> k \in 1 .. Len(trToCh) \/ k = Len(trToCh) + 1
    BY <1>1, <1>2, SMT
  <1>4. Len(trToCh) + 1 \notin 1 .. Len(trToCh) /\ Len(trToCh') <= TrCap
    BY <1>1, <1>2, SMT
  <1>5. ASSUME NEW t, NEW s, [type |-> t, seq |-> s] # e
        PROVE  Queued(t, s)' = Queued(t, s)
    BY <1>2, <1>3, <1>4, <1>5 DEF Queued
  <1>6. ASSUME NEW t, NEW s, [type |-> t, seq |-> s] = e
        PROVE  Queued(t, s)' = Queued(t, s) \cup {Len(trToCh) + 1}
    BY <1>2, <1>3, <1>4, <1>6 DEF Queued
  <1> QED
    BY <1>2, <1>4, <1>5, <1>6

\* Receiving the head shifts the positions of the other timeouts; a timeout
\* that was queued once and is received is gone.
LEMMA QueueTail ==
    ASSUME TypeOK, trToCh # <<>>, trToCh' = Tail(trToCh)
    PROVE  /\ Head(trToCh) \in Timeout
           /\ trToCh' \in Seq(Timeout) /\ Len(trToCh') <= TrCap
           /\ \A t, s : Queued(t, s) = {} => Queued(t, s)' = {}
           /\ \A t, s : Uniq(Queued(t, s)) => Uniq(Queued(t, s)')
           /\ \A t, s : Head(trToCh) # [type |-> t, seq |-> s] =>
                (Queued(t, s)' = {} <=> Queued(t, s) = {})
           /\ \A t, s : Head(trToCh) = [type |-> t, seq |-> s] =>
                Queued(t, s) # {} /\ (Uniq(Queued(t, s)) => Queued(t, s)' = {})
  <1>1. /\ trToCh \in Seq(Timeout) /\ Len(trToCh) \in Nat \ {0}
        /\ Len(trToCh) <= TrCap /\ TrCap \in Nat
    BY TransAssumption, EmptySeq DEF TypeOK
  <1>2. /\ trToCh' \in Seq(Timeout) /\ Len(trToCh') = Len(trToCh) - 1
        /\ Head(trToCh) = trToCh[1] /\ Head(trToCh) \in Timeout
        /\ \A i \in 1 .. Len(trToCh') : trToCh'[i] = trToCh[i + 1]
    BY <1>1, SMT
  <1>3. 1 \in 1 .. Len(trToCh) /\ Len(trToCh') <= TrCap
    BY <1>1, <1>2, SMT
  <1>4. ASSUME NEW t, NEW s
        PROVE  /\ \A k \in Queued(t, s)' : k + 1 \in Queued(t, s) /\ k + 1 # 1 /\ k \in Nat
               /\ \A k \in Queued(t, s) : k = 1 \/ k - 1 \in Queued(t, s)'
               /\ Head(trToCh) = [type |-> t, seq |-> s] <=> 1 \in Queued(t, s)
    <2>1. \A k \in 1 .. Len(trToCh') : k + 1 \in 1 .. Len(trToCh) /\ k + 1 # 1 /\ k \in Nat
      BY <1>1, <1>2, SMT
    <2>2. \A k \in 1 .. Len(trToCh) :
            k = 1 \/ (k - 1 \in 1 .. Len(trToCh') /\ (k - 1) + 1 = k)
      BY <1>1, <1>2, SMT
    <2>3. \A k \in Queued(t, s)' : k + 1 \in Queued(t, s) /\ k + 1 # 1 /\ k \in Nat
      BY <1>2, <2>1 DEF Queued
    <2>4. \A k \in Queued(t, s) : k = 1 \/ k - 1 \in Queued(t, s)'
      BY <1>2, <2>2 DEF Queued
    <2>5. Head(trToCh) = [type |-> t, seq |-> s] <=> 1 \in Queued(t, s)
      BY <1>2, <1>3 DEF Queued
    <2> QED
      BY <2>3, <2>4, <2>5
  <1>5. ASSUME NEW t, NEW s, Uniq(Queued(t, s))
        PROVE  Uniq(Queued(t, s)')
    <2> SUFFICES ASSUME NEW j \in Queued(t, s)', NEW k \in Queued(t, s)'
                 PROVE  j = k
      BY DEF Uniq
    <2>1. j + 1 = k + 1 /\ j \in Nat /\ k \in Nat
      BY <1>4, <1>5 DEF Uniq
    <2> QED
      BY <2>1, SMT
  <1>6. ASSUME NEW t, NEW s, Head(trToCh) = [type |-> t, seq |-> s], Uniq(Queued(t, s))
        PROVE  Queued(t, s)' = {}
    BY <1>4, <1>6 DEF Uniq
  <1>7. \A t, s : Queued(t, s) = {} => Queued(t, s)' = {}
    BY <1>4
  <1>8. ASSUME NEW t, NEW s, Head(trToCh) # [type |-> t, seq |-> s]
        PROVE  Queued(t, s)' = {} <=> Queued(t, s) = {}
    BY <1>4, <1>8
  <1>9. ASSUME NEW t, NEW s, Head(trToCh) = [type |-> t, seq |-> s]
        PROVE  Queued(t, s) # {}
    BY <1>4, <1>9
  <1> QED
    BY <1>2, <1>3, <1>5, <1>6, <1>7, <1>8, <1>9
-----------------------------------------------------------------------------
(* Every step keeps the timers, the ends and the types. *)

\* The timeout of a transaction is a member of Timeout.
LEMMA MakeTimeout ==
    /\ \A s \in TxSeq : [type |-> "TX", seq |-> s] \in Timeout
    /\ \A s \in PeerSeq : [type |-> "RX", seq |-> s] \in Timeout
  BY DEF Timeout

\* A message just sent is a member of Msg.
LEMMA MakeMsg ==
    /\ \A s \in TxSeq : Sent("upfReq", s) \in Msg /\ Sent("peerRsp", s) \in Msg
    /\ \A s \in PeerSeq : Sent("peerReq", s) \in Msg /\ Sent("upfRsp", s) \in Msg
  BY TransAssumption, SMT DEF Msg, Sent

\* The lifetime of an RxTransaction is a natural number.
LEMMA RxTimeoutNat == RxTimeout \in Nat
  <1>1. (N + 1) % 256 \in Nat
    BY TransAssumption, SMT
  <1> QED
    BY <1>1, TransAssumption, SMT DEF RxTimeout

\* While trToCh does not change, neither do the positions in it.
LEMMA QueueSame ==
    ASSUME UNCHANGED trToCh
    PROVE  \A t, s : Queued(t, s)' = Queued(t, s)
  BY DEF Queued

\* The initial state satisfies the invariant.
LEMMA InitIInv == Init => IInv
  <1> SUFFICES ASSUME Init PROVE IInv
    OBVIOUS
  <1>1. trToCh \in Seq(Timeout) /\ Len(trToCh) = 0 /\ \A t, s : Queued(t, s) = {}
    BY SMT DEF Init, Queued
  <1>2. /\ T \in Nat /\ N \in Nat /\ MaxTx \in Nat /\ TrCap \in Nat
        /\ RxTimeout \in Nat /\ Off \in Int /\ Off = -1
    BY TransAssumption, RxTimeoutNat, SMT DEF Off
  <1>3. TypeOK
    <2>1. tx \in [TxSeq -> [timer : Off .. T, retransCount : 0 .. N]]
      BY <1>2, SMT DEF Init
    <2>2. rx \in [PeerSeq -> [timer : Off .. RxTimeout, rsp : BOOLEAN]]
      BY <1>2, SMT DEF Init
    <2>3. peer \in [PeerSeq -> [at : {"idle", "open", "closed"},
                                timer : 0 .. T, left : 0 .. N]]
      BY <1>2, SMT DEF Init
    <2>4. /\ ended \in [TxSeq -> Seq({"response", "timeout"})]
          /\ handled \in [PeerSeq -> Nat]
      BY SMT DEF Init
    <2>5. /\ txSeq \in 0 .. MaxTx /\ txTrans \subseteq TxSeq /\ net \subseteq Msg
          /\ rxTrans \subseteq PeerSeq /\ Len(trToCh) <= TrCap
      BY <1>1, <1>2, SMT DEF Init
    <2> QED
      BY <1>1, <2>1, <2>2, <2>3, <2>4, <2>5 DEF TypeOK
  <1>4. TxTimers /\ RxTimers
    BY <1>1 DEF Init, TxTimers, RxTimers
  <1>5. EndsOnce /\ GivenUpLast
    <2>1. \A s \in TxSeq : ended[s] = <<>> /\ Len(ended[s]) = 0 /\ ended[s] # <<"timeout">>
      BY DEF Init
    <2>2. \A s \in TxSeq : ~(s < txSeq)
      BY SMT DEF Init, TxSeq
    <2> QED
      BY <2>1, <2>2 DEF EndsOnce, GivenUpLast
  <1> QED
    BY <1>3, <1>4, <1>5 DEF IInv

\* sendReqTo keeps the invariant: the sequence number is new.
LEMMA SendReqIInv ==
    ASSUME IInv, SendReq
    PROVE  IInv'
  <1>1. /\ txSeq \in TxSeq /\ txSeq' = txSeq + 1 /\ txTrans' = txTrans \cup {txSeq}
        /\ tx' = [tx EXCEPT ![txSeq].timer = T] /\ net' = net \cup {Sent("upfReq", txSeq)}
        /\ UNCHANGED <<rxTrans, rx, trToCh, peer, ended, handled>>
        /\ txSeq' \in 0 .. MaxTx /\ txSeq \in Nat
    BY TransAssumption, SMT DEF IInv, TypeOK, SendReq, TxSeq
  <1>2. tx' \in [TxSeq -> [timer : Off .. T, retransCount : 0 .. N]]
        /\ \A s \in TxSeq : /\ tx'[s].timer = (IF s = txSeq THEN T ELSE tx[s].timer)
                            /\ tx'[s].retransCount = tx[s].retransCount
    <2>1. T \in Off .. T
      BY TransAssumption, SMT DEF Off
    <2> QED
      BY <1>1, <2>1, SMT DEF IInv, TypeOK
  <1>3. TypeOK'
    BY <1>1, <1>2, MakeMsg DEF IInv, TypeOK
  <1>4. \A s \in TxSeq : (s < txSeq' <=> s < txSeq \/ s = txSeq) /\ (s >= txSeq <=> ~(s < txSeq))
    BY <1>1, SMT DEF TxSeq
  <1>5. txSeq \notin txTrans /\ ~(txSeq < txSeq) /\ txSeq < txSeq' /\ T # Off
    BY <1>1, TransAssumption, SMT DEF IInv, TxTimers, Off
  <1>6. txTrans \subseteq TxSeq /\ \A s \in TxSeq : (s >= txSeq' => s >= txSeq)
    BY <1>1, SMT DEF IInv, TypeOK, TxSeq
  <1>7. TxTimers'
    <2>1. \A s \in txTrans' : s < txSeq'
      BY <1>1, <1>4, <1>5, <1>6 DEF IInv, TxTimers
    <2>2. \A s \in TxSeq : s \notin txTrans' => tx'[s].timer = Off
      BY <1>1, <1>2 DEF IInv, TxTimers
    <2>3. \A s \in TxSeq : s >= txSeq' => Queued("TX", s)' = {}
      BY <1>1, <1>6, QueueSame DEF IInv, TxTimers
    <2>4. \A s \in txTrans' : /\ tx'[s].timer = Off <=> Queued("TX", s)' # {}
                              /\ Uniq(Queued("TX", s)')
      <3> SUFFICES ASSUME NEW s \in txTrans'
                   PROVE  /\ tx'[s].timer = Off <=> Queued("TX", s)' # {}
                          /\ Uniq(Queued("TX", s)')
        OBVIOUS
      <3>1. CASE s = txSeq
        <4>1. Queued("TX", s) = {}
          BY <1>1, <1>4, <1>5, <3>1 DEF IInv, TxTimers
        <4> QED
          BY <1>1, <1>2, <1>5, <3>1, <4>1, QueueSame, SMT DEF Uniq
      <3>2. CASE s \in txTrans /\ s # txSeq
        <4>1. tx'[s].timer = tx[s].timer
          BY <1>2, <1>6, <3>2
        <4>2. Queued("TX", s)' = Queued("TX", s)
          BY <1>1, QueueSame
        <4>3. (tx[s].timer = Off <=> Queued("TX", s) # {}) /\ Uniq(Queued("TX", s))
          BY <3>2 DEF IInv, TxTimers
        <4>4. Uniq(Queued("TX", s)')
          BY <4>2, <4>3 DEF Uniq
        <4> QED
          BY <4>1, <4>2, <4>3, <4>4
      <3> QED
        BY <1>1, <3>1, <3>2
    <2> QED
      BY <2>1, <2>2, <2>3, <2>4 DEF TxTimers
  <1>8. RxTimers'
    BY <1>1, QueueSame DEF IInv, RxTimers
  <1>9. EndsOnce' /\ GivenUpLast'
    <2>1. \A s \in TxSeq : (s < txSeq' /\ s \notin txTrans') <=> (s < txSeq /\ s \notin txTrans)
      BY <1>1, <1>4, <1>5
    <2> QED
      BY <1>1, <1>2, <2>1 DEF IInv, EndsOnce, GivenUpLast
  <1> QED
    BY <1>3, <1>7, <1>8, <1>9 DEF IInv
\* A response keeps the invariant: it ends the request and stops the timer.
LEMMA RecvRspIInv ==
    ASSUME IInv, NEW s \in TxSeq, RecvRsp(s)
    PROVE  IInv'
  <1>1. /\ s \in txTrans /\ txTrans' = txTrans \ {s}
        /\ tx' = [tx EXCEPT ![s].timer = Off]
        /\ ended' = [ended EXCEPT ![s] = Append(@, "response")]
        /\ UNCHANGED <<net, txSeq, rxTrans, rx, trToCh, peer, handled>>
    BY DEF RecvRsp
  <1>2. tx' \in [TxSeq -> [timer : Off .. T, retransCount : 0 .. N]]
        /\ \A q \in TxSeq : /\ tx'[q].timer = (IF q = s THEN Off ELSE tx[q].timer)
                            /\ tx'[q].retransCount = tx[q].retransCount
    <2>1. Off \in Off .. T
      BY TransAssumption, SMT DEF Off
    <2> QED
      BY <1>1, <2>1, ZenonT(60) DEF IInv, TypeOK
  <1>3. /\ ended[s] \in Seq({"response", "timeout"}) /\ Len(ended[s]) = 0
        /\ s < txSeq
    BY <1>1 DEF IInv, TypeOK, EndsOnce, TxTimers
  <1>4. /\ ended'[s] \in Seq({"response", "timeout"}) /\ Len(ended'[s]) = 1
        /\ ended'[s] # <<"timeout">>
        /\ \A q \in TxSeq : q # s => ended'[q] = ended[q]
    <2>1. ended'[s] = Append(ended[s], "response") /\ \A q \in TxSeq : q # s => ended'[q] = ended[q]
      BY <1>1 DEF IInv, TypeOK
    <2>2. /\ Append(ended[s], "response") \in Seq({"response", "timeout"})
          /\ Len(Append(ended[s], "response")) = 1
          /\ Append(ended[s], "response")[1] = "response"
      BY <1>3, AppendProperties, SMT
    <2>3. <<"timeout">>[1] = "timeout" /\ "timeout" # "response"
      OBVIOUS
    <2>4. Append(ended[s], "response") # <<"timeout">>
      BY <2>2, <2>3
    <2> QED
      BY <2>1, <2>2, <2>4
  <1>5. TypeOK'
    <2>1. ended' \in [TxSeq -> Seq({"response", "timeout"})]
      BY <1>1, <1>4 DEF IInv, TypeOK
    <2> QED
      BY <1>1, <1>2, <2>1 DEF IInv, TypeOK
  <1>6. TxTimers' /\ RxTimers'
    BY <1>1, <1>2, QueueSame, SMTT(60) DEF IInv, TypeOK, TxTimers, RxTimers
  <1>7. EndsOnce' /\ GivenUpLast'
    BY <1>1, <1>2, <1>3, <1>4, ZenonT(60) DEF IInv, EndsOnce, GivenUpLast
  <1> QED
    BY <1>5, <1>6, <1>7 DEF IInv

\* The timer of a TxTransaction firing keeps the invariant: the timer is traded
\* for one queued timeout.
LEMMA FireTxIInv ==
    ASSUME IInv, NEW s \in TxSeq, FireTx(s)
    PROVE  IInv'
  <1> DEFINE e == [type |-> "TX", seq |-> s]
  <1>1. /\ tx[s].timer = 0 /\ Len(trToCh) < TrCap /\ trToCh' = Append(trToCh, e)
        /\ tx' = [tx EXCEPT ![s].timer = Off]
        /\ UNCHANGED <<net, txSeq, txTrans, rxTrans, rx, peer, ended, handled>>
    BY DEF FireTx
  <1>2. tx' \in [TxSeq -> [timer : Off .. T, retransCount : 0 .. N]]
        /\ \A q \in TxSeq : /\ tx'[q].timer = (IF q = s THEN Off ELSE tx[q].timer)
                            /\ tx'[q].retransCount = tx[q].retransCount
    <2>1. Off \in Off .. T
      BY TransAssumption, SMT DEF Off
    <2>2. tx \in [TxSeq -> [timer : Off .. T, retransCount : 0 .. N]]
      BY DEF IInv, TypeOK
    <2> QED
      BY <1>1, <2>1, <2>2, SMT
  <1>3. s \in txTrans /\ Queued("TX", s) = {} /\ s < txSeq /\ ~(s >= txSeq)
    <2>1. s \in txTrans /\ tx[s].timer # Off
      BY <1>1, SMT DEF IInv, TxTimers, Off
    <2>2. s < txSeq /\ Queued("TX", s) = {}
      BY <2>1 DEF IInv, TxTimers
    <2>3. ~(s >= txSeq)
      BY <2>2, SMT DEF IInv, TypeOK, TxSeq
    <2> QED
      BY <2>1, <2>2, <2>3
  <1>4. /\ trToCh' \in Seq(Timeout) /\ Len(trToCh') <= TrCap
        /\ Queued("TX", s)' = Queued("TX", s) \cup {Len(trToCh) + 1}
        /\ \A q : q # s => Queued("TX", q)' = Queued("TX", q)
        /\ \A q : Queued("RX", q)' = Queued("RX", q)
    <2>1. e \in Timeout
      BY MakeTimeout
    <2>2. \A q : q # s => [type |-> "TX", seq |-> q] # e
      OBVIOUS
    <2>3. \A q : [type |-> "RX", seq |-> q] # e
      OBVIOUS
    <2> QED
      BY <1>1, <2>1, <2>2, <2>3, QueueAppend, SMT DEF IInv
  <1>5. TypeOK'
    BY <1>1, <1>2, <1>4 DEF IInv, TypeOK
  <1>6. TxTimers'
    <2>1. \A q \in TxSeq : q >= txSeq' => Queued("TX", q)' = {}
      BY <1>1, <1>3, <1>4 DEF IInv, TxTimers
    <2>2. \A q \in txTrans' : /\ tx'[q].timer = Off <=> Queued("TX", q)' # {}
                              /\ Uniq(Queued("TX", q)')
      <3> SUFFICES ASSUME NEW q \in txTrans
                   PROVE  /\ tx'[q].timer = Off <=> Queued("TX", q)' # {}
                          /\ Uniq(Queued("TX", q)')
        BY <1>1
      <3>1. CASE q = s
        <4>1. Queued("TX", s)' = {Len(trToCh) + 1} /\ tx'[s].timer = Off
          BY <1>2, <1>3, <1>4
        <4> QED
          BY <3>1, <4>1 DEF Uniq
      <3>2. CASE q # s
        <4>1. Queued("TX", q)' = Queued("TX", q) /\ tx'[q].timer = tx[q].timer
          BY <1>2, <1>4, <3>2 DEF IInv, TypeOK
        <4> QED
          BY <4>1 DEF IInv, TxTimers
      <3> QED
        BY <3>1, <3>2
    <2> QED
      BY <1>1, <1>2, <2>1, <2>2 DEF IInv, TxTimers
  <1>7. RxTimers'
    BY <1>1, <1>4 DEF IInv, RxTimers
  <1>8. EndsOnce' /\ GivenUpLast'
    BY <1>1, <1>2 DEF IInv, EndsOnce, GivenUpLast
  <1> QED
    BY <1>5, <1>6, <1>7, <1>8 DEF IInv

\* A request without a transaction keeps the invariant: the transaction it
\* opens has a timer, and no timeout of an earlier one is queued.
LEMMA RecvNewReqIInv ==
    ASSUME IInv, NEW s \in PeerSeq, NEW answers \in BOOLEAN, RecvNewReq(s, answers)
    PROVE  IInv'
  <1>1. /\ s \notin rxTrans /\ rxTrans' = rxTrans \cup {s}
        /\ rx' = [rx EXCEPT ![s] = [timer |-> RxTimeout, rsp |-> answers]]
        /\ handled' = [handled EXCEPT ![s] = @ + 1]
        /\ net' = IF answers THEN net \cup {Sent("upfRsp", s)} ELSE net
        /\ UNCHANGED <<txSeq, txTrans, tx, trToCh, peer, ended>>
    BY DEF RecvNewReq
  <1>2. /\ rx' \in [PeerSeq -> [timer : Off .. RxTimeout, rsp : BOOLEAN]]
        /\ rx'[s].timer = RxTimeout /\ RxTimeout # Off
        /\ \A q \in PeerSeq : q # s => rx'[q] = rx[q]
    <2>1. RxTimeout \in Off .. RxTimeout /\ RxTimeout # Off
      BY RxTimeoutNat, SMT DEF Off
    <2> QED
      BY <1>1, <2>1 DEF IInv, TypeOK
  <1>3. net' \subseteq Msg /\ handled' \in [PeerSeq -> Nat]
    BY <1>1, MakeMsg, SMT DEF IInv, TypeOK
  <1>4. TypeOK'
    BY <1>1, <1>2, <1>3 DEF IInv, TypeOK
  <1>5. TxTimers' /\ EndsOnce' /\ GivenUpLast'
    BY <1>1, QueueSame DEF IInv, TxTimers, EndsOnce, GivenUpLast
  <1>6. RxTimers'
    <2>1. \A q \in PeerSeq : q \notin rxTrans' =>
            rx'[q].timer = Off /\ Queued("RX", q)' = {}
      BY <1>1, <1>2, QueueSame, ZenonT(60) DEF IInv, RxTimers
    <2>2. \A q \in rxTrans' : /\ rx'[q].timer = Off <=> Queued("RX", q)' # {}
                              /\ Uniq(Queued("RX", q)')
      <3>1. Queued("RX", s)' = {}
        BY <1>1, QueueSame DEF IInv, RxTimers
      <3>2. \A q \in rxTrans : q \in PeerSeq
        BY DEF IInv, TypeOK
      <3> QED
        BY <1>1, <1>2, <3>1, <3>2, QueueSame, SMT DEF IInv, RxTimers, Uniq
    <2> QED
      BY <2>1, <2>2 DEF RxTimers
  <1> QED
    BY <1>4, <1>5, <1>6 DEF IInv

\* The timer of an RxTransaction firing keeps the invariant.
LEMMA FireRxIInv ==
    ASSUME IInv, NEW s \in PeerSeq, FireRx(s)
    PROVE  IInv'
  <1> DEFINE e == [type |-> "RX", seq |-> s]
  <1>1. /\ rx[s].timer = 0 /\ Len(trToCh) < TrCap /\ trToCh' = Append(trToCh, e)
        /\ rx' = [rx EXCEPT ![s].timer = Off]
        /\ UNCHANGED <<net, txSeq, txTrans, tx, rxTrans, peer, ended, handled>>
    BY DEF FireRx
  <1>2. rx' \in [PeerSeq -> [timer : Off .. RxTimeout, rsp : BOOLEAN]]
        /\ \A q \in PeerSeq : rx'[q].timer = (IF q = s THEN Off ELSE rx[q].timer)
    <2>1. Off \in Off .. RxTimeout
      BY RxTimeoutNat, SMT DEF Off
    <2> QED
      BY <1>1, <2>1, ZenonT(60) DEF IInv, TypeOK
  <1>3. s \in rxTrans /\ Queued("RX", s) = {}
    <2>1. s \in rxTrans /\ rx[s].timer # Off
      BY <1>1, SMT DEF IInv, RxTimers, Off
    <2> QED
      BY <2>1 DEF IInv, RxTimers
  <1>4. /\ trToCh' \in Seq(Timeout) /\ Len(trToCh') <= TrCap
        /\ Queued("RX", s)' = Queued("RX", s) \cup {Len(trToCh) + 1}
        /\ \A q : q # s => Queued("RX", q)' = Queued("RX", q)
        /\ \A q : Queued("TX", q)' = Queued("TX", q)
    <2>1. e \in Timeout
      BY MakeTimeout
    <2>2. \A q : q # s => [type |-> "RX", seq |-> q] # e
      OBVIOUS
    <2>3. \A q : [type |-> "TX", seq |-> q] # e
      OBVIOUS
    <2> QED
      BY <1>1, <2>1, <2>2, <2>3, QueueAppend, SMT DEF IInv
  <1>5. TypeOK'
    BY <1>1, <1>2, <1>4 DEF IInv, TypeOK
  <1>6. RxTimers'
    <2>1. \A q \in PeerSeq : q \notin rxTrans' =>
            rx'[q].timer = Off /\ Queued("RX", q)' = {}
      BY <1>1, <1>2, <1>3, <1>4 DEF IInv, RxTimers
    <2>2. \A q \in rxTrans' : /\ rx'[q].timer = Off <=> Queued("RX", q)' # {}
                              /\ Uniq(Queued("RX", q)')
      <3> SUFFICES ASSUME NEW q \in rxTrans
                   PROVE  /\ rx'[q].timer = Off <=> Queued("RX", q)' # {}
                          /\ Uniq(Queued("RX", q)')
        BY <1>1
      <3>1. CASE q = s
        <4>1. Queued("RX", s)' = {Len(trToCh) + 1} /\ rx'[s].timer = Off
          BY <1>2, <1>3, <1>4
        <4> QED
          BY <3>1, <4>1 DEF Uniq
      <3>2. CASE q # s
        <4>1. Queued("RX", q)' = Queued("RX", q) /\ rx'[q].timer = rx[q].timer
          BY <1>2, <1>4, <3>2 DEF IInv, TypeOK
        <4> QED
          BY <4>1 DEF IInv, RxTimers
      <3> QED
        BY <3>1, <3>2
    <2> QED
      BY <2>1, <2>2 DEF RxTimers
  <1>7. TxTimers' /\ EndsOnce' /\ GivenUpLast'
    BY <1>1, <1>4 DEF IInv, TxTimers, EndsOnce, GivenUpLast
  <1> QED
    BY <1>5, <1>6, <1>7 DEF IInv
\* A TX timeout handled by the main loop keeps the invariant: it was the only
\* one of an open transaction, which gets a timer again or ends.
LEMMA TrToTxIInv ==
    ASSUME IInv, trToCh # <<>>, trToCh' = Tail(trToCh), NEW s \in TxSeq,
           Head(trToCh) = [type |-> "TX", seq |-> s], TxTimeout(s),
           UNCHANGED <<txSeq, rxTrans, rx, peer, handled>>
    PROVE  IInv'
  <1>1. /\ trToCh' \in Seq(Timeout) /\ Len(trToCh') <= TrCap
        /\ \A t, q : Queued(t, q) = {} => Queued(t, q)' = {}
        /\ \A t, q : Uniq(Queued(t, q)) => Uniq(Queued(t, q)')
        /\ Queued("TX", s) # {} /\ (Uniq(Queued("TX", s)) => Queued("TX", s)' = {})
        /\ \A q : q # s => (Queued("TX", q)' = {} <=> Queued("TX", q) = {})
        /\ \A q : Queued("RX", q)' = {} <=> Queued("RX", q) = {}
    <2>1. \A q : q # s => Head(trToCh) # [type |-> "TX", seq |-> q]
      BY SMT
    <2>2. \A q : Head(trToCh) # [type |-> "RX", seq |-> q]
      BY SMT
    <2> QED
      BY <2>1, <2>2, QueueTail DEF IInv
  <1>2. RxTimers'
    BY <1>1 DEF IInv, RxTimers
  <1>3. s \in txTrans => tx[s].timer = Off /\ Queued("TX", s)' = {}
    BY <1>1 DEF IInv, TxTimers
  <1>4. \A q \in txTrans : q \in TxSeq
    BY DEF IInv, TypeOK
  <1>5. CASE s \notin txTrans /\ UNCHANGED <<net, txTrans, tx, ended>>
    <2>1. TypeOK' /\ EndsOnce' /\ GivenUpLast'
      BY <1>1, <1>5 DEF IInv, TypeOK, EndsOnce, GivenUpLast
    <2>2. TxTimers'
      BY <1>1, <1>5 DEF IInv, TxTimers
    <2> QED
      BY <1>2, <2>1, <2>2 DEF IInv
  <1>6. CASE /\ s \in txTrans /\ tx[s].retransCount < N
             /\ tx' = [tx EXCEPT ![s] = [timer |-> T, retransCount |-> @.retransCount + 1]]
             /\ net' = net \cup {Sent("upfReq", s)} /\ UNCHANGED <<txTrans, ended>>
    <2>1. /\ tx' \in [TxSeq -> [timer : Off .. T, retransCount : 0 .. N]]
          /\ tx'[s].timer = T /\ T # Off
          /\ \A q \in TxSeq : q # s => tx'[q] = tx[q]
      <3>1. /\ T \in Off .. T /\ T # Off /\ tx[s].retransCount \in 0 .. N
            /\ tx[s].retransCount + 1 \in 0 .. N
        BY <1>6, TransAssumption, SMTT(60) DEF IInv, TypeOK, Off
      <3> QED
        BY <1>6, <3>1 DEF IInv, TypeOK
    <2>2. TypeOK'
      BY <1>1, <1>6, <2>1, MakeMsg DEF IInv, TypeOK
    <2>3. EndsOnce'
      BY <1>6 DEF IInv, EndsOnce
    <2>4. GivenUpLast'
      <3>1. Len(ended[s]) = 0
        BY <1>6 DEF IInv, EndsOnce
      <3>2. ended[s] # <<"timeout">>
        <4>1. Len(<<"timeout">>) = 1
          OBVIOUS
        <4>2. Len(<<"timeout">>) # Len(ended[s])
          BY <3>1, <4>1, SMT
        <4> QED
          BY <4>2
      <3> QED
        BY <1>6, <2>1, <3>2 DEF IInv, GivenUpLast
    <2>5. TxTimers'
      <3>1. \A q \in txTrans' : /\ tx'[q].timer = Off <=> Queued("TX", q)' # {}
                                /\ Uniq(Queued("TX", q)')
        BY <1>1, <1>3, <1>4, <1>6, <2>1 DEF IInv, TxTimers
      <3> QED
        BY <1>1, <1>6, <2>1, <3>1 DEF IInv, TxTimers
    <2> QED
      BY <1>2, <2>2, <2>3, <2>4, <2>5 DEF IInv
  <1>7. CASE /\ s \in txTrans /\ tx[s].retransCount >= N /\ txTrans' = txTrans \ {s}
             /\ ended' = [ended EXCEPT ![s] = Append(@, "timeout")] /\ UNCHANGED <<net, tx>>
    <2>1. /\ ended[s] \in Seq({"response", "timeout"}) /\ Len(ended[s]) = 0 /\ s < txSeq
      BY <1>7 DEF IInv, TypeOK, EndsOnce, TxTimers
    <2>2. /\ ended' \in [TxSeq -> Seq({"response", "timeout"})] /\ Len(ended'[s]) = 1
          /\ \A q \in TxSeq : q # s => ended'[q] = ended[q]
      <3>1. ended'[s] = Append(ended[s], "timeout")
        BY <1>7 DEF IInv, TypeOK
      <3>2. /\ Append(ended[s], "timeout") \in Seq({"response", "timeout"})
            /\ Len(Append(ended[s], "timeout")) = 1
        BY <2>1, AppendProperties, SMT
      <3> QED
        BY <1>7, <3>1, <3>2 DEF IInv, TypeOK
    <2>3. tx[s].retransCount = N
      BY <1>7, TransAssumption, SMT DEF IInv, TypeOK
    <2>4. TypeOK'
      BY <1>1, <1>7, <2>2 DEF IInv, TypeOK
    <2>5. EndsOnce' /\ GivenUpLast'
      BY <1>7, <2>1, <2>2, <2>3 DEF IInv, EndsOnce, GivenUpLast
    <2>6. TxTimers'
      BY <1>1, <1>3, <1>7 DEF IInv, TxTimers
    <2> QED
      BY <1>2, <2>4, <2>5, <2>6 DEF IInv
  <1> QED
    BY <1>5, <1>6, <1>7 DEF TxTimeout

\* An RX timeout handled by the main loop keeps the invariant: it was the only
\* trace left of its transaction.
LEMMA TrToRxIInv ==
    ASSUME IInv, trToCh # <<>>, trToCh' = Tail(trToCh), NEW s \in PeerSeq,
           Head(trToCh) = [type |-> "RX", seq |-> s], rxTrans' = rxTrans \ {s},
           UNCHANGED <<net, txTrans, tx, ended, txSeq, rx, peer, handled>>
    PROVE  IInv'
  <1>1. /\ trToCh' \in Seq(Timeout) /\ Len(trToCh') <= TrCap
        /\ \A t, q : Queued(t, q) = {} => Queued(t, q)' = {}
        /\ \A t, q : Uniq(Queued(t, q)) => Uniq(Queued(t, q)')
        /\ Queued("RX", s) # {} /\ (Uniq(Queued("RX", s)) => Queued("RX", s)' = {})
        /\ \A q : q # s => (Queued("RX", q)' = {} <=> Queued("RX", q) = {})
        /\ \A q : Queued("TX", q)' = {} <=> Queued("TX", q) = {}
    <2>1. \A q : q # s => Head(trToCh) # [type |-> "RX", seq |-> q]
      BY SMT
    <2>2. \A q : Head(trToCh) # [type |-> "TX", seq |-> q]
      BY SMT
    <2> QED
      BY <2>1, <2>2, QueueTail DEF IInv
  <1>2. TypeOK' /\ EndsOnce' /\ GivenUpLast'
    BY <1>1 DEF IInv, TypeOK, EndsOnce, GivenUpLast
  <1>3. TxTimers'
    BY <1>1 DEF IInv, TxTimers
  <1>4. s \in rxTrans /\ rx[s].timer = Off /\ Queued("RX", s)' = {}
    BY <1>1 DEF IInv, RxTimers
  <1>5. RxTimers'
    BY <1>1, <1>4 DEF IInv, RxTimers
  <1> QED
    BY <1>2, <1>3, <1>5 DEF IInv

\* Handling a queued timeout keeps the invariant.
LEMMA TrToIInv ==
    ASSUME IInv, TrTo
    PROVE  IInv'
  <1> DEFINE e == Head(trToCh)
  <1>1. trToCh # <<>> /\ trToCh' = Tail(trToCh) /\ UNCHANGED <<txSeq, rx, peer, handled>>
    BY DEF TrTo
  <1>2. e \in Timeout
    BY <1>1, QueueTail DEF IInv
  <1>3. CASE e.type = "TX" /\ TxTimeout(e.seq) /\ UNCHANGED rxTrans
    <2>1. e.seq \in TxSeq /\ e = [type |-> "TX", seq |-> e.seq]
      BY <1>2, <1>3, TimeoutFields
    <2> QED
      BY <1>1, <1>3, <2>1, TrToTxIInv
  <1>4. CASE /\ e.type = "RX" /\ rxTrans' = rxTrans \ {e.seq}
             /\ UNCHANGED <<net, txTrans, tx, ended>>
    <2>1. e.seq \in PeerSeq /\ e = [type |-> "RX", seq |-> e.seq]
      BY <1>2, <1>4, TimeoutFields
    <2> QED
      BY <1>1, <1>4, <2>1, TrToRxIInv
  <1> QED
    BY <1>3, <1>4 DEF TrTo

\* A step that changes only the network and the peer keeps the invariant if
\* their types hold.
LEMMA PeerStepIInv ==
    ASSUME IInv, UNCHANGED upfVars, net' \subseteq Msg,
           peer' \in [PeerSeq -> [at : {"idle", "open", "closed"},
                                  timer : 0 .. T, left : 0 .. N]]
    PROVE  IInv'
  <1>1. TypeOK' /\ EndsOnce' /\ GivenUpLast'
    BY DEF IInv, TypeOK, EndsOnce, GivenUpLast, upfVars
  <1>2. TxTimers' /\ RxTimers'
    BY QueueSame, SMT DEF IInv, TxTimers, RxTimers, upfVars
  <1> QED
    BY <1>1, <1>2 DEF IInv

\* The steps of the peer, and a request received again, keep the invariant.
LEMMA PeerIInv ==
    ASSUME IInv, NEW s,
           \/ s \in TxSeq /\ PeerAnswer(s)
           \/ s \in PeerSeq /\ (\/ RecvOldReq(s) \/ PeerSend(s)
                                \/ PeerTimeout(s) \/ PeerRecvRsp(s))
    PROVE  IInv'
  <1> DEFINE PeerType == [at : {"idle", "open", "closed"}, timer : 0 .. T, left : 0 .. N]
  <1>1. /\ net \subseteq Msg /\ peer \in [PeerSeq -> PeerType]
        /\ T \in 0 .. T /\ 0 \in 0 .. T /\ N \in 0 .. N
    BY TransAssumption, SMT DEF IInv, TypeOK
  <1>2. CASE s \in TxSeq /\ PeerAnswer(s)
    BY <1>1, <1>2, MakeMsg, PeerStepIInv DEF PeerAnswer
  <1>3. CASE s \in PeerSeq /\ RecvOldReq(s)
    BY <1>1, <1>3, MakeMsg, PeerStepIInv DEF RecvOldReq
  <1>4. CASE s \in PeerSeq /\ PeerSend(s)
    <2>1. peer' \in [PeerSeq -> PeerType] /\ net' \subseteq Msg /\ UNCHANGED upfVars
      BY <1>1, <1>4, MakeMsg DEF PeerSend
    <2> QED
      BY <2>1, PeerStepIInv
  <1>5. CASE s \in PeerSeq /\ PeerTimeout(s)
    <2>1. peer[s].left \in 0 .. N /\ (peer[s].left > 0 => peer[s].left - 1 \in 0 .. N)
      BY <1>1, <1>5, TransAssumption, SMT
    <2>2. peer' \in [PeerSeq -> PeerType] /\ net' \subseteq Msg /\ UNCHANGED upfVars
      BY <1>1, <1>5, <2>1, MakeMsg, SMT DEF PeerTimeout
    <2> QED
      BY <2>2, PeerStepIInv
  <1>6. CASE s \in PeerSeq /\ PeerRecvRsp(s)
    <2>1. peer' \in [PeerSeq -> PeerType] /\ net' = net /\ UNCHANGED upfVars
      BY <1>1, <1>6 DEF PeerRecvRsp
    <2> QED
      BY <1>1, <2>1, PeerStepIInv
  <1> QED
    BY <1>2, <1>3, <1>4, <1>5, <1>6
\* A timer runs down to 0 and stays; a timer that is off stays off.
LEMMA DownKeeps ==
    ASSUME NEW b \in Int, NEW t \in Off .. b
    PROVE  /\ Down(t) \in Off .. b /\ (t >= 0 => Down(t) >= 0)
           /\ Down(t) = Off <=> t = Off
  BY SMT DEF Down, Off

\* A tick keeps the invariant: no timer is started, stopped or fired by it.
LEMMA TickIInv ==
    ASSUME IInv, Tick
    PROVE  IInv'
  <1>1. /\ peer' = [s \in PeerSeq |-> [peer[s] EXCEPT !.timer = Down(@)]]
        /\ tx' = [s \in TxSeq |-> [tx[s] EXCEPT !.timer = Down(@)]]
        /\ rx' = [s \in PeerSeq |-> [rx[s] EXCEPT !.timer = Down(@)]]
        /\ UNCHANGED <<txSeq, txTrans, rxTrans, trToCh, ended, handled>>
    BY DEF Tick
  <1>2. T \in Int /\ RxTimeout \in Int
    BY TransAssumption, RxTimeoutNat, SMT
  <1>3. /\ tx' \in [TxSeq -> [timer : Off .. T, retransCount : 0 .. N]]
        /\ \A s \in TxSeq : /\ tx'[s].timer = Off <=> tx[s].timer = Off
                            /\ tx'[s].retransCount = tx[s].retransCount
    <2> SUFFICES ASSUME NEW s \in TxSeq
                 PROVE  /\ tx'[s] \in [timer : Off .. T, retransCount : 0 .. N]
                        /\ tx'[s].timer = Off <=> tx[s].timer = Off
                        /\ tx'[s].retransCount = tx[s].retransCount
      BY <1>1
    <2>1. /\ tx[s] \in [timer : Off .. T, retransCount : 0 .. N]
          /\ tx'[s] = [tx[s] EXCEPT !.timer = Down(tx[s].timer)]
      BY <1>1 DEF IInv, TypeOK
    <2>2. /\ Down(tx[s].timer) \in Off .. T
          /\ Down(tx[s].timer) = Off <=> tx[s].timer = Off
      BY <1>2, <2>1, DownKeeps
    <2> QED
      BY <2>1, <2>2
  <1>4. /\ rx' \in [PeerSeq -> [timer : Off .. RxTimeout, rsp : BOOLEAN]]
        /\ \A s \in PeerSeq : rx'[s].timer = Off <=> rx[s].timer = Off
    <2> SUFFICES ASSUME NEW s \in PeerSeq
                 PROVE  /\ rx'[s] \in [timer : Off .. RxTimeout, rsp : BOOLEAN]
                        /\ rx'[s].timer = Off <=> rx[s].timer = Off
      BY <1>1
    <2>1. /\ rx[s] \in [timer : Off .. RxTimeout, rsp : BOOLEAN]
          /\ rx'[s] = [rx[s] EXCEPT !.timer = Down(rx[s].timer)]
      BY <1>1 DEF IInv, TypeOK
    <2>2. /\ Down(rx[s].timer) \in Off .. RxTimeout
          /\ Down(rx[s].timer) = Off <=> rx[s].timer = Off
      BY <1>2, <2>1, DownKeeps
    <2> QED
      BY <2>1, <2>2
  <1>5. peer' \in [PeerSeq -> [at : {"idle", "open", "closed"},
                               timer : 0 .. T, left : 0 .. N]]
    <2>1. \A t \in 0 .. T : Down(t) \in 0 .. T
      BY <1>2, SMT DEF Down
    <2> QED
      BY <1>1, <2>1, ZenonT(60) DEF IInv, TypeOK
  <1>6. net' \subseteq Msg
    <2>1. \A m \in Msg : m.age < Delay => [m EXCEPT !.age = @ + 1] \in Msg
      BY TransAssumption, SMT DEF Msg
    <2>2. net' = {[m EXCEPT !.age = @ + 1] : m \in {m \in net : m.age < Delay}}
      BY DEF Tick
    <2> QED
      BY <2>1, <2>2 DEF IInv, TypeOK
  <1>7. TypeOK'
    BY <1>1, <1>3, <1>4, <1>5, <1>6 DEF IInv, TypeOK
  <1>8. /\ txTrans \subseteq TxSeq /\ rxTrans \subseteq PeerSeq
        /\ txTrans' = txTrans /\ rxTrans' = rxTrans /\ txSeq' = txSeq
        /\ \A t, s : Queued(t, s)' = Queued(t, s)
    BY <1>1, QueueSame DEF IInv, TypeOK
  <1>9. TxTimers' /\ RxTimers'
    <2>1. TxTimers'
      BY <1>3, <1>8 DEF IInv, TxTimers
    <2>2. RxTimers'
      BY <1>4, <1>8 DEF IInv, RxTimers
    <2> QED
      BY <2>1, <2>2
  <1>10. EndsOnce' /\ GivenUpLast'
    BY <1>1, <1>3 DEF IInv, EndsOnce, GivenUpLast
  <1> QED
    BY <1>7, <1>9, <1>10 DEF IInv

\* Every step keeps the invariant.
LEMMA NextIInv == IInv /\ [Next]_vars => IInv'
  <1> SUFFICES ASSUME IInv, [Next]_vars PROVE IInv'
    OBVIOUS
  <1>1. CASE SendReq
    BY <1>1, SendReqIInv
  <1>2. CASE TrTo
    BY <1>2, TrToIInv
  <1>3. CASE Tick
    BY <1>3, TickIInv
  <1>4. ASSUME NEW s \in TxSeq, RecvRsp(s) \/ FireTx(s) \/ PeerAnswer(s)
        PROVE  IInv'
    BY <1>4, RecvRspIInv, FireTxIInv, PeerIInv
  <1>5. ASSUME NEW s \in PeerSeq, NEW answers \in BOOLEAN, RecvNewReq(s, answers)
        PROVE  IInv'
    BY <1>5, RecvNewReqIInv
  <1>6. ASSUME NEW s \in PeerSeq,
               \/ RecvOldReq(s) \/ FireRx(s)
               \/ PeerSend(s) \/ PeerTimeout(s) \/ PeerRecvRsp(s)
        PROVE  IInv'
    BY <1>6, FireRxIInv, PeerIInv
  <1>7. CASE UNCHANGED vars
    <2>1. UNCHANGED upfVars /\ net' \subseteq Msg
          /\ peer' \in [PeerSeq -> [at : {"idle", "open", "closed"},
                                    timer : 0 .. T, left : 0 .. N]]
      BY <1>7 DEF vars, IInv, TypeOK
    <2> QED
      BY <2>1, PeerStepIInv
  <1> QED
    BY <1>1, <1>2, <1>3, <1>4, <1>5, <1>6, <1>7 DEF Next

\* The invariant holds in every reachable state.
THEOREM Invariance == Spec => []IInv
  BY InitIInv, NextIInv, PTL DEF Spec

-----------------------------------------------------------------------------
(* The results about timers and ends. *)

\* Every open transaction has a running timer or exactly one timeout in trToCh,
\* although timers fire, responses arrive and the channel fills at any time.
THEOREM TimerOrTimeout == Spec => []OneTimerEach
  <1>1. ASSUME NEW S, S # {}, Uniq(S)
        PROVE  \E k \in S : S = {k}
    BY <1>1 DEF Uniq
  <1>2. IInv => OneTimerEach
    BY <1>1 DEF IInv, TxTimers, RxTimers, OneTimerEach
  <1> QED
    BY <1>2, Invariance, PTL

\* A request of the UPF ends once: tx.recv and tx.handleTimeout never both end
\* it, also when the timeout was queued before the response came.
THEOREM RequestsEndOnce == Spec => []EndsOnce
  BY Invariance, PTL DEF IInv

\* tx.handleTimeout gives a request up only after MaxRetrans retransmissions.
THEOREM GivesUpLast == Spec => []GivenUpLast
  BY Invariance, PTL DEF IInv
-----------------------------------------------------------------------------
(* A request of the peer is dispatched at most once. *)

\* With fewer than 255 retransmissions the uint8 sum does not wrap, and an
\* RxTransaction lives for one period more than the retransmissions.
LEMMA RxTimeoutLong ==
    ASSUME N < 255
    PROVE  RxTimeout = N * T + T
  <1>1. (N + 1) % 256 = N + 1
    BY TransAssumption, SMT
  <1>2. T * (N + 1) = N * T + T
    BY TransAssumption, SMT
  <1> QED
    BY <1>1, <1>2 DEF RxTimeout

\* Fewer periods take less time.
LEMMA PeriodsMonotone ==
    ASSUME NEW a \in Nat, NEW b \in Nat, a <= b
    PROVE  a * T <= b * T /\ 0 <= a * T /\ a * T \in Nat
  <1>1. PICK d \in Nat : b = a + d
    <2>1. b - a \in Nat /\ b = a + (b - a)
      BY SMT
    <2> QED
      BY <2>1
  <1>2. T \in Nat
    BY TransAssumption
  <1>3. (a + d) * T = a * T + d * T /\ d * T \in Nat /\ a * T \in Nat
    BY <1>2, SMT
  <1> QED
    BY <1>1, <1>3, SMT

\* The fields of the peer's requests, of message copies and of Rx timers.
LEMMA PeerFields ==
    ASSUME IInv, NEW s \in PeerSeq
    PROVE  /\ peer[s].at \in {"idle", "open", "closed"}
           /\ peer[s].timer \in 0 .. T /\ peer[s].left \in 0 .. N
           /\ rx[s].timer \in Int /\ handled[s] \in Nat
           /\ \A m \in net : m.age \in 0 .. Delay
           /\ T \in Nat \ {0} /\ N \in Nat /\ Delay \in Nat
  <1>1. \A t \in Off .. RxTimeout : t \in Int
    BY RxTimeoutNat, SMT DEF Off
  <1> QED
    BY <1>1, TransAssumption DEF IInv, TypeOK, Msg

\* What is left of a request's life is never negative: a request whose timer
\* does not run has no copy left and none to come.
LEMMA CoveredRuns ==
    ASSUME IInv, NEW s \in PeerSeq, Covered(s), rx[s].timer <= 0
    PROVE  ~InNet("peerReq", s) /\ ~(peer[s].at = "open" /\ peer[s].left > 0)
  <1>1. \A m \in net : Delay - m.age >= 0 /\ ~(Delay - m.age < rx[s].timer)
    BY PeerFields, SMT
  <1>2. ~InNet("peerReq", s)
    BY <1>1 DEF Covered, InNet
  <1>3. ASSUME peer[s].left > 0
        PROVE  ~(peer[s].timer + (peer[s].left - 1) * T + Delay < rx[s].timer)
    <2>1. peer[s].left - 1 \in Nat
      BY <1>3, PeerFields, SMT
    <2>2. (peer[s].left - 1) * T \in Nat
      BY <2>1, PeriodsMonotone, SMT
    <2> QED
      BY <2>2, PeerFields, SMT
  <1> QED
    BY <1>2, <1>3 DEF Covered

ReqCopies == {m \in net : m.kind = "peerReq"}

\* A step that sends no request of the peer, and changes neither the peer nor
\* an Rx timer, keeps the dispatched requests covered.
LEMMA OutlivesSame ==
    ASSUME Outlives, ReqCopies' \subseteq ReqCopies, UNCHANGED <<peer, handled>>,
           \A s \in PeerSeq : rx'[s].timer = rx[s].timer
    PROVE  Outlives'
  <1> SUFFICES ASSUME NEW s \in PeerSeq
               PROVE  /\ peer'[s].at = "idle" => handled'[s] = 0 /\ ~InNet("peerReq", s)'
                      /\ handled'[s] = 0 \/ (handled'[s] = 1 /\ Covered(s)')
    BY DEF Outlives
  <1>1. \A m \in net' : m.kind = "peerReq" => m \in net
    BY DEF ReqCopies
  <1>2. InNet("peerReq", s)' => InNet("peerReq", s)
    BY <1>1 DEF InNet
  <1>3. Covered(s) => Covered(s)'
    BY <1>1 DEF Covered
  <1> QED
    BY <1>2, <1>3 DEF Outlives

\* Steps of the UPF's own requests, responses and timeouts.
LEMMA OtherOutlives ==
    ASSUME IInv, Outlives,
           \/ SendReq \/ TrTo
           \/ \E s \in TxSeq : RecvRsp(s) \/ FireTx(s) \/ PeerAnswer(s)
           \/ \E s \in PeerSeq : RecvOldReq(s)
           \/ UNCHANGED vars
    PROVE  Outlives'
  <1>1. /\ \/ net' = net
           \/ \E k \in {"upfReq", "upfRsp", "peerRsp"} : \E q : net' = net \cup {Sent(k, q)}
        /\ UNCHANGED <<peer, handled, rx>>
    BY DEF SendReq, TrTo, TxTimeout, RecvRsp, FireTx, PeerAnswer, RecvOldReq, vars, upfVars
  <1>2. ReqCopies' \subseteq ReqCopies
    BY <1>1, SMT DEF ReqCopies, Sent
  <1> QED
    BY <1>1, <1>2, OutlivesSame

\* A new request is dispatched for the first time, and its RxTransaction covers
\* all copies there are and will be.
LEMMA RecvNewReqOutlives ==
    ASSUME IInv, Outlives, Delay < T, N < 255,
           NEW s \in PeerSeq, NEW answers \in BOOLEAN, RecvNewReq(s, answers)
    PROVE  Outlives'
  <1>1. /\ InNet("peerReq", s) /\ s \notin rxTrans /\ rx' = [rx EXCEPT ![s] =
                                  [timer |-> RxTimeout, rsp |-> answers]]
        /\ handled' = [handled EXCEPT ![s] = @ + 1]
        /\ net' = IF answers THEN net \cup {Sent("upfRsp", s)} ELSE net
        /\ peer' = peer
    BY DEF RecvNewReq
  <1>2. handled[s] = 0
    <2>1. rx[s].timer = Off /\ Off <= 0
      BY <1>1, SMT DEF IInv, RxTimers, Off
    <2> QED
      BY <1>1, <2>1, CoveredRuns DEF Outlives
  <1>3. /\ rx'[s].timer = RxTimeout /\ handled'[s] = 1
        /\ \A q \in PeerSeq : q # s => rx'[q] = rx[q] /\ handled'[q] = handled[q]
    BY <1>1, <1>2, SMT DEF IInv, TypeOK
  <1>4. \A m \in net' : m.kind = "peerReq" => m \in net
    BY <1>1, SMT DEF Sent
  <1>5. ASSUME NEW q \in PeerSeq, q # s
        PROVE  /\ peer'[q].at = "idle" => handled'[q] = 0 /\ ~InNet("peerReq", q)'
               /\ handled'[q] = 0 \/ (handled'[q] = 1 /\ Covered(q)')
    BY <1>1, <1>3, <1>4, <1>5 DEF Outlives, Covered, InNet
  <1>6. RxTimeout = N * T + T /\ N * T \in Nat /\ RxTimeout \in Nat
    BY RxTimeoutLong, RxTimeoutNat, PeriodsMonotone, TransAssumption, SMT
  <1>7. \A m \in net' : m.kind = "peerReq" /\ m.seq = s => Delay - m.age < RxTimeout
    BY <1>4, <1>6, PeerFields, SMT
  <1>8. ASSUME peer[s].at = "open", peer[s].left > 0
        PROVE  peer[s].timer + (peer[s].left - 1) * T + Delay < RxTimeout
    <2>1. peer[s].left - 1 \in Nat /\ N - 1 \in Nat /\ peer[s].left - 1 <= N - 1
      BY <1>8, PeerFields, SMT
    <2>2. (peer[s].left - 1) * T <= (N - 1) * T /\ (peer[s].left - 1) * T \in Nat
          /\ (N - 1) * T \in Nat
      BY <2>1, PeriodsMonotone, SMT
    <2>3. (N - 1) * T = N * T - T
      BY TransAssumption, SMT
    <2> QED
      BY <1>6, <2>2, <2>3, PeerFields, SMT
  <1>9. Covered(s)' /\ peer'[s].at # "idle"
    BY <1>1, <1>3, <1>7, <1>8, ZenonT(60) DEF Covered, Outlives
  <1> QED
    BY <1>3, <1>5, <1>9 DEF Outlives

\* A due Rx timer covers nothing any more, so firing it uncovers nothing.
LEMMA FireRxOutlives ==
    ASSUME IInv, Outlives, NEW s \in PeerSeq, FireRx(s)
    PROVE  Outlives'
  <1>1. /\ rx[s].timer = 0 /\ rx' = [rx EXCEPT ![s].timer = Off]
        /\ UNCHANGED <<net, peer, handled>>
    BY DEF FireRx
  <1>2. \A q \in PeerSeq : q # s => rx'[q].timer = rx[q].timer
    BY <1>1 DEF IInv, TypeOK
  <1>3. Covered(s) => Covered(s)'
    BY <1>1, CoveredRuns, SMT DEF Covered, InNet
  <1>4. \A q \in PeerSeq : Covered(q) => Covered(q)'
    BY <1>1, <1>2, <1>3 DEF Covered
  <1>5. \A q \in PeerSeq : InNet("peerReq", q)' = InNet("peerReq", q)
    BY <1>1 DEF InNet
  <1> QED
    BY <1>1, <1>4, <1>5 DEF Outlives

\* The peer sends a request it has not sent before, so it was not dispatched.
LEMMA PeerSendOutlives ==
    ASSUME IInv, Outlives, NEW s \in PeerSeq, PeerSend(s)
    PROVE  Outlives'
  <1>1. /\ peer[s].at = "idle" /\ net' = net \cup {Sent("peerReq", s)}
        /\ peer' = [peer EXCEPT ![s] = [at |-> "open", timer |-> T, left |-> N]]
        /\ UNCHANGED <<rx, handled>>
    BY DEF PeerSend, upfVars
  <1>2. /\ handled'[s] = 0 /\ peer'[s].at # "idle"
        /\ \A q \in PeerSeq : q # s => peer'[q] = peer[q]
    BY <1>1 DEF Outlives, IInv, TypeOK
  <1>3. \A m \in net' : m.seq # s => m \in net
    BY <1>1, SMT DEF Sent
  <1>4. ASSUME NEW q \in PeerSeq, q # s
        PROVE  /\ peer'[q].at = "idle" => handled'[q] = 0 /\ ~InNet("peerReq", q)'
               /\ handled'[q] = 0 \/ (handled'[q] = 1 /\ Covered(q)')
    BY <1>1, <1>2, <1>3, <1>4 DEF Outlives, Covered, InNet
  <1> QED
    BY <1>2, <1>4 DEF Outlives

\* The peer retransmits within the time that was allowed for, or gives up.
LEMMA PeerTimeoutOutlives ==
    ASSUME IInv, Outlives, NEW s \in PeerSeq, PeerTimeout(s)
    PROVE  Outlives'
  <1>1. /\ peer[s].at = "open" /\ peer[s].timer = 0 /\ UNCHANGED <<rx, handled>>
    BY DEF PeerTimeout, upfVars
  <1>2. CASE /\ peer[s].left > 0
             /\ peer' = [peer EXCEPT ![s].timer = T, ![s].left = @ - 1]
             /\ net' = net \cup {Sent("peerReq", s)}
    <2>1. /\ peer'[s].at = "open" /\ peer'[s].timer = T /\ peer'[s].left = peer[s].left - 1
          /\ \A q \in PeerSeq : q # s => peer'[q] = peer[q]
      BY <1>1, <1>2, ZenonT(60) DEF IInv, TypeOK
    <2>2. \A m \in net' : m \in net \/ (m.seq = s /\ m.age = 0)
      BY <1>2, SMT DEF Sent
    <2>3. ASSUME NEW q \in PeerSeq, q # s
          PROVE  /\ peer'[q].at = "idle" => handled'[q] = 0 /\ ~InNet("peerReq", q)'
                 /\ handled'[q] = 0 \/ (handled'[q] = 1 /\ Covered(q)')
      BY <1>1, <2>1, <2>2, <2>3 DEF Outlives, Covered, InNet
    <2>4. ASSUME Covered(s)
          PROVE  Covered(s)'
      <3> DEFINE l == peer[s].left
      <3>1. l \in Nat /\ l - 1 \in Nat /\ T \in Nat /\ Delay \in Nat /\ rx[s].timer \in Int
        BY <1>2, PeerFields, SMT
      <3>2. 0 + (l - 1) * T + Delay < rx[s].timer
        BY <1>1, <1>2, <2>4 DEF Covered
      <3>3. (l - 1) * T \in Nat
        BY <3>1, PeriodsMonotone, SMT
      <3>4. Delay - 0 < rx[s].timer
        BY <3>1, <3>2, <3>3, SMT
      <3>5. T + ((l - 1) - 1) * T + Delay < rx[s].timer
        <4>1. ((l - 1) - 1) * T = (l - 1) * T - T
          BY <3>1, SMT
        <4> QED
          BY <3>1, <3>2, <3>3, <4>1, SMT
      <3> QED
        BY <1>1, <2>1, <2>2, <2>4, <3>4, <3>5 DEF Covered
    <2> QED
      BY <1>1, <2>1, <2>3, <2>4 DEF Outlives
  <1>3. CASE /\ peer[s].left = 0 /\ peer' = [peer EXCEPT ![s].at = "closed"]
             /\ UNCHANGED net
    BY <1>1, <1>3, ZenonT(60) DEF IInv, TypeOK, Outlives, Covered, InNet
  <1> QED
    BY <1>2, <1>3 DEF PeerTimeout

\* A response closes the peer's request; no copy of it is sent any more.
LEMMA PeerRecvRspOutlives ==
    ASSUME IInv, Outlives, NEW s \in PeerSeq, PeerRecvRsp(s)
    PROVE  Outlives'
  <1>1. /\ peer' = [peer EXCEPT ![s] = [at |-> "closed", timer |-> 0, left |-> @.left]]
        /\ UNCHANGED <<net, rx, handled>>
    BY DEF PeerRecvRsp, upfVars
  <1> QED
    BY <1>1 DEF IInv, TypeOK, Outlives, Covered, InNet

\* A tick ages the copies, the peer's timer and the Rx timer together.
LEMMA TickOutlives ==
    ASSUME IInv, Outlives, Tick
    PROVE  Outlives'
  <1> SUFFICES ASSUME NEW s \in PeerSeq
               PROVE  /\ peer'[s].at = "idle" => handled'[s] = 0 /\ ~InNet("peerReq", s)'
                      /\ handled'[s] = 0 \/ (handled'[s] = 1 /\ Covered(s)')
    BY DEF Outlives
  <1>1. /\ peer[s].at = "open" => peer[s].timer > 0
        /\ net' = {[m EXCEPT !.age = @ + 1] : m \in {m \in net : m.age < Delay}}
        /\ handled' = handled
    BY DEF Tick
  <1>2. /\ peer'[s].at = peer[s].at /\ peer'[s].left = peer[s].left
        /\ peer'[s].timer = Down(peer[s].timer) /\ rx'[s].timer = Down(rx[s].timer)
    BY ZenonT(60) DEF Tick, IInv, TypeOK
  <1>3. \A n \in net' : \E m \in net : /\ m.age < Delay /\ n.age = m.age + 1
                                        /\ n.kind = m.kind /\ n.seq = m.seq
    <2>1. \A m \in Msg : LET n == [m EXCEPT !.age = @ + 1] IN
            n.age = m.age + 1 /\ n.kind = m.kind /\ n.seq = m.seq
      BY DEF Msg
    <2> SUFFICES ASSUME NEW n \in net'
                 PROVE  \E m \in net : /\ m.age < Delay /\ n.age = m.age + 1
                                       /\ n.kind = m.kind /\ n.seq = m.seq
      OBVIOUS
    <2>2. PICK m \in net : m.age < Delay /\ n = [m EXCEPT !.age = @ + 1]
      BY <1>1
    <2>3. m \in Msg
      BY DEF IInv, TypeOK
    <2> QED
      BY <2>1, <2>2, <2>3
  <1>4. InNet("peerReq", s)' => InNet("peerReq", s)
    BY <1>3 DEF InNet
  <1>5. ASSUME Covered(s)
        PROVE  Covered(s)'
    <2>1. ASSUME NEW n \in net', n.kind = "peerReq", n.seq = s
          PROVE  Delay - n.age < rx'[s].timer
      <3>1. PICK m \in net : /\ m.age < Delay /\ n.age = m.age + 1
                             /\ n.kind = m.kind /\ n.seq = m.seq
        BY <1>3
      <3>2. Delay - m.age < rx[s].timer
        BY <1>5, <2>1, <3>1 DEF Covered
      <3> QED
        BY <1>2, <3>1, <3>2, PeerFields, SMT DEF Down
    <2>2. ASSUME peer[s].at = "open", peer[s].left > 0
          PROVE  Down(peer[s].timer) + (peer[s].left - 1) * T + Delay < rx'[s].timer
      <3>1. (peer[s].left - 1) * T \in Nat
        <4>1. peer[s].left - 1 \in Nat
          BY <2>2, PeerFields, SMT
        <4> QED
          BY <4>1, PeriodsMonotone, SMT
      <3>2. peer[s].timer + (peer[s].left - 1) * T + Delay < rx[s].timer
        BY <1>5, <2>2 DEF Covered
      <3>3. peer[s].timer \in Nat \ {0} /\ Delay \in Nat /\ rx[s].timer \in Int
        BY <1>1, <2>2, PeerFields, SMT
      <3> QED
        BY <1>2, <3>1, <3>2, <3>3, SMT DEF Down
    <2> QED
      BY <1>2, <2>1, <2>2 DEF Covered
  <1> QED
    BY <1>1, <1>2, <1>4, <1>5 DEF Outlives

\* Every step keeps the dispatched requests covered.
LEMMA NextOutlives ==
    ASSUME Delay < T, N < 255
    PROVE  IInv /\ Outlives /\ [Next]_vars => Outlives'
  <1> SUFFICES ASSUME IInv, Outlives, [Next]_vars PROVE Outlives'
    OBVIOUS
  <1>1. ASSUME NEW s \in PeerSeq, NEW answers \in BOOLEAN, RecvNewReq(s, answers)
        PROVE  Outlives'
    BY <1>1, RecvNewReqOutlives
  <1>2. ASSUME NEW s \in PeerSeq,
               FireRx(s) \/ PeerSend(s) \/ PeerTimeout(s) \/ PeerRecvRsp(s)
        PROVE  Outlives'
    BY <1>2, FireRxOutlives, PeerSendOutlives, PeerTimeoutOutlives, PeerRecvRspOutlives
  <1>3. CASE Tick
    BY <1>3, TickOutlives
  <1>4. CASE \/ SendReq \/ TrTo
             \/ \E s \in TxSeq : RecvRsp(s) \/ FireTx(s) \/ PeerAnswer(s)
             \/ \E s \in PeerSeq : RecvOldReq(s)
             \/ UNCHANGED vars
    BY <1>4, OtherOutlives
  <1> QED
    BY <1>1, <1>2, <1>3, <1>4 DEF Next

\* NewRxTransaction's lifetime is long enough: while copies live shorter than T,
\* dispatching a request of the peer a second time is impossible, for every
\* MaxRetrans below 255 (at 255 the uint8 sum MaxRetrans + 1 is 0).
THEOREM DispatchedAtMostOnce ==
    ASSUME N < 255
    PROVE  Spec => []AtMostOnce
  <1>1. CASE Delay < T
    <2>1. Init => Outlives
      BY DEF Init, Outlives, InNet
    <2>2. IInv /\ Outlives /\ [Next]_vars => Outlives'
      BY <1>1, NextOutlives
    <2>3. Outlives => AtMostOnce
      BY SMT DEF Outlives, AtMostOnce
    <2> QED
      BY <2>1, <2>2, <2>3, Invariance, PTL DEF Spec
  <1>2. CASE ~(Delay < T)
    <2>1. AtMostOnce
      BY <1>2 DEF AtMostOnce
    <2> QED
      BY <2>1, PTL
  <1> QED
    BY <1>1, <1>2
=============================================================================

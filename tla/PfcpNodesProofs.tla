--------------------------- MODULE PfcpNodesProofs ---------------------------
(***************************************************************************)
(* Proofs that the UPF's session slice, its free list, the RemoteNodes and *)
(* the association table agree after any sequence of handlers, for any     *)
(* sets of Node IDs, RemoteNodes and remote SEIDs and any slice length.    *)
(***************************************************************************)
EXTENDS PfcpNodes, FiniteSetTheorems, SequenceTheorems, TLAPS

\* Leaves go to Zenon; those with arithmetic or sequences cite SMT.
USE Zenon

\* The four facts keep each other: a SEID is reused safely because the free
\* list is exact, a Reset is complete because ownership is, and a rename
\* leaves no stale entry because the association table is.
IInv == TypeOK /\ FreeListExact /\ OwnedOnce /\ AssociationsByID

-----------------------------------------------------------------------------
(* The operators on the slice, the free list and the maps. *)

\* A function on 1 .. n is a sequence of length n.
LEMMA FunctionIsSeq ==
    ASSUME NEW S, NEW n \in Nat, NEW f \in [1 .. n -> S]
    PROVE  f \in Seq(S) /\ Len(f) = n
  <1>1. f \in Seq(S)
    BY SMT
  <1> QED
    BY <1>1, SMT

\* A sequence without its last element.
LEMMA ButLast ==
    ASSUME NEW S, NEW q \in Seq(S), q # <<>>
    PROVE  /\ Len(q) \in Nat \ {0}
           /\ SubSeq(q, 1, Len(q) - 1) \in Seq(S)
           /\ Len(SubSeq(q, 1, Len(q) - 1)) = Len(q) - 1
           /\ \A k \in 1 .. Len(q) - 1 : SubSeq(q, 1, Len(q) - 1)[k] = q[k]
  <1>1. Len(q) \in Nat \ {0}
    BY EmptySeq
  <1> DEFINE n == Len(q) - 1
  <1>2. \A k \in 1 .. n : q[k] \in S
    BY <1>1, SMT
  <1>3. n \in Nat /\ n \in Int
    BY <1>1, SMT
  <1> HIDE DEF n
  <1>4. /\ SubSeq(q, 1, n) \in Seq(S)
        /\ Len(SubSeq(q, 1, n)) = IF 1 <= n THEN n - 1 + 1 ELSE 0
        /\ \A i \in 1 .. n - 1 + 1 : SubSeq(q, 1, n)[i] = q[1 + i - 1]
    BY <1>2, <1>3, SubSeqProperties, SMT
  <1>5. /\ (IF 1 <= n THEN n - 1 + 1 ELSE 0) = n
        /\ \A k \in 1 .. n : k \in 1 .. n - 1 + 1 /\ 1 + k - 1 = k
    BY <1>3, SMT
  <1>6. \A k \in 1 .. n : SubSeq(q, 1, n)[k] = q[k]
    BY <1>4, <1>5
  <1> QED
    BY <1>1, <1>4, <1>5, <1>6 DEF n

\* A slot of the slice holds a session or nil.
LEMMA Slots ==
    ASSUME TypeOK
    PROVE  /\ Len(sess) \in Nat /\ Len(sess) <= MaxSess
           /\ \A i \in 1 .. Len(sess) :
                sess[i] # None => /\ sess[i] \in Sess /\ sess[i].rnode \in Node
                                  /\ sess[i].rseid \in RSEID
  BY SMT DEF TypeOK, Sess

\* Closing sessions keeps the length of the slice and the other slots.
LEMMA CloseSessSlots ==
    ASSUME TypeOK, NEW ids
    PROVE  /\ CloseSess(ids) \in Seq(Sess \cup {None})
           /\ Len(CloseSess(ids)) = Len(sess)
           /\ \A j \in 1 .. Len(sess) :
                CloseSess(ids)[j] = IF j \in ids THEN None ELSE sess[j]
  <1>1. Len(sess) \in Nat /\ \A j \in 1 .. Len(sess) : sess[j] \in Sess \cup {None}
    BY SMT DEF TypeOK
  <1>2. CloseSess(ids) \in [1 .. Len(sess) -> Sess \cup {None}]
    BY <1>1 DEF CloseSess
  <1> QED
    BY <1>1, <1>2, FunctionIsSeq, SMT DEF CloseSess

\* Setting slot i changes that slot alone and grows the slice by at most one.
LEMMA PutSessSlots ==
    ASSUME TypeOK, NEW i \in 1 .. Len(sess) + 1, NEW s \in Sess \cup {None}
    PROVE  /\ PutSess(i, s) \in Seq(Sess \cup {None})
           /\ Len(PutSess(i, s)) = IF i > Len(sess) THEN i ELSE Len(sess)
           /\ PutSess(i, s)[i] = s
           /\ \A j \in 1 .. Len(sess) : j # i => PutSess(i, s)[j] = sess[j]
  <1> DEFINE m == IF i > Len(sess) THEN i ELSE Len(sess)
  <1>1. Len(sess) \in Nat /\ \A j \in 1 .. Len(sess) : sess[j] \in Sess \cup {None}
    BY SMT DEF TypeOK
  <1>2. m \in Nat /\ i \in 1 .. m /\ \A j \in 1 .. m : j # i => j \in 1 .. Len(sess)
    BY <1>1, SMT
  <1>3. PutSess(i, s) \in [1 .. m -> Sess \cup {None}]
    BY <1>1, <1>2 DEF PutSess
  <1>4. PutSess(i, s) \in Seq(Sess \cup {None}) /\ Len(PutSess(i, s)) = m
    BY <1>2, <1>3, FunctionIsSeq
  <1>5. \A j \in 1 .. m : PutSess(i, s)[j] = IF j = i THEN s ELSE sess[j]
    BY DEF PutSess
  <1>6. \A j \in 1 .. Len(sess) : j \in 1 .. m
    BY <1>1, SMT
  <1> QED
    BY <1>2, <1>4, <1>5, <1>6

\* An order of a finite set visits each of its elements exactly once.
LEMMA MapOrdersVisitOnce ==
    ASSUME NEW S, IsFiniteSet(S), NEW q \in MapOrders(S)
    PROVE  /\ q \in Seq(S)
           /\ \A j, k \in 1 .. Len(q) : q[j] = q[k] => j = k
           /\ \A x \in S : \E k \in 1 .. Len(q) : q[k] = x
  <1> DEFINE n == Cardinality(S)
  <1>1. n \in Nat
    BY FS_CardinalityType
  <1>2. q \in [1 .. n -> S] /\ \A x \in S : \E k \in 1 .. n : q[k] = x
    BY DEF MapOrders
  <1>3. IsFiniteSet(1 .. n) /\ Cardinality(1 .. n) = n
    BY <1>1, FS_Interval, SMT
  <1>4. q \in Injection(1 .. n, S)
    <2>1. q \in Surjection(1 .. n, S)
      BY <1>2 DEF Surjection
    <2> QED
      BY <1>3, <2>1, FS_SurjSameCardinalityImpliesInj
  <1>5. q \in Seq(S) /\ Len(q) = n
    BY <1>1, <1>2, FunctionIsSeq
  <1> QED
    BY <1>2, <1>4, <1>5 DEF Injection, IsInjective

\* Every entry of the free list is a closed slot.
LEMMA FreeEntries ==
    ASSUME TypeOK, FreeListExact
    PROVE  /\ free \in Seq(SEID) /\ Len(free) \in Nat /\ Len(sess) \in Nat
           /\ \A k \in 1 .. Len(free) :
                free[k] \in 1 .. Len(sess) /\ sess[free[k]] = None
  <1>1. /\ free \in Seq(SEID) /\ Len(free) \in Nat /\ Len(sess) \in Nat
        /\ \A k \in 1 .. Len(free) : free[k] \in SEID
    BY SMT DEF TypeOK
  <1> QED
    BY <1>1, NodesAssumption, SMT DEF FreeListExact, SEID

\* NewSess hands out a SEID that is closed or one past the end of the slice,
\* and leaves the other closed SEIDs on the free list.
LEMMA NewSEIDClosed ==
    ASSUME TypeOK, FreeListExact
    PROVE  /\ NewSEID \in 1 .. Len(sess) + 1
           /\ NewSEID <= Len(sess) => sess[NewSEID] = None
           /\ FreeButLast \in Seq(SEID)
           /\ \A k \in 1 .. Len(FreeButLast) :
                /\ FreeButLast[k] \in 1 .. Len(sess)
                /\ FreeButLast[k] # NewSEID /\ sess[FreeButLast[k]] = None
           /\ \A j, k \in 1 .. Len(FreeButLast) :
                FreeButLast[j] = FreeButLast[k] => j = k
           /\ \A i \in 1 .. Len(sess) : sess[i] = None /\ i # NewSEID =>
                \E k \in 1 .. Len(FreeButLast) : FreeButLast[k] = i
  <1>1. /\ free \in Seq(SEID) /\ Len(free) \in Nat /\ Len(sess) \in Nat
        /\ \A k \in 1 .. Len(free) : free[k] \in 1 .. Len(sess)
    BY FreeEntries
  <1>2. CASE free = <<>>
    <2>1. NewSEID = Len(sess) + 1 /\ FreeButLast = <<>>
      BY <1>2 DEF NewSEID, FreeButLast
    <2>2. Len(free) = 0
      BY <1>2
    <2> QED
      BY <1>1, <2>1, <2>2, SMT DEF FreeListExact
  <1>3. CASE free # <<>>
    <2> DEFINE l == Len(free)
               f == FreeButLast
    <2>1. /\ l \in Nat \ {0} /\ f \in Seq(SEID) /\ Len(f) = l - 1
          /\ \A k \in 1 .. l - 1 : f[k] = free[k]
      BY <1>1, <1>3, ButLast DEF FreeButLast
    <2>2. NewSEID = free[l]
      BY <1>3 DEF NewSEID
    <2>3. l \in 1 .. l /\ \A k \in 1 .. l - 1 : k \in 1 .. l /\ k # l
      BY <2>1, SMT
    <2>4. \A k \in 1 .. l : k # l => k \in 1 .. l - 1
      BY <2>1, SMT
    <2> HIDE DEF f
    <2>5. \A k \in 1 .. Len(f) :
            f[k] \in 1 .. Len(sess) /\ f[k] # free[l] /\ sess[f[k]] = None
      <3> SUFFICES ASSUME NEW k \in 1 .. l - 1
                   PROVE  /\ free[k] \in 1 .. Len(sess) /\ free[k] # free[l]
                          /\ sess[free[k]] = None
        BY <2>1
      <3>1. k \in 1 .. l /\ l \in 1 .. l /\ k # l
        BY <2>3
      <3> QED
        BY <3>1, FreeEntries DEF FreeListExact
    <2>6. \A j, k \in 1 .. Len(f) : f[j] = f[k] => j = k
      BY <2>1, <2>3 DEF FreeListExact
    <2>7. \A i \in 1 .. Len(sess) : sess[i] = None /\ i # free[l] =>
            \E k \in 1 .. Len(f) : f[k] = i
      BY <2>1, <2>4 DEF FreeListExact
    <2>8. free[l] \in 1 .. Len(sess) + 1 /\ sess[free[l]] = None
      BY <1>1, <2>3, SMT DEF FreeListExact
    <2> QED
      BY <2>1, <2>2, <2>5, <2>6, <2>7, <2>8 DEF f
  <1> QED
    BY <1>2, <1>3
-----------------------------------------------------------------------------
(* Every handler preserves the invariant. *)

\* The initial state satisfies the invariant.
LEMMA InitIInv == Init => IInv
  <1> SUFFICES ASSUME Init PROVE IInv
    OBVIOUS
  <1>1. /\ sess \in Seq(Sess \cup {None}) /\ Len(sess) = 0
        /\ free \in Seq(SEID) /\ Len(free) = 0
    BY SMT DEF Init
  <1>2. node \in [Node -> RemoteNode] /\ \A n \in Node : node[n].sess = {}
    BY SMT DEF Init, RemoteNode
  <1>3. TypeOK
    <2>1. Len(sess) <= MaxSess
      BY <1>1, NodesAssumption, SMT
    <2>2. rnodes \in [NodeID -> Node \cup {None}]
      BY DEF Init
    <2>3. pending \subseteq ReportReq /\ setup \in NodeID \cup {None} /\ crashed \in BOOLEAN
      BY DEF Init
    <2> QED
      BY <1>1, <1>2, <2>1, <2>2, <2>3 DEF TypeOK
  <1>4. FreeListExact /\ OwnedOnce
    BY <1>1, <1>2, SMT DEF FreeListExact, OwnedOnce
  <1>5. AssociationsByID
    BY DEF Init, AssociationsByID
  <1> QED
    BY <1>3, <1>4, <1>5 DEF IInv

\* The sessions of a RemoteNode are live and finitely many.
LEMMA OwnedLive ==
    ASSUME IInv, NEW n \in Node
    PROVE  /\ node[n].sess \subseteq Live /\ node[n].sess \cap Live = node[n].sess
           /\ node[n].sess \subseteq 1 .. Len(sess) /\ node[n].sess \subseteq SEID
           /\ IsFiniteSet(node[n].sess)
  <1>1. node[n].sess \subseteq Live /\ node[n].sess \subseteq 1 .. Len(sess)
    BY DEF IInv, OwnedOnce, Live
  <1>2. Len(sess) \in Nat /\ Len(sess) <= MaxSess
    BY Slots DEF IInv
  <1>3. IsFiniteSet(1 .. Len(sess))
    BY <1>2, FS_Interval, SMT
  <1>4. IsFiniteSet(node[n].sess)
    BY <1>1, <1>3, FS_Subset
  <1>5. node[n].sess \subseteq SEID
    BY <1>1, <1>2, NodesAssumption, SMT DEF SEID
  <1> QED
    BY <1>1, <1>4, <1>5

\* Closing a live session through its owner keeps the slice, the free list and
\* the ownership in agreement.
LEMMA DeleteSessKeeps ==
    ASSUME IInv, NEW i \in Live, DeleteSess(i)
    PROVE  /\ sess' \in Seq(Sess \cup {None}) /\ Len(sess') = Len(sess)
           /\ free' \in Seq(SEID) /\ node' \in [Node -> RemoteNode]
           /\ FreeListExact' /\ OwnedOnce'
           /\ \A n \in Node : node'[n].id = node[n].id
           /\ \A j \in Live : sess'[j] # None => sess'[j] = sess[j]
  <1> DEFINE n == sess[i].rnode
             f == free'
  <1>1. /\ Len(sess) \in Nat /\ Len(sess) <= MaxSess
        /\ i \in 1 .. Len(sess) /\ i \in SEID /\ sess[i] # None /\ n \in Node
    BY Slots, NodesAssumption, SMT DEF IInv, Live, SEID
  <1>2. i \in node[n].sess
    BY <1>1 DEF IInv, OwnedOnce
  <1>3. /\ node' = [node EXCEPT ![n].sess = @ \ {i}]
        /\ sess' = CloseSess({i}) /\ free' = Append(free, i)
    BY <1>2 DEF DeleteSess
  <1>4. /\ sess' \in Seq(Sess \cup {None}) /\ Len(sess') = Len(sess)
        /\ \A j \in 1 .. Len(sess) : sess'[j] = IF j = i THEN None ELSE sess[j]
    BY <1>3, CloseSessSlots DEF IInv
  <1>5. /\ f \in Seq(SEID) /\ Len(f) = Len(free) + 1 /\ Len(free) \in Nat
        /\ f[Len(free) + 1] = i /\ \A k \in 1 .. Len(free) : f[k] = free[k]
    BY <1>1, <1>3, AppendProperties, SMT DEF IInv, TypeOK
  <1>6. /\ node' \in [Node -> RemoteNode]
        /\ \A m \in Node : node'[m].id = node[m].id
        /\ \A m \in Node : node'[m].sess = IF m = n THEN node[m].sess \ {i}
                                           ELSE node[m].sess
    BY <1>1, <1>3 DEF IInv, TypeOK, RemoteNode
  <1>7. FreeListExact'
    <2>1. \A k \in 1 .. Len(free) + 1 : k = Len(free) + 1 \/ k \in 1 .. Len(free)
      BY <1>5, SMT
    <2>2. \A k \in 1 .. Len(free) : free[k] # i
      BY <1>1 DEF IInv, FreeListExact
    <2>3. \A k \in 1 .. Len(free) : free[k] \in 1 .. Len(sess) /\ sess[free[k]] = None
      BY FreeEntries DEF IInv
    <2>4. \A k \in 1 .. Len(f) : f[k] <= Len(sess') /\ sess'[f[k]] = None
      <3> SUFFICES ASSUME NEW k \in 1 .. Len(free) + 1
                   PROVE  f[k] <= Len(sess) /\ sess'[f[k]] = None
        BY <1>4, <1>5
      <3>1. f[k] \in 1 .. Len(sess) /\ (f[k] = i \/ sess[f[k]] = None)
        BY <1>1, <1>5, <2>1, <2>3
      <3> QED
        BY <1>1, <1>4, <3>1, SMT
    <2>5. \A j, k \in 1 .. Len(f) : f[j] = f[k] => j = k
      BY <1>5, <2>1, <2>2, ZenonT(60) DEF IInv, FreeListExact
    <2>6. \A j \in 1 .. Len(sess') : sess'[j] = None => \E k \in 1 .. Len(f) : f[k] = j
      <3> SUFFICES ASSUME NEW j \in 1 .. Len(sess), sess'[j] = None
                   PROVE  \E k \in 1 .. Len(f) : f[k] = j
        BY <1>4
      <3>1. CASE j = i
        BY <1>5, <3>1, SMT
      <3>2. CASE j # i
        <4>1. PICK k \in 1 .. Len(free) : free[k] = j
          BY <1>4, <3>2 DEF IInv, FreeListExact
        <4> QED
          BY <1>5, <4>1, SMT
      <3> QED
        BY <3>1, <3>2
    <2> QED
      BY <2>4, <2>5, <2>6 DEF FreeListExact
  <1>8. OwnedOnce'
    <2> SUFFICES ASSUME NEW m \in Node
                 PROVE  node'[m].sess = {j \in 1 .. Len(sess') :
                                           sess'[j] # None /\ sess'[j].rnode = m}
      BY DEF OwnedOnce
    <2>1. node[m].sess = {j \in 1 .. Len(sess) :
                            sess[j] # None /\ sess[j].rnode = m}
      BY DEF IInv, OwnedOnce
    <2>2. \A j \in 1 .. Len(sess) :
            j \in node'[m].sess <=> sess'[j] # None /\ sess'[j].rnode = m
      <3> SUFFICES ASSUME NEW j \in 1 .. Len(sess)
                   PROVE  j \in node'[m].sess <=> sess'[j] # None /\ sess'[j].rnode = m
        OBVIOUS
      <3>1. j \in node[m].sess <=> sess[j] # None /\ sess[j].rnode = m
        BY <2>1
      <3>2. CASE j = i
        BY <1>1, <1>4, <1>6, <3>1, <3>2
      <3>3. CASE j # i
        BY <1>4, <1>6, <3>1, <3>3
      <3> QED
        BY <3>2, <3>3
    <2>3. node'[m].sess \subseteq 1 .. Len(sess)
      BY <1>6, <2>1
    <2> QED
      BY <1>4, <2>2, <2>3
  <1> QED
    BY <1>4, <1>5, <1>6, <1>7, <1>8 DEF Live
\* A session deletion request keeps the invariant.
LEMMA DeletionIInv ==
    ASSUME IInv, NEW i \in SEID, Deletion(i)
    PROVE  IInv'
  <1>1. i \in Live /\ DeleteSess(i) /\ setup' = None
        /\ UNCHANGED <<rnodes, pending, crashed>>
    BY DEF Deletion
  <1> QED
    BY <1>1, DeleteSessKeeps DEF IInv, TypeOK, AssociationsByID

\* A report request keeps the invariant: it only adds a transaction.
LEMMA ServeReportIInv ==
    ASSUME IInv, NEW i \in SEID, ServeReport(i)
    PROVE  IInv'
  <1>1. [rseid |-> sess[i].rseid, to |-> node[sess[i].rnode].id] \in ReportReq
    <2>1. i \in 1 .. Len(sess) /\ sess[i] # None
      BY DEF ServeReport, Live
    <2>2. sess[i].rseid \in RSEID /\ sess[i].rnode \in Node
      BY <2>1, Slots DEF IInv
    <2> QED
      BY <2>2 DEF IInv, TypeOK, RemoteNode, ReportReq
  <1> QED
    BY <1>1 DEF IInv, TypeOK, FreeListExact, OwnedOnce, AssociationsByID, ServeReport

\* A report response with SEID 0 keeps the invariant, whether the search of the
\* session panics, finds none, or finds one that is then deleted.
LEMMA ReportRspGoneIInv ==
    ASSUME IInv, NEW r \in ReportReq, ReportRspGone(r)
    PROVE  IInv'
  <1>1. pending' \subseteq ReportReq /\ setup' = None /\ rnodes' = rnodes
    BY DEF IInv, TypeOK, ReportRspGone
  <1>2. CASE UNCHANGED <<sess, free, node>> /\ crashed' \in BOOLEAN
    BY <1>1, <1>2 DEF IInv, TypeOK, FreeListExact, OwnedOnce, AssociationsByID
  <1>3. CASE /\ \E i \in RemoteSessMatches(r) : DeleteSess(i)
             /\ UNCHANGED crashed
    <2>1. PICK i \in Live : DeleteSess(i)
      BY <1>3 DEF RemoteSessMatches
    <2> QED
      BY <1>1, <1>3, <2>1, DeleteSessKeeps DEF IInv, TypeOK, AssociationsByID
  <1> QED
    BY <1>2, <1>3 DEF ReportRspGone, IInv, TypeOK

\* The end of a report transaction keeps the invariant.
LEMMA ReportDoneIInv ==
    ASSUME IInv, NEW r \in ReportReq, ReportDone(r)
    PROVE  IInv'
  BY DEF IInv, TypeOK, FreeListExact, OwnedOnce, AssociationsByID, ReportDone

\* A takeover keeps the invariant: the renamed RemoteNode loses the one entry
\* it had in the association table.
LEMMA TakeoverIInv ==
    ASSUME IInv, NEW i \in SEID, NEW newId \in NodeID, Takeover(i, newId)
    PROVE  IInv'
  <1> DEFINE n == sess[i].rnode
  <1>1. /\ Len(sess) \in Nat /\ Len(sess) <= MaxSess
        /\ i \in 1 .. Len(sess) /\ sess[i] # None /\ sess[i] \in Sess /\ n \in Node
    BY Slots DEF IInv, Takeover, Live
  <1>2. /\ rnodes' = [[rnodes EXCEPT ![node[n].id] = None] EXCEPT ![newId] = n]
        /\ node' = [node EXCEPT ![n].id = newId]
        /\ sess' = [sess EXCEPT ![i].smf = newId]
        /\ setup' = None /\ UNCHANGED <<free, pending, crashed>>
    BY DEF Takeover, UpdateNodeID
  <1>3. /\ sess' \in Seq(Sess \cup {None}) /\ Len(sess') = Len(sess)
        /\ \A j \in 1 .. Len(sess) : j # i => sess'[j] = sess[j]
        /\ sess'[i] \in Sess /\ sess'[i].rnode = n
    <2>1. [sess[i] EXCEPT !.smf = newId] \in Sess
          /\ [sess[i] EXCEPT !.smf = newId].rnode = n
      BY <1>1 DEF Sess
    <2>2. sess' = [sess EXCEPT ![i] = [sess[i] EXCEPT !.smf = newId]]
      BY <1>2
    <2>3. sess \in Seq(Sess \cup {None})
      BY DEF IInv, TypeOK
    <2> QED
      BY <1>1, <2>1, <2>2, <2>3, SMT
  <1>4. /\ node' \in [Node -> RemoteNode] /\ node'[n].id = newId
        /\ \A m \in Node : node'[m].sess = node[m].sess
        /\ \A m \in Node : m # n => node'[m].id = node[m].id
    BY <1>1, <1>2 DEF IInv, TypeOK, RemoteNode
  <1>5. /\ rnodes' \in [NodeID -> Node \cup {None}]
        /\ \A id \in NodeID : rnodes'[id] = IF id = newId THEN n
                                ELSE IF id = node[n].id THEN None ELSE rnodes[id]
    <2>1. node[n].id \in NodeID /\ rnodes \in [NodeID -> Node \cup {None}]
      BY <1>1 DEF IInv, TypeOK, RemoteNode
    <2> QED
      BY <1>1, <1>2, <2>1
  <1>6. TypeOK'
    BY <1>1, <1>2, <1>3, <1>4, <1>5 DEF IInv, TypeOK
  <1>7. sess'[i] # None /\ \A j \in 1 .. Len(sess) : sess'[j] = None <=> sess[j] = None
    BY <1>1, <1>3, NodesAssumption DEF Sess
  <1>8. FreeListExact'
    BY <1>2, <1>3, <1>7, FreeEntries, ZenonT(60) DEF IInv, FreeListExact
  <1>9. OwnedOnce'
    <2>1. \A j \in 1 .. Len(sess) : sess[j] # None => sess'[j].rnode = sess[j].rnode
      BY <1>3
    <2> QED
      BY <1>3, <1>4, <1>7, <2>1, SMT DEF IInv, OwnedOnce
  <1>10. AssociationsByID'
    <2> SUFFICES ASSUME NEW id \in NodeID, rnodes'[id] # None
                 PROVE  node'[rnodes'[id]].id = id
      BY DEF AssociationsByID
    <2>1. CASE id = newId
      BY <1>4, <1>5, <2>1
    <2>2. CASE id # newId
      <3>1. id # node[n].id /\ rnodes'[id] = rnodes[id]
        BY <1>5, <2>2
      <3>2. rnodes[id] \in Node /\ node[rnodes[id]].id = id
        BY <3>1 DEF IInv, TypeOK, AssociationsByID
      <3> QED
        BY <1>4, <3>1, <3>2
    <2> QED
      BY <2>1, <2>2
  <1> QED
    BY <1>6, <1>8, <1>9, <1>10 DEF IInv
\* A session establishment keeps the invariant: the SEID it takes is in no
\* live session, and a rejected one is freed again.
LEMMA EstablishIInv ==
    ASSUME IInv, NEW id \in NodeID, NEW rseid \in RSEID, NEW ok \in BOOLEAN,
           Establish(id, rseid, ok)
    PROVE  IInv' /\ \A j \in Live : j \in 1 .. Len(sess') /\ sess'[j] = sess[j]
  <1> DEFINE i == NewSEID
             n == rnodes[id]
             s == IF ok THEN [rseid |-> rseid, rnode |-> n, smf |-> id] ELSE None
             f == FreeButLast
  <1>1. /\ n \in Node /\ Len(sess) \in Nat /\ Len(sess) <= MaxSess /\ i <= MaxSess
        /\ s \in Sess \cup {None} /\ setup' = None
        /\ UNCHANGED <<rnodes, pending, crashed>>
    BY Slots DEF Establish, IInv, TypeOK, Sess
  <1>2. /\ i \in 1 .. Len(sess) + 1 /\ (i <= Len(sess) => sess[i] = None)
        /\ f \in Seq(SEID)
        /\ \A k \in 1 .. Len(f) :
             f[k] \in 1 .. Len(sess) /\ f[k] # i /\ sess[f[k]] = None
        /\ \A j, k \in 1 .. Len(f) : f[j] = f[k] => j = k
        /\ \A j \in 1 .. Len(sess) : sess[j] = None /\ j # i =>
             \E k \in 1 .. Len(f) : f[k] = j
    BY NewSEIDClosed DEF IInv
  <1>3. i \in SEID
    BY <1>1, <1>2, NodesAssumption, SMT DEF SEID
  <1>4. /\ sess' = PutSess(i, s)
        /\ free' = IF ok THEN f ELSE Append(f, i)
        /\ node' = IF ok THEN [node EXCEPT ![n].sess = @ \cup {i}] ELSE node
    BY DEF Establish
  <1> HIDE DEF i, f
  <1>5. /\ sess' \in Seq(Sess \cup {None})
        /\ Len(sess') = (IF i > Len(sess) THEN i ELSE Len(sess))
        /\ sess'[i] = s /\ \A j \in 1 .. Len(sess) : j # i => sess'[j] = sess[j]
    BY <1>1, <1>2, <1>4, PutSessSlots, SMT DEF IInv
  <1>6. /\ Len(sess') \in Nat /\ Len(sess') <= MaxSess /\ i \in 1 .. Len(sess')
        /\ \A j \in 1 .. Len(sess) : j \in 1 .. Len(sess')
        /\ \A j \in 1 .. Len(sess') : j # i => j \in 1 .. Len(sess)
    BY <1>1, <1>2, <1>5, SMT
  <1>7. /\ node' \in [Node -> RemoteNode]
        /\ \A m \in Node : node'[m].id = node[m].id
        /\ \A m \in Node : node'[m].sess =
             IF ok /\ m = n THEN node[m].sess \cup {i} ELSE node[m].sess
    BY <1>1, <1>3, <1>4, ZenonT(60) DEF IInv, TypeOK, RemoteNode
  <1>8. s = None <=> ~ok
    BY <1>1, NodesAssumption, SMT DEF Sess
  <1>9. FreeListExact' /\ free' \in Seq(SEID)
    <2>1. CASE ok
      <3>1. free' = f /\ sess'[i] # None
        BY <1>4, <1>5, <1>8, <2>1
      <3>2. \A k \in 1 .. Len(f) : f[k] <= Len(sess') /\ sess'[f[k]] = None
        BY <1>2, <1>5, <1>6, SMT
      <3>3. \A j \in 1 .. Len(sess') : sess'[j] = None => \E k \in 1 .. Len(f) : f[k] = j
        BY <1>2, <1>5, <1>6, <3>1
      <3> QED
        BY <1>2, <3>1, <3>2, <3>3 DEF FreeListExact
    <2>2. CASE ~ok
      <3> DEFINE g == free'
      <3>1. /\ g \in Seq(SEID) /\ Len(g) = Len(f) + 1 /\ Len(f) \in Nat
            /\ g[Len(f) + 1] = i /\ \A k \in 1 .. Len(f) : g[k] = f[k]
        BY <1>2, <1>3, <1>4, <2>2, AppendProperties, SMT
      <3>2. sess'[i] = None
        BY <1>5, <1>8, <2>2
      <3>3. \A k \in 1 .. Len(g) : k = Len(f) + 1 \/ k \in 1 .. Len(f)
        BY <3>1, SMT
      <3>4. \A k \in 1 .. Len(g) : g[k] \in 1 .. Len(sess') /\ sess'[g[k]] = None
        <4> SUFFICES ASSUME NEW k \in 1 .. Len(g)
                     PROVE  g[k] \in 1 .. Len(sess') /\ sess'[g[k]] = None
          OBVIOUS
        <4>1. CASE k = Len(f) + 1
          BY <1>6, <3>1, <3>2, <4>1
        <4>2. CASE k \in 1 .. Len(f)
          <5>1. f[k] \in 1 .. Len(sess) /\ f[k] # i /\ sess[f[k]] = None
            BY <1>2, <4>2
          <5>2. f[k] \in 1 .. Len(sess') /\ sess'[f[k]] = None
            BY <1>5, <1>6, <5>1
          <5> QED
            BY <3>1, <4>2, <5>2
        <4> QED
          BY <3>3, <4>1, <4>2
      <3>5. \A k \in 1 .. Len(g) : g[k] <= Len(sess')
        BY <1>6, <3>4, SMT
      <3>6. \A j, k \in 1 .. Len(g) : g[j] = g[k] => j = k
        BY <1>2, <3>1, <3>3, SMT
      <3>7. \A j \in 1 .. Len(sess') : sess'[j] = None => \E k \in 1 .. Len(g) : g[k] = j
        <4> SUFFICES ASSUME NEW j \in 1 .. Len(sess'), sess'[j] = None
                     PROVE  \E k \in 1 .. Len(g) : g[k] = j
          OBVIOUS
        <4>1. CASE j = i
          BY <3>1, <4>1, SMT
        <4>2. CASE j # i
          <5>1. PICK k \in 1 .. Len(f) : f[k] = j
            BY <1>2, <1>5, <1>6, <4>2
          <5> QED
            BY <3>1, <5>1, SMT
        <4> QED
          BY <4>1, <4>2
      <3> QED
        BY <3>1, <3>4, <3>5, <3>6, <3>7 DEF FreeListExact
    <2> QED
      BY <2>1, <2>2
  <1>10. OwnedOnce'
    <2> SUFFICES ASSUME NEW m \in Node
                 PROVE  node'[m].sess = {j \in 1 .. Len(sess') :
                                           sess'[j] # None /\ sess'[j].rnode = m}
      BY DEF OwnedOnce
    <2>1. node[m].sess = {j \in 1 .. Len(sess) :
                            sess[j] # None /\ sess[j].rnode = m}
      BY DEF IInv, OwnedOnce
    <2>2. i \notin node[m].sess
      BY <1>2, <2>1, SMT
    <2>3. i \in node'[m].sess <=> sess'[i] # None /\ sess'[i].rnode = m
      <3>1. CASE ok
        <4>1. sess'[i] # None /\ sess'[i].rnode = n
          BY <1>5, <1>8, <3>1, SMT
        <4>2. i \in node'[m].sess <=> m = n
          BY <1>7, <2>2, <3>1
        <4> QED
          BY <4>1, <4>2
      <3>2. CASE ~ok
        BY <1>5, <1>7, <1>8, <2>2, <3>2
      <3> QED
        BY <3>1, <3>2
    <2>4. \A j \in 1 .. Len(sess) : j # i =>
            (j \in node'[m].sess <=> sess'[j] # None /\ sess'[j].rnode = m)
      <3> SUFFICES ASSUME NEW j \in 1 .. Len(sess), j # i
                   PROVE  j \in node'[m].sess <=> sess'[j] # None /\ sess'[j].rnode = m
        OBVIOUS
      <3>1. j \in node[m].sess <=> sess[j] # None /\ sess[j].rnode = m
        BY <2>1
      <3>2. sess'[j] = sess[j]
        BY <1>5
      <3>3. j \in node'[m].sess <=> j \in node[m].sess
        BY <1>7
      <3> QED
        BY <3>1, <3>2, <3>3
    <2>5. node'[m].sess \subseteq 1 .. Len(sess')
      BY <1>6, <1>7, <2>1, ZenonT(60)
    <2> QED
      BY <1>6, <2>3, <2>4, <2>5
  <1>11. AssociationsByID'
    BY <1>1, <1>7 DEF IInv, TypeOK, AssociationsByID
  <1>12. TypeOK'
    BY <1>1, <1>5, <1>6, <1>7, <1>9 DEF IInv, TypeOK
  <1>13. \A j \in Live : j \in 1 .. Len(sess') /\ sess'[j] = sess[j]
    BY <1>2, <1>5, <1>6, SMT DEF Live
  <1> QED
    BY <1>9, <1>10, <1>11, <1>12, <1>13 DEF IInv
\* An association setup keeps the invariant: the sessions of the RemoteNode it
\* resets are closed and freed once each, the others are untouched, and the
\* new RemoteNode owns none.
LEMMA AssociationSetupIInv ==
    ASSUME IInv, NEW id \in NodeID, NEW addr \in NodeID, AssociationSetup(id, addr)
    PROVE  /\ IInv' /\ setup' = id /\ Len(sess') = Len(sess)
           /\ \A j \in Live : sess'[j] # None => sess'[j] = sess[j]
           /\ \A j \in Live : rnodes[id] # None /\ sess[j].rnode = rnodes[id]
                => sess'[j] = None
  <1> DEFINE old == rnodes[id]
             gone == IF old = None THEN {} ELSE node[old].sess \cap Live
             cleared == IF old = None THEN node ELSE [node EXCEPT ![old].sess = {}]
             fresh == [id |-> id, addr |-> addr, sess |-> {}]
  <1>1. PICK order \in MapOrders(gone),
             new \in Unreferenced([rnodes EXCEPT ![id] = None], CloseSess(gone)) :
          /\ sess' = CloseSess(gone) /\ free' = free \o order
          /\ node' = [cleared EXCEPT ![new] = fresh]
          /\ rnodes' = [rnodes EXCEPT ![id] = new]
    BY DEF AssociationSetup
  <1>2. setup' = id /\ UNCHANGED <<pending, crashed>>
    BY DEF AssociationSetup
  <1>3. old \in Node \cup {None} /\ fresh \in RemoteNode
    BY DEF IInv, TypeOK, RemoteNode
  <1>4. /\ Len(sess) \in Nat /\ Len(sess) <= MaxSess
        /\ \A j \in 1 .. Len(sess) : sess[j] # None => sess[j].rnode \in Node
    BY Slots DEF IInv
  <1>5. /\ gone \subseteq Live /\ gone \subseteq 1 .. Len(sess) /\ IsFiniteSet(gone)
        /\ \A j \in 1 .. Len(sess) :
             j \in gone <=> sess[j] # None /\ sess[j].rnode = old
    <2>1. CASE old = None
      BY <1>4, <2>1, FS_EmptySet, NodesAssumption
    <2>2. CASE old # None
      <3>1. gone = node[old].sess /\ old \in Node
        BY <1>3, <2>2, OwnedLive
      <3> QED
        BY <3>1, OwnedLive, ZenonT(60) DEF IInv, OwnedOnce
    <2> QED
      BY <2>1, <2>2
  <1>6. /\ order \in Seq(gone) /\ \A j, k \in 1 .. Len(order) : order[j] = order[k] => j = k
        /\ \A x \in gone : \E k \in 1 .. Len(order) : order[k] = x
    BY <1>5, MapOrdersVisitOnce, SMT
  <1> HIDE DEF gone
  <1>7. /\ sess' \in Seq(Sess \cup {None}) /\ Len(sess') = Len(sess)
        /\ \A j \in 1 .. Len(sess) : sess'[j] = IF j \in gone THEN None ELSE sess[j]
    BY <1>1, CloseSessSlots DEF IInv
  <1>8. /\ new \in Node
        /\ \A k \in NodeID : k # id => rnodes[k] # new
        /\ \A j \in 1 .. Len(sess) : sess'[j] # None => sess'[j].rnode # new
    BY <1>1, <1>7 DEF Unreferenced, IInv, TypeOK
  <1>9. /\ node' \in [Node -> RemoteNode] /\ node'[new] = fresh
        /\ \A m \in Node : m # new => node'[m].id = node[m].id
        /\ \A m \in Node : m # new /\ m # old => node'[m].sess = node[m].sess
        /\ old # None /\ old # new => node'[old].sess = {}
    BY <1>1, <1>3, <1>8 DEF IInv, TypeOK, RemoteNode
  <1>10. /\ rnodes' \in [NodeID -> Node \cup {None}] /\ rnodes'[id] = new
         /\ \A k \in NodeID : k # id => rnodes'[k] = rnodes[k]
    BY <1>1, <1>8 DEF IInv, TypeOK
  <1>11. FreeListExact' /\ free' \in Seq(SEID)
    <2> DEFINE f == free'
               l == Len(free)
    <2>1. /\ free \in Seq(SEID) /\ l \in Nat
          /\ \A k \in 1 .. l : free[k] \in 1 .. Len(sess) /\ sess[free[k]] = None
      BY FreeEntries DEF IInv
    <2>2. order \in Seq(SEID) /\ Len(order) \in Nat
          /\ \A k \in 1 .. Len(order) : order[k] \in gone
      <3>1. Len(order) \in Nat /\ \A k \in 1 .. Len(order) : order[k] \in gone
        BY <1>6, SMT
      <3>2. gone \subseteq SEID
        BY <1>4, <1>5, NodesAssumption, SMT DEF SEID
      <3>3. order \in [1 .. Len(order) -> SEID]
        BY <1>6, <3>1, <3>2, LenProperties
      <3> QED
        BY <3>1, <3>3, FunctionIsSeq
    <2>3. /\ f \in Seq(SEID) /\ Len(f) = l + Len(order)
          /\ \A k \in 1 .. l + Len(order) :
               f[k] = IF k <= l THEN free[k] ELSE order[k - l]
      BY <1>1, <2>1, <2>2, ConcatProperties
    <2> HIDE DEF f
    <2>4. /\ \A k \in 1 .. l : k \in 1 .. Len(f) /\ f[k] = free[k]
          /\ \A k \in 1 .. Len(order) :
               k + l \in 1 .. Len(f) /\ f[k + l] = order[k]
      <3>1. \A k \in 1 .. l : k \in 1 .. l + Len(order) /\ k <= l
        BY <2>1, <2>2, SMT
      <3>2. \A k \in 1 .. Len(order) :
              k + l \in 1 .. l + Len(order) /\ ~(k + l <= l) /\ (k + l) - l = k
        BY <2>1, <2>2, SMT
      <3> QED
        BY <2>3, <3>1, <3>2
    <2>5. \A k \in 1 .. Len(f) :
            \/ k \in 1 .. l /\ f[k] = free[k]
            \/ k > l /\ k - l \in 1 .. Len(order) /\ f[k] = order[k - l]
      BY <2>1, <2>2, <2>3, SMT
    <2>6. \A k \in 1 .. Len(f) : f[k] <= Len(sess') /\ sess'[f[k]] = None
      <3>1. \A k \in 1 .. Len(f) : f[k] \in 1 .. Len(sess)
                                   /\ (f[k] \in gone \/ sess[f[k]] = None)
        BY <1>5, <2>1, <2>2, <2>5
      <3> QED
        BY <1>4, <1>7, <3>1, SMT
    <2>7. \A j, k \in 1 .. Len(f) : f[j] = f[k] => j = k
      <3>1. \A j \in 1 .. l, k \in 1 .. Len(order) : free[j] # order[k]
        BY <1>5, <2>1, <2>2 DEF Live
      <3>2. \A j, k \in 1 .. l : free[j] = free[k] => j = k
        BY DEF IInv, FreeListExact
      <3>3. \A j, k \in 1 .. Len(f) :
              j - l \in 1 .. Len(order) /\ k - l \in 1 .. Len(order)
              /\ order[j - l] = order[k - l] => j = k
        <4>1. \A j, k \in 1 .. Len(f) : j - l = k - l => j = k
          BY <2>1, <2>2, <2>3, SMT
        <4> QED
          BY <1>6, <4>1
      <3> QED
        BY <2>5, <3>1, <3>2, <3>3
    <2>8. \A j \in 1 .. Len(sess') : sess'[j] = None => \E k \in 1 .. Len(f) : f[k] = j
      <3> SUFFICES ASSUME NEW j \in 1 .. Len(sess), sess'[j] = None
                   PROVE  \E k \in 1 .. Len(f) : f[k] = j
        BY <1>7
      <3>1. CASE j \in gone
        <4>1. PICK k \in 1 .. Len(order) : order[k] = j
          BY <1>6, <3>1
        <4> QED
          BY <2>4, <4>1
      <3>2. CASE sess[j] = None
        <4>1. PICK k \in 1 .. l : free[k] = j
          BY <3>2 DEF IInv, FreeListExact
        <4> QED
          BY <2>4, <4>1
      <3> QED
        BY <1>7, <3>1, <3>2
    <2> QED
      BY <2>3, <2>6, <2>7, <2>8 DEF FreeListExact, f
  <1>12. OwnedOnce'
    <2> SUFFICES ASSUME NEW m \in Node
                 PROVE  node'[m].sess = {j \in 1 .. Len(sess') :
                                           sess'[j] # None /\ sess'[j].rnode = m}
      BY DEF OwnedOnce
    <2>1. node[m].sess = {j \in 1 .. Len(sess) :
                            sess[j] # None /\ sess[j].rnode = m}
      BY DEF IInv, OwnedOnce
    <2>2. CASE m = new
      BY <1>7, <1>8, <1>9, <2>2, SMT
    <2>3. CASE m # new /\ m = old
      <3>1. node'[m].sess = {}
        BY <1>9, <2>3, NodesAssumption
      <3>2. \A j \in 1 .. Len(sess) : ~(sess'[j] # None /\ sess'[j].rnode = m)
        BY <1>5, <1>7, <2>3
      <3> QED
        BY <1>7, <3>1, <3>2
    <2>4. CASE m # new /\ m # old
      <3>1. node'[m].sess = node[m].sess
        BY <1>9, <2>4
      <3>2. \A j \in 1 .. Len(sess) :
              (sess'[j] # None /\ sess'[j].rnode = m)
                <=> (sess[j] # None /\ sess[j].rnode = m)
        BY <1>5, <1>7, <2>4
      <3> QED
        BY <1>7, <2>1, <3>1, <3>2
    <2> QED
      BY <2>2, <2>3, <2>4
  <1>13. AssociationsByID'
    <2> SUFFICES ASSUME NEW k \in NodeID, rnodes'[k] # None
                 PROVE  node'[rnodes'[k]].id = k
      BY DEF AssociationsByID
    <2>1. CASE k = id
      BY <1>9, <1>10, <2>1, SMT
    <2>2. CASE k # id
      <3>1. rnodes'[k] = rnodes[k] /\ rnodes[k] \in Node /\ rnodes[k] # new
        BY <1>8, <1>10, <2>2 DEF IInv, TypeOK
      <3> QED
        BY <1>9, <3>1 DEF IInv, AssociationsByID
    <2> QED
      BY <2>1, <2>2
  <1>14. TypeOK'
    BY <1>2, <1>4, <1>7, <1>9, <1>10, <1>11 DEF IInv, TypeOK
  <1>15. \A j \in Live : /\ sess'[j] # None => sess'[j] = sess[j]
                         /\ sess[j].rnode = old => sess'[j] = None
    BY <1>5, <1>7 DEF Live
  <1> QED
    BY <1>2, <1>7, <1>11, <1>12, <1>13, <1>14, <1>15 DEF IInv
\* Every step keeps the invariant.
LEMMA NextIInv == IInv /\ [Next]_vars => IInv'
  <1> SUFFICES ASSUME IInv, [Next]_vars PROVE IInv'
    OBVIOUS
  <1>1. ASSUME NEW id \in NodeID, NEW addr \in NodeID, AssociationSetup(id, addr)
        PROVE  IInv'
    BY <1>1, AssociationSetupIInv
  <1>2. ASSUME NEW id \in NodeID, NEW rseid \in RSEID, NEW ok \in BOOLEAN,
               Establish(id, rseid, ok)
        PROVE  IInv'
    BY <1>2, EstablishIInv
  <1>3. ASSUME NEW i \in SEID, NEW newId \in NodeID, Takeover(i, newId)
        PROVE  IInv'
    BY <1>3, TakeoverIInv
  <1>4. ASSUME NEW i \in SEID, Deletion(i) \/ ServeReport(i)
        PROVE  IInv'
    BY <1>4, DeletionIInv, ServeReportIInv
  <1>5. ASSUME NEW r \in ReportReq, ReportRspGone(r) \/ ReportDone(r)
        PROVE  IInv'
    BY <1>5, ReportRspGoneIInv, ReportDoneIInv
  <1>6. CASE UNCHANGED vars
    BY <1>6 DEF vars, IInv, TypeOK, FreeListExact, OwnedOnce, AssociationsByID
  <1> QED
    BY <1>1, <1>2, <1>3, <1>4, <1>5, <1>6 DEF Next, Exited

\* The invariant holds in every reachable state.
THEOREM Invariance == Spec => []IInv
  BY InitIInv, NextIInv, PTL DEF Spec

-----------------------------------------------------------------------------
(* The results. *)

\* LocalNode's slice and free list agree for ever: NewSess (node.go) hands out a
\* SEID of no live session, and no SEID is lost or freed twice.
THEOREM FreeListAgrees == Spec => []FreeListExact
  BY Invariance, PTL DEF IInv

\* A RemoteNode owns exactly the live sessions that point back to it, so
\* RemoteNode.Reset closes all its sessions and no other.
THEOREM EachSessionOwnedOnce == Spec => []OwnedOnce
  BY Invariance, PTL DEF IInv

\* The association table holds a RemoteNode under its own Node ID only, through
\* any sequence of setups and UpdateNodeID renames.
THEOREM TableHoldsOwnIDs == Spec => []AssociationsByID
  BY Invariance, PTL DEF IInv

\* A takeover changes only who controls the session.
LEMMA TakeoverStable ==
    ASSUME IInv, NEW i \in SEID, NEW newId \in NodeID, Takeover(i, newId),
           NEW j \in Live
    PROVE  /\ j <= Len(sess')
           /\ sess'[j].rseid = sess[j].rseid /\ sess'[j].rnode = sess[j].rnode
  <1>1. /\ sess \in Seq(Sess \cup {None}) /\ i \in 1 .. Len(sess)
        /\ j \in 1 .. Len(sess) /\ sess[i] \in Sess
        /\ sess' = [sess EXCEPT ![i].smf = newId]
    BY Slots DEF IInv, TypeOK, Takeover, Live
  <1>2. Len(sess') = Len(sess)
    BY <1>1, SMT
  <1>3. CASE j # i
    BY <1>1, <1>2, <1>3, SMT
  <1>4. CASE j = i
    BY <1>1, <1>2, <1>4, SMT DEF Sess
  <1> QED
    BY <1>3, <1>4

\* What one step may do to the live sessions, and what an association setup
\* must do.
LEMMA StepStable ==
    ASSUME IInv, [Next]_vars
    PROVE  /\ \A j \in Live : /\ j <= Len(sess')
                              /\ sess'[j] # None => /\ sess'[j].rseid = sess[j].rseid
                                                    /\ sess'[j].rnode = sess[j].rnode
           /\ UNCHANGED vars \/ setup' = None \/
                (rnodes[setup'] # None =>
                   \A j \in Live : sess[j].rnode = rnodes[setup'] => sess'[j] = None)
  <1> DEFINE Stable == \A j \in Live :
               /\ j <= Len(sess')
               /\ sess'[j] # None => sess'[j].rseid = sess[j].rseid
                                      /\ sess'[j].rnode = sess[j].rnode
             Closed == UNCHANGED vars \/ setup' = None \/
               (rnodes[setup'] # None =>
                  \A j \in Live : sess[j].rnode = rnodes[setup'] => sess'[j] = None)
  <1>0. Len(sess) \in Nat /\ \A j \in Live : j \in 1 .. Len(sess) /\ j <= Len(sess)
    BY Slots, SMT DEF IInv, Live
  <1>1. ASSUME NEW id \in NodeID, NEW addr \in NodeID, AssociationSetup(id, addr)
        PROVE  Stable /\ Closed
    BY <1>0, <1>1, AssociationSetupIInv
  <1>2. ASSUME NEW id \in NodeID, NEW rseid \in RSEID, NEW ok \in BOOLEAN,
               Establish(id, rseid, ok)
        PROVE  Stable /\ Closed
    <2>1. \A j \in Live : j \in 1 .. Len(sess') /\ sess'[j] = sess[j]
      BY <1>2, EstablishIInv
    <2>2. Len(sess') \in Nat /\ setup' = None
      BY <1>2, EstablishIInv, LenProperties DEF IInv, TypeOK, Establish
    <2> QED
      BY <2>1, <2>2, SMT
  <1>3. ASSUME NEW i \in SEID, NEW newId \in NodeID, Takeover(i, newId)
        PROVE  Stable /\ Closed
    BY <1>3, TakeoverStable DEF Takeover
  <1>4. ASSUME NEW i \in SEID, Deletion(i)
        PROVE  Stable /\ Closed
    BY <1>0, <1>4, DeleteSessKeeps DEF Deletion
  <1>5. ASSUME NEW i \in SEID, ServeReport(i)
        PROVE  Stable /\ Closed
    BY <1>0, <1>5 DEF ServeReport
  <1>6. ASSUME NEW r \in ReportReq, ReportRspGone(r)
        PROVE  Stable /\ Closed
    <2>1. setup' = None
      BY <1>6 DEF ReportRspGone
    <2>2. CASE sess' = sess
      BY <1>0, <2>1, <2>2
    <2>3. CASE \E i \in Live : DeleteSess(i)
      BY <1>0, <2>1, <2>3, DeleteSessKeeps
    <2> QED
      BY <1>6, <2>2, <2>3 DEF ReportRspGone, RemoteSessMatches
  <1>7. ASSUME NEW r \in ReportReq, ReportDone(r)
        PROVE  Stable /\ Closed
    BY <1>0, <1>7 DEF ReportDone
  <1>8. CASE UNCHANGED vars
    BY <1>0, <1>8 DEF vars
  <1> QED
    BY <1>1, <1>2, <1>3, <1>4, <1>5, <1>6, <1>7, <1>8 DEF Next, Exited

\* A live session keeps its SEID, remote SEID and RemoteNode until it is closed.
THEOREM LiveSessionsStable == Spec => SessionsStable
  <1>1. IInv /\ [Next]_vars =>
          [\A i \in Live :
             i <= Len(sess') /\ (sess'[i] # None =>
               sess'[i].rseid = sess[i].rseid /\ sess'[i].rnode = sess[i].rnode)]_vars
    BY StepStable
  <1> QED
    BY <1>1, Invariance, PTL DEF Spec, SessionsStable

\* handleAssociationSetupRequest closes every session of the RemoteNode it
\* replaces.
THEOREM SetupResetsRegistered == Spec => SetupClosesRegistered
  <1>1. IInv /\ [Next]_vars =>
          [setup' # None /\ rnodes[setup'] # None =>
             \A i \in Live : sess[i].rnode = rnodes[setup'] => sess'[i] = None]_vars
    BY StepStable
  <1> QED
    BY <1>1, Invariance, PTL DEF Spec, SetupClosesRegistered
=============================================================================

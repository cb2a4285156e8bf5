------------------------------ MODULE PfcpNodes ------------------------------
(***************************************************************************)
(* Who owns a PFCP session of the UPF (NFs/upf/internal/pfcp: node.go,     *)
(* association.go, and the parts of pfcp.go, session.go and report.go that *)
(* create, find, move and delete sessions).                                *)
(*                                                                         *)
(* LocalNode keeps the sessions in a slice indexed by local SEID with a    *)
(* LIFO list of free SEIDs; every RemoteNode (one per association) keeps   *)
(* the SEIDs it owns; rnodes finds a RemoteNode by Node ID; every session  *)
(* points back to its RemoteNode.  All of it belongs to the one PFCP main  *)
(* goroutine, so a handler is one step.                                    *)
(***************************************************************************)
EXTENDS Naturals, Sequences, FiniteSets

CONSTANTS
    NodeID,      \* control-plane Node IDs, each also naming its own address
    Node,        \* RemoteNode objects
    RSEID,       \* SEIDs chosen by the control plane
    MaxSess,     \* bound on the length of the session slice
    MaxPending,  \* bound on report requests in flight
    None         \* nil

ASSUME NodesAssumption ==
    /\ MaxSess \in Nat /\ MaxPending \in Nat
    /\ None \notin Node /\ None \notin NodeID
    /\ None \notin [rseid : RSEID, rnode : Node, smf : NodeID]

SEID == 1 .. MaxSess
Sess == [rseid : RSEID, rnode : Node, smf : NodeID]
RemoteNode == [id : NodeID, addr : NodeID, sess : SUBSET SEID]
ReportReq == [rseid : RSEID, to : NodeID]

VARIABLES
    sess,     \* LocalNode.sess; the field smf of a session is history: the
              \* node that established it or took it over last
    free,     \* LocalNode.free
    rnodes,   \* PfcpServer.rnodes
    node,     \* the RemoteNode objects
    pending,  \* Session Report Requests whose transaction is open
    setup,    \* history: Node ID of the association setup just handled
    crashed   \* the main loop panicked

vars == <<sess, free, rnodes, node, pending, setup, crashed>>

\* Every variable has a value the program can give it; in particular every entry
\* of the free list is a SEID.
TypeOK ==
    /\ sess \in Seq(Sess \cup {None}) /\ Len(sess) <= MaxSess
    /\ free \in Seq(SEID)
    /\ rnodes \in [NodeID -> Node \cup {None}]
    /\ node \in [Node -> RemoteNode]
    /\ pending \subseteq ReportReq
    /\ setup \in NodeID \cup {None}
    /\ crashed \in BOOLEAN

Init ==
    /\ sess = <<>> /\ free = <<>>
    /\ rnodes = [id \in NodeID |-> None]
    /\ node \in [Node -> {[id |-> id, addr |-> id, sess |-> {}] : id \in NodeID}]
    /\ pending = {} /\ setup = None /\ crashed = FALSE

\* LocalNode.Sess finds a session exactly for these SEIDs.
Live == {i \in 1 .. Len(sess) : sess[i] # None}

\* A RemoteNode object can be allocated when nothing points to it.
Unreferenced(rn, ss) ==
    {n \in Node : /\ \A id \in NodeID : rn[id] # n
                  /\ \A i \in 1 .. Len(ss) : ss[i] # None => ss[i].rnode # n}

-----------------------------------------------------------------------------
(* LocalNode and RemoteNode operations. *)

\* The slice with slot i set, appended when i is one past its end.
PutSess(i, s) ==
    [j \in 1 .. (IF i > Len(sess) THEN i ELSE Len(sess)) |->
       IF j = i THEN s ELSE sess[j]]

\* The slice with the sessions of a set closed.
CloseSess(ids) ==
    [j \in 1 .. Len(sess) |-> IF j \in ids THEN None ELSE sess[j]]

\* The orders in which a range over a Go map may visit a set.
MapOrders(S) ==
    {q \in [1 .. Cardinality(S) -> S] : \A x \in S : \E k \in DOMAIN q : q[k] = x}

\* LocalNode.NewSess takes the SEID freed last, or the next one.
NewSEID == IF free # <<>> THEN free[Len(free)] ELSE Len(sess) + 1

\* Mutated: the SEID is taken from the free list and stays on it.
FreeButLastKept == free

\* The free list without the SEID NewSess takes.
FreeButLast == IF free # <<>> THEN SubSeq(free, 1, Len(free) - 1) ELSE <<>>

\* Mutated: the owner forgets the SEID only in LocalNode.
DeleteSessLocal(i) ==
    LET n == sess[i].rnode IN
    IF i \in node[n].sess
    THEN sess' = CloseSess({i}) /\ free' = Append(free, i) /\ UNCHANGED node
    ELSE UNCHANGED <<node, sess, free>>

\* RemoteNode.DeleteSess of the owner, then LocalNode.DeleteSess.
DeleteSess(i) ==
    LET n == sess[i].rnode IN
    IF i \in node[n].sess
    THEN /\ node' = [node EXCEPT ![n].sess = @ \ {i}]
         /\ sess' = CloseSess({i}) /\ free' = Append(free, i)
    ELSE UNCHANGED <<node, sess, free>>

-----------------------------------------------------------------------------
(* The handlers. *)

\* Mutated: the RemoteNode is replaced without Reset.
AssociationSetupNoReset(id, addr) ==
    /\ \E new \in Unreferenced([rnodes EXCEPT ![id] = None], sess) :
         /\ node' = [node EXCEPT ![new] = [id |-> id, addr |-> addr, sess |-> {}]]
         /\ rnodes' = [rnodes EXCEPT ![id] = new]
    /\ setup' = id
    /\ UNCHANGED <<sess, free, pending, crashed>>

\* handleAssociationSetupRequest: Reset the RemoteNode known under the Node ID,
\* closing its sessions, and put a new one in its place.
AssociationSetup(id, addr) ==
    /\ LET old == rnodes[id]
           gone == IF old = None THEN {} ELSE node[old].sess \cap Live
           cleared == IF old = None THEN node
                      ELSE [node EXCEPT ![old].sess = {}]
       IN \E order \in MapOrders(gone),
             new \in Unreferenced([rnodes EXCEPT ![id] = None], CloseSess(gone)) :
            /\ sess' = CloseSess(gone) /\ free' = free \o order
            /\ node' = [cleared EXCEPT
                          ![new] = [id |-> id, addr |-> addr, sess |-> {}]]
            /\ rnodes' = [rnodes EXCEPT ![id] = new]
    /\ setup' = id
    /\ UNCHANGED <<pending, crashed>>

\* handleSessionEstablishmentRequest for a known Node ID; the request may be
\* rejected by validation or by the driver, after NewSess: then the session is
\* deleted again and its SEID is free.
Establish(id, rseid, ok) ==
    /\ rnodes[id] # None /\ NewSEID <= MaxSess
    /\ LET i == NewSEID
           n == rnodes[id]
           s == [rseid |-> rseid, rnode |-> n, smf |-> id] IN
       IF ok
       THEN /\ sess' = PutSess(i, s) /\ free' = FreeButLast
            /\ node' = [node EXCEPT ![n].sess = @ \cup {i}]
       ELSE /\ sess' = PutSess(i, None) /\ free' = Append(FreeButLast, i)
            /\ UNCHANGED node
    /\ setup' = None
    /\ UNCHANGED <<rnodes, pending, crashed>>

\* Mutated: the entry of the old Node ID is not deleted.
UpdateNodeIDKept(n, newId) ==
    /\ rnodes' = [rnodes EXCEPT ![newId] = n]
    /\ node' = [node EXCEPT ![n].id = newId]

\* PfcpServer.UpdateNodeID.
UpdateNodeID(n, newId) ==
    /\ rnodes' = [[rnodes EXCEPT ![node[n].id] = None] EXCEPT ![newId] = n]
    /\ node' = [node EXCEPT ![n].id = newId]

\* Mutated: the new SMF's F-SEID replaces the remote SEID at once.
TakeoverRSEID(i, newId) ==
    /\ i \in Live
    /\ UpdateNodeID(sess[i].rnode, newId)
    /\ \E r \in RSEID : sess' = [sess EXCEPT ![i].smf = newId, ![i].rseid = r]
    /\ setup' = None
    /\ UNCHANGED <<free, pending, crashed>>

\* handleSessionModificationRequest with a Node ID: a new SMF takes over.
Takeover(i, newId) ==
    /\ i \in Live
    /\ UpdateNodeID(sess[i].rnode, newId)
    /\ sess' = [sess EXCEPT ![i].smf = newId]
    /\ setup' = None
    /\ UNCHANGED <<free, pending, crashed>>

\* handleSessionDeletionRequest.
Deletion(i) ==
    /\ i \in Live
    /\ DeleteSess(i)
    /\ setup' = None
    /\ UNCHANGED <<rnodes, pending, crashed>>

\* ServeReport of a live session sends a Session Report Request to the address
\* its RemoteNode's ID resolves to.
ServeReport(i) ==
    /\ i \in Live /\ Cardinality(pending) < MaxPending
    /\ pending' = pending \cup
                    {[rseid |-> sess[i].rseid, to |-> node[sess[i].rnode].id]}
    /\ setup' = None
    /\ UNCHANGED <<sess, free, rnodes, node, crashed>>

\* LocalNode.RemoteSess compares the sessions slot by slot and dereferences
\* every slot it looks at.
RemoteSessMatches(r) ==
    {i \in Live : sess[i].rseid = r.rseid /\ node[sess[i].rnode].addr = r.to}
RemoteSessPanics(r) ==
    \E i \in 1 .. Len(sess) :
      sess[i] = None /\ \A j \in RemoteSessMatches(r) : i < j

\* handleSessionReportResponse with SEID 0: the session named by the request is
\* unknown to the control plane and is deleted.
ReportRspGone(r) ==
    /\ r \in pending /\ pending' = pending \ {r}
    /\ \/ /\ RemoteSessPanics(r)
          /\ crashed' = TRUE /\ UNCHANGED <<sess, free, node>>
       \/ /\ ~RemoteSessPanics(r) /\ RemoteSessMatches(r) = {}
          /\ UNCHANGED <<sess, free, node, crashed>>
       \/ /\ ~RemoteSessPanics(r)
          /\ \E i \in RemoteSessMatches(r) :
               /\ \A j \in RemoteSessMatches(r) : i <= j
               /\ DeleteSess(i)
          /\ UNCHANGED crashed
    /\ setup' = None
    /\ UNCHANGED rnodes

\* A Session Report Response that names a session, or the timeout of the
\* request: the transaction ends and no session changes.
ReportDone(r) ==
    /\ r \in pending /\ pending' = pending \ {r}
    /\ setup' = None
    /\ UNCHANGED <<sess, free, rnodes, node, crashed>>

\* After a panic the process exits.
Exited == crashed /\ UNCHANGED vars

Next ==
    \/ /\ ~crashed
       /\ \/ \E id, addr \in NodeID : AssociationSetup(id, addr)
          \/ \E id \in NodeID, rseid \in RSEID, ok \in BOOLEAN :
               Establish(id, rseid, ok)
          \/ \E i \in SEID : \/ \E newId \in NodeID : Takeover(i, newId)
                             \/ Deletion(i)
                             \/ ServeReport(i)
          \/ \E r \in ReportReq : ReportRspGone(r) \/ ReportDone(r)
    \/ Exited

Spec == Init /\ [][Next]_vars

-----------------------------------------------------------------------------
(* Properties. *)

\* The free list holds every closed SEID once and no SEID in use: NewSess never
\* hands out the SEID of a live session and no SEID is lost or freed twice,
\* whatever the order of establishments, failures, deletions and resets.
FreeListExact ==
    /\ \A k \in 1 .. Len(free) : free[k] <= Len(sess) /\ sess[free[k]] = None
    /\ \A j, k \in 1 .. Len(free) : free[j] = free[k] => j = k
    /\ \A i \in 1 .. Len(sess) :
         sess[i] = None => \E k \in 1 .. Len(free) : free[k] = i

\* A RemoteNode's set of SEIDs is exactly the set of live sessions that point
\* back to it: a session is closed once, by its owner, and a Reset closes all
\* the sessions of the node and no other.
OwnedOnce ==
    \A n \in Node :
      node[n].sess = {i \in 1 .. Len(sess) : sess[i] # None /\ sess[i].rnode = n}

\* rnodes never holds a RemoteNode under a Node ID that is not its own, so
\* UpdateNodeID leaves no stale entry for the node it renames.
AssociationsByID == \A id \in NodeID : rnodes[id] # None => node[rnodes[id]].id = id

\* A session keeps its SEID, its remote SEID and its RemoteNode until it is
\* closed: no handler of another session or association overwrites its slot.
SessionsStable ==
    [][\A i \in Live :
         i <= Len(sess') /\ (sess'[i] # None =>
            sess'[i].rseid = sess[i].rseid /\ sess'[i].rnode = sess[i].rnode)]_vars

\* An association setup closes every session that points to the RemoteNode
\* registered under the Node ID before: Reset misses none.
SetupClosesRegistered ==
    [][setup' # None /\ rnodes[setup'] # None =>
         \A i \in Live : sess[i].rnode = rnodes[setup'] => sess'[i] = None]_vars

\* "deleting the existing PFCP association and associated PFCP sessions, if a
\* PFCP association was already established for the Node ID received in the
\* request" (association.go:48): after an association setup no session of a
\* RemoteNode with that Node ID is left.
SetupDeletesSessions ==
    setup # None => \A i \in Live : node[sess[i].rnode].id # setup

\* "a new SMF in an SMF Set [...] takes over the control of the PFCP session"
\* (session.go:221): reports of a session go to the SMF that established it or
\* took it over last, and a takeover concerns that session alone.
ControlledByLastSMF == \A i \in Live : node[sess[i].rnode].id = sess[i].smf

\* "no this session on remote; delete it on local" (session.go:617): a report
\* response with SEID 0 deletes a session; it does not end the process.
NoPanic == ~crashed
=============================================================================

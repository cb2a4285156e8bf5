---------------------------- MODULE SessionRules ----------------------------
(***************************************************************************)
(* The rules of one PFCP session: the three phases of the establishment,   *)
(* modification and deletion handlers (NFs/upf/internal/pfcp/session.go),  *)
(* the Validate*, Apply* and Close methods of Sess (node.go), and the      *)
(* execution of a plan against the kernel (forwarder/gtp5g.go).            *)
(*                                                                         *)
(* A request is a set of rule IEs.  FAR, QER and BAR are handled alike and *)
(* carry no reference the session keeps: they are one kind, Rule.  A PDR   *)
(* refers to URRs, and a URR counts the PDRs that refer to it (refPdrNum); *)
(* an IE names a URR once at most (twice would count it twice).            *)
(* The kernel is external; each of its operations may fail.                *)
(***************************************************************************)
EXTENDS Naturals, FiniteSets

CONSTANTS
    PDRID, URRID, Rule,  \* rule ids of the session
    MaxIEs,              \* bound on the rule IEs of a request
    MaxRef,              \* bound on refPdrNum
    Liberties            \* what the SMF may do: "recreate" a rule that exists,
                         \* "rebind" a PDR to more URRs by an update, remove a
                         \* URR and leave PDRs "dangling"

ASSUME RulesAssumption ==
    /\ MaxIEs \in Nat \ {0} /\ MaxRef \in Nat
    /\ PDRID \cap URRID = {} /\ PDRID \cap Rule = {} /\ URRID \cap Rule = {}
    /\ Liberties \subseteq {"recreate", "rebind", "dangling"}

ID == PDRID \cup URRID \cup Rule
IE == [op : {"Create", "Update"}, id : PDRID, urrs : SUBSET URRID]
        \cup [op : {"Remove"}, id : PDRID]
        \cup [op : {"Create", "Update", "Remove", "Query"}, id : URRID]
        \cup [op : {"Create", "Update", "Remove"}, id : Rule]
Request == {{f[k] : k \in 1 .. MaxIEs} : f \in [1 .. MaxIEs -> IE]}
CreateRequest == {req \in Request : \A i \in req : i.op = "Create"}

VARIABLES
    est,      \* the session exists
    ids,      \* the keys of PDRIDs, URRIDs, FARIDs, QERIDs and BARIDs
    related,  \* RelatedURRIDs of each PDR
    ref,      \* refPdrNum of each URR
    kernel,   \* rules of the session's SEID in the kernel
    asked,    \* history: URRs the last request queried when it dissociated them
    failed,   \* history: what failed in the kernel, by its consequence
    taken     \* history: the SMF has taken a liberty in this session

vars == <<est, ids, related, ref, kernel, asked, failed, taken>>

\* Every variable has a value the program can give it; refPdrNum does not wrap
\* below zero.
TypeOK ==
    /\ est \in BOOLEAN
    /\ ids \subseteq ID /\ kernel \subseteq ID
    /\ related \in [PDRID -> SUBSET URRID]
    /\ ref \in [URRID -> Nat]
    /\ asked \subseteq URRID
    /\ failed \subseteq {"create", "remove"} /\ taken \in BOOLEAN

Empty ==
    /\ est' = FALSE /\ ids' = {} /\ taken' = FALSE
    /\ related' = [p \in PDRID |-> {}] /\ ref' = [u \in URRID |-> 0]

Init ==
    /\ est = FALSE /\ ids = {}
    /\ related = [p \in PDRID |-> {}] /\ ref = [u \in URRID |-> 0]
    /\ kernel = {} /\ asked = {} /\ failed = {} /\ taken = FALSE

-----------------------------------------------------------------------------
(* Phase 1: validation. *)

IdsOf(req, ops) == {i.id : i \in {j \in req : j.op \in ops}}

\* ValidateCreatePDR: the URRs it names exist or are created by the request.
URRsKnown(req) ==
    \A i \in req : i.op = "Create" /\ i.id \in PDRID =>
      i.urrs \subseteq ids \cup IdsOf(req, {"Create"})

\* ValidateUpdate*, ValidateRemove* and ValidateQueryURR.
RulesKnown(req) ==
    IdsOf(req, {"Update", "Remove", "Query"}) \subseteq ids \cup IdsOf(req, {"Create"})

\* validateMutualExclusion.
NoConflict(req) ==
    /\ \A i, j \in req : i.op = "Create" /\ j.op = "Create" /\ i.id = j.id => i = j
    /\ IdsOf(req, {"Remove"}) \cap IdsOf(req, {"Update", "Query"}) = {}

Valid(req) == URRsKnown(req) /\ RulesKnown(req) /\ NoConflict(req)

-----------------------------------------------------------------------------
(* Phase 2: execution. *)

\* The kernel after the operations of ok have succeeded: creates, then removes.
Executed(ok) == (kernel \cup IdsOf(ok, {"Create"})) \ IdsOf(ok, {"Remove"})

\* Establishment creates FAR, QER, URR, BAR and then PDR, and stops at the
\* first failure: the PDRs come last.
Started(req) ==
    {done \in SUBSET req : (\E i \in done : i.id \in PDRID) =>
                             \A i \in req : i.id \notin PDRID => i \in done}

-----------------------------------------------------------------------------
(* Phase 3: apply. *)

PDRs(req, op) == {i \in req : i.op = op /\ i.id \in PDRID}

\* RelatedURRIDs after ApplyCreatePDR.
RelatedAfterCreate(req) ==
    [p \in PDRID |-> IF \E i \in PDRs(req, "Create") : i.id = p
                     THEN (CHOOSE i \in PDRs(req, "Create") : i.id = p).urrs
                     ELSE related[p]]

\* Mutated: a PDR created in the same request does not count.
RefAfterCreateMissed(req) ==
    [u \in URRID |-> IF u \in IdsOf(req, {"Create"}) THEN 0
                     ELSE ref[u] + Cardinality({i \in PDRs(req, "Create") : u \in i.urrs})]

\* refPdrNum after ApplyCreateURR, which starts it at 0, and ApplyCreatePDR.
RefAfterCreate(req) ==
    [u \in URRID |->
       (IF u \in IdsOf(req, {"Create"}) THEN 0 ELSE ref[u])
         + Cardinality({i \in PDRs(req, "Create") : u \in i.urrs})]

\* ApplyUpdatePDR and ApplyRemovePDR: the PDRs that give up URR u.
Dissociations(req, u) ==
    {i \in PDRs(req, "Update") \cup PDRs(req, "Remove") :
       /\ i.id \in ids \cup IdsOf(req, {"Create"})
       /\ u \in RelatedAfterCreate(req)[i.id]
       /\ i.op = "Update" => u \notin i.urrs}

\* One decrement of refPdrNum per dissociation, none below 0.
Minus(a, b) == IF a > b THEN a - b ELSE 0

\* Mutated: the URR is queried whenever a PDR gives it up.
AskedEach(req) ==
    {u \in URRID : /\ u \in ids \cup IdsOf(req, {"Create"})
                   /\ Dissociations(req, u) # {}}

\* Mutated: the count is compared before it is decremented.
AskedLate(req) ==
    {u \in URRID : /\ u \in ids \cup IdsOf(req, {"Create"})
                   /\ RefAfterCreate(req)[u] > 0
                   /\ Cardinality(Dissociations(req, u)) > RefAfterCreate(req)[u]}

\* diassociateURR: the URRs whose count reaches 0 are queried for a TERMR report.
Asked(req) ==
    {u \in URRID : /\ u \in ids \cup IdsOf(req, {"Create"})
                   /\ RefAfterCreate(req)[u] > 0
                   /\ Cardinality(Dissociations(req, u)) >= RefAfterCreate(req)[u]}

\* The rule ids after the Apply* calls and CleanupRemovedURRs.
IdsAfter(req) == (ids \cup IdsOf(req, {"Create"})) \ IdsOf(req, {"Remove"})

Apply(req) ==
    LET left == IdsAfter(req)
        updated(p) == {i \in PDRs(req, "Update") : i.id = p} IN
    /\ ids' = left
    /\ related' = [p \in PDRID |->
                     IF p \notin left THEN {}
                     ELSE IF updated(p) # {} THEN (CHOOSE i \in updated(p) : TRUE).urrs
                     ELSE RelatedAfterCreate(req)[p]]
    /\ ref' = [u \in URRID |->
                 IF u \notin left THEN 0
                 ELSE Minus(RefAfterCreate(req)[u], Cardinality(Dissociations(req, u)))]
    /\ asked' = Asked(req)

-----------------------------------------------------------------------------
(* The handlers. *)

\* The liberties a request takes: it creates a rule that exists; it adds a URR to
\* a PDR by an update; it removes a URR that a PDR still names.
Taken(req) ==
    (IF IdsOf(req, {"Create"}) \cap ids # {} THEN {"recreate"} ELSE {})
      \cup (IF \E i \in PDRs(req, "Update") : ~(i.urrs \subseteq RelatedAfterCreate(req)[i.id])
            THEN {"rebind"} ELSE {})
      \cup (IF \E u \in URRID \cap IdsOf(req, {"Remove"}), p \in IdsAfter(req) \cap PDRID :
                 /\ u \in RelatedAfterCreate(req)[p]
                 /\ \A i \in PDRs(req, "Update") : i.id = p => u \in i.urrs
            THEN {"dangling"} ELSE {})

\* The SMF keeps to its liberties, and updates a PDR once per request.
SMFSends(req) ==
    /\ \A i, j \in PDRs(req, "Update") : i.id = j.id => i = j
    /\ Taken(req) \subseteq Liberties

\* handleSessionEstablishmentRequest.  It has no validateMutualExclusion; here
\* a request creates a rule once.
Establish(req) ==
    /\ ~est /\ URRsKnown(req) /\ NoConflict(req)
    /\ kernel' = kernel \cup IdsOf(req, {"Create"})
    /\ est' = TRUE /\ Apply(req) /\ UNCHANGED <<failed, taken>>

\* A kernel operation of the establishment fails: the session is deleted while
\* its id maps are empty, and what was created stays in the kernel unremoved.
EstablishFails(req) ==
    /\ ~est /\ URRsKnown(req)
    /\ \E done \in Started(req) \ {req} :
         kernel' = kernel \cup IdsOf(done, {"Create"})
    /\ Empty /\ asked' = {} /\ failed' = failed \cup {"remove"}

\* handleSessionModificationRequest.  The kernel operations in bad fail; the
\* session is updated and the request accepted all the same (best effort).
Modify(req, bad) ==
    /\ est /\ SMFSends(req) /\ Valid(req)
    /\ \A u \in URRID : RefAfterCreate(req)[u] <= MaxRef
    /\ kernel' = Executed(req \ bad) /\ taken' = (taken \/ Taken(req) # {})
    /\ Apply(req)
    /\ failed' = failed \cup (IF IdsOf(bad, {"Create"}) # {} THEN {"create"} ELSE {})
                       \cup (IF IdsOf(bad, {"Remove"}) # {} THEN {"remove"} ELSE {})
    /\ UNCHANGED est

\* A request that fails validation is answered and changes nothing.
Reject(req) ==
    /\ est /\ ~Valid(req)
    /\ asked' = {} /\ UNCHANGED <<est, ids, related, ref, kernel, failed, taken>>

\* Mutated: Close plans no removal for the rules other than PDRs and URRs.
ClosePartly(bad) ==
    /\ est
    /\ kernel' = kernel \ ((ids \ Rule) \ bad)
    /\ asked' = {} /\ Empty
    /\ failed' = IF bad = {} THEN failed ELSE failed \cup {"remove"}

\* handleSessionDeletionRequest: Close plans a removal for every rule id of the
\* session.  The URRs it then dissociates are already gone from the kernel.
Close(bad) ==
    /\ est
    /\ kernel' = kernel \ (ids \ bad)
    /\ asked' = {} /\ Empty
    /\ failed' = IF bad = {} THEN failed ELSE failed \cup {"remove"}

Next ==
    \/ \E req \in CreateRequest : Establish(req) \/ EstablishFails(req)
    \/ \E req \in Request : \/ \E bad \in SUBSET {i \in req : i.op \in {"Create", "Remove"}} :
                                  Modify(req, bad)
                            \/ Reject(req)
    \/ \E bad \in SUBSET ids : Close(bad)

Spec == Init /\ [][Next]_vars

-----------------------------------------------------------------------------
(* Properties. *)

\* refPdrNum is the number of PDRs that refer to the URR, whatever fails in the
\* kernel.  ApplyUpdatePDR never counts a URR it adds, so this holds as long as
\* the SMF takes no liberty in the session.
RefCounts ==
    ~taken =>
      \A u \in URRID \cap ids :
        ref[u] = Cardinality({p \in PDRID \cap ids : u \in related[p]})

\* No rule of the session is left in the kernel unknown to the session, whatever
\* creations and updates fail, unless a removal or an establishment failed: what
\* a later deletion can remove is all there is.
KernelCovered == "remove" \notin failed => kernel \subseteq ids

\* "usage report being reported for a URR due to dissociated from the last PDR"
\* (node.go:155): a URR is queried for it only when no PDR refers to it any more.
LastPDROnly == \A u \in asked, p \in PDRID \cap ids : u \notin related[p]

\* As long as the SMF takes no liberty, a URR that stays in the session is queried
\* as dissociated from its last PDR when it loses it, so the usage measured so far
\* is reported, and never while a PDR still refers to it.
LastPDRReported ==
    [][est /\ est' /\ ~taken' =>
         /\ LastPDROnly'
         /\ \A u \in URRID \cap ids \cap ids' :
              /\ \E p \in PDRID \cap ids : u \in related[p]
              /\ \A p \in PDRID \cap ids' : u \notin related'[p]
              => u \in asked']_vars
=============================================================================

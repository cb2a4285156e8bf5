------------------------- MODULE SessionRulesProofs -------------------------
(***************************************************************************)
(* Proofs about the rules of a PFCP session: what its deletion can reach   *)
(* in the kernel, what refPdrNum counts and when a URR is reported as      *)
(* dissociated, for any sets of rules, any size of request and whatever    *)
(* the kernel refuses.                                                     *)
(***************************************************************************)
EXTENDS SessionRules, FiniteSetTheorems, TLAPS

\* A PDR that is gone relates to no URR, and a PDR relates only to URRs of the
\* session as long as the SMF takes no liberty.
RelatedKnown ==
    /\ \A p \in PDRID \ ids : related[p] = {}
    /\ ~taken => \A p \in PDRID : related[p] \subseteq ids

IInv ==
    /\ TypeOK /\ IsFiniteSet(ids)
    /\ ~est => ids = {} /\ ~taken
    /\ RelatedKnown /\ RefCounts /\ KernelCovered

-----------------------------------------------------------------------------
(* What a request does to one URR. *)

Known(req) == ids \cup IdsOf(req, {"Create"})

\* The PDRs that refer to u once the creations are applied, those that then give
\* it up, and RelatedURRIDs after the request.
Referring(req, u) == {p \in PDRID \cap Known(req) : u \in RelatedAfterCreate(req)[p]}
GivingUp(req, u) == {i.id : i \in Dissociations(req, u)}
Updated(req, p) == {i \in PDRs(req, "Update") : i.id = p}
RelatedAfter(req) ==
    [p \in PDRID |-> IF p \notin IdsAfter(req) THEN {}
                     ELSE IF Updated(req, p) # {} THEN (CHOOSE i \in Updated(req, p) : TRUE).urrs
                     ELSE RelatedAfterCreate(req)[p]]

\* A request that is valid and takes no liberty.
Modest(req) ==
    /\ req \in Request /\ URRsKnown(req) /\ NoConflict(req)
    /\ \A i, j \in PDRs(req, "Update") : i.id = j.id => i = j
    /\ Taken(req) = {}

\* A request is a finite set of IEs.
LEMMA Requests ==
    ASSUME NEW req \in Request
    PROVE  req \subseteq IE /\ IsFiniteSet(req)
  <1>1. PICK f \in [1 .. MaxIEs -> IE] : req = {f[k] : k \in 1 .. MaxIEs}
    BY DEF Request
  <1>2. req \subseteq IE
    BY <1>1
  <1>3. f \in Surjection(1 .. MaxIEs, req)
    BY <1>1 DEF Surjection
  <1>4. IsFiniteSet(1 .. MaxIEs)
    BY FS_Interval, RulesAssumption
  <1> QED
    BY <1>2, <1>3, <1>4, FS_Surjection

\* The ids of finitely many IEs are finitely many, and as many if no two of the
\* IEs have the same id.
LEMMA IdsOfFinite ==
    ASSUME NEW S, IsFiniteSet(S)
    PROVE  /\ IsFiniteSet({i.id : i \in S})
           /\ (\A i, j \in S : i.id = j.id => i = j) => Cardinality({i.id : i \in S}) = Cardinality(S)
  <1> DEFINE T == {i.id : i \in S}
             f == [i \in S |-> i.id]
  <1>1. f \in Surjection(S, T)
    BY DEF Surjection
  <1>2. (\A i, j \in S : i.id = j.id => i = j) => f \in Injection(S, T)
    BY DEF Injection, IsInjective
  <1> HIDE DEF f, T
  <1>3. IsFiniteSet(T) /\ (Cardinality(T) = Cardinality(S) <=> f \in Injection(S, T))
    BY <1>1, FS_Surjection
  <1>4. IsFiniteSet(T) /\ ((\A i, j \in S : i.id = j.id => i = j) => Cardinality(T) = Cardinality(S))
    BY <1>2, <1>3
  <1> QED
    BY <1>4 DEF T

\* What a rule IE for a PDR carries.
LEMMA PDRIEs ==
    ASSUME NEW i \in IE, i.id \in PDRID
    PROVE  /\ i.op \in {"Create", "Update"} => i.urrs \subseteq URRID
           /\ i.op = "Remove" => i = [op |-> "Remove", id |-> i.id]
  <1>1. i \in [op : {"Create", "Update"}, id : PDRID, urrs : SUBSET URRID]
          \/ i \in [op : {"Remove"}, id : PDRID]
    BY RulesAssumption DEF IE
  <1>2. CASE i \in [op : {"Create", "Update"}, id : PDRID, urrs : SUBSET URRID]
    BY <1>2
  <1>3. CASE i \in [op : {"Remove"}, id : PDRID]
    BY <1>3
  <1> QED
    BY <1>1, <1>2, <1>3

\* The ids of the IEs of a request with the given operations.
LEMMA IdsMembers ==
    ASSUME NEW req, NEW ops
    PROVE  /\ \A i \in req : i.op \in ops => i.id \in IdsOf(req, ops)
           /\ \A x \in IdsOf(req, ops) : \E i \in req : i.op \in ops /\ i.id = x
  BY DEF IdsOf

\* What it means to take no liberty.
LEMMA NoLiberty ==
    ASSUME NEW req, Modest(req)
    PROVE  /\ IdsOf(req, {"Create"}) \cap ids = {}
           /\ \A i \in PDRs(req, "Update") : i.urrs \subseteq RelatedAfterCreate(req)[i.id]
           /\ \A u \in URRID \cap IdsOf(req, {"Remove"}), p \in IdsAfter(req) \cap PDRID :
                u \in RelatedAfterCreate(req)[p] =>
                  \E i \in PDRs(req, "Update") : i.id = p /\ u \notin i.urrs
  BY DEF Modest, Taken

\* ApplyCreatePDR relates the PDR to the URRs of its IE.
LEMMA CreatedRelated ==
    ASSUME NEW req, NoConflict(req), NEW i \in PDRs(req, "Create")
    PROVE  RelatedAfterCreate(req)[i.id] = i.urrs
  <1> DEFINE j == CHOOSE x \in PDRs(req, "Create") : x.id = i.id
  <1>1. j \in PDRs(req, "Create") /\ j.id = i.id
    OBVIOUS
  <1> HIDE DEF j
  <1>2. j = i
    BY <1>1 DEF NoConflict, PDRs
  <1>3. i.id \in PDRID /\ \E x \in PDRs(req, "Create") : x.id = i.id
    BY DEF PDRs
  <1>4. RelatedAfterCreate(req)[i.id] = j.urrs
    BY <1>3 DEF RelatedAfterCreate, j
  <1> QED
    BY <1>2, <1>4

\* The creations of a request leave the URRs of other PDRs alone.
LEMMA OthersRelated ==
    ASSUME NEW req, NEW p \in PDRID, p \notin IdsOf(req, {"Create"})
    PROVE  RelatedAfterCreate(req)[p] = related[p]
  BY IdsMembers DEF RelatedAfterCreate, PDRs

\* Once the creations are applied, refPdrNum counts the PDRs that refer to u.
LEMMA CountAfterCreate ==
    ASSUME IInv, ~taken, NEW req, Modest(req), NEW u \in URRID \cap Known(req)
    PROVE  /\ IsFiniteSet(Referring(req, u))
           /\ RefAfterCreate(req)[u] = Cardinality(Referring(req, u))
  <1> DEFINE A == {p \in PDRID \cap ids : u \in related[p]}
             C == {i \in PDRs(req, "Create") : u \in i.urrs}
             D == {i.id : i \in C}
  <1>1. req \subseteq IE /\ IsFiniteSet(req) /\ NoConflict(req)
    BY Requests DEF Modest
  <1>2. IsFiniteSet(C) /\ \A i, j \in C : i.id = j.id => i = j
    <2>1. C \subseteq req
      BY DEF PDRs
    <2>2. \A i, j \in C : i.id = j.id => i = j
      BY <1>1 DEF PDRs, NoConflict
    <2> QED
      BY <1>1, <2>1, <2>2, FS_Subset
  <1>3. IsFiniteSet(D) /\ Cardinality(D) = Cardinality(C)
    BY <1>2, IdsOfFinite
  <1>4. IsFiniteSet(A)
    BY FS_Subset DEF IInv
  <1>5. D \subseteq IdsOf(req, {"Create"}) /\ D \subseteq PDRID
    BY IdsMembers DEF PDRs, IdsOf
  <1>6. A \cap D = {}
    BY <1>5, NoLiberty
  <1>7. Referring(req, u) = A \cup D
    <2> SUFFICES ASSUME NEW p \in PDRID
                 PROVE  p \in Referring(req, u) <=> p \in A \/ p \in D
      BY <1>5 DEF Referring
    <2>1. CASE p \in IdsOf(req, {"Create"})
      <3>1. PICK i \in PDRs(req, "Create") : i.id = p
        BY <2>1 DEF IdsOf, PDRs
      <3>2. RelatedAfterCreate(req)[p] = i.urrs
        BY <1>1, <3>1, CreatedRelated
      <3>3. p \notin A
        BY <2>1, NoLiberty
      <3>4. \A j \in C : j.id = p => j = i
        BY <1>1, <3>1 DEF NoConflict, PDRs
      <3>5. p \in D <=> u \in i.urrs
        BY <3>1, <3>4
      <3>6. p \in Referring(req, u) <=> u \in i.urrs
        BY <2>1, <3>2 DEF Referring, Known
      <3> QED
        BY <3>3, <3>5, <3>6
    <2>2. CASE p \notin IdsOf(req, {"Create"})
      <3>1. RelatedAfterCreate(req)[p] = related[p]
        BY <2>2, OthersRelated
      <3>2. p \notin D
        BY <1>5, <2>2
      <3> QED
        BY <2>2, <3>1, <3>2 DEF Referring, Known
    <2> QED
      BY <2>1, <2>2
  <1>8. RefAfterCreate(req)[u] = Cardinality(A) + Cardinality(C)
    <2>1. RefAfterCreate(req)[u] =
            (IF u \in IdsOf(req, {"Create"}) THEN 0 ELSE ref[u]) + Cardinality(C)
      BY DEF RefAfterCreate
    <2>2. CASE u \in IdsOf(req, {"Create"})
      <3>1. u \notin ids
        BY <2>2, NoLiberty
      <3>2. A = {}
        BY <3>1 DEF IInv, RelatedKnown
      <3> QED
        BY <2>1, <2>2, <3>2, FS_EmptySet
    <2>3. CASE u \notin IdsOf(req, {"Create"})
      <3>1. u \in URRID \cap ids
        BY <2>3 DEF Known
      <3>2. ref[u] = Cardinality(A)
        BY <3>1 DEF IInv, RefCounts
      <3> QED
        BY <2>1, <2>3, <3>2
    <2> QED
      BY <2>2, <2>3
  <1> HIDE DEF A, C, D
  <1>9. Cardinality(A) \in Nat /\ Cardinality(D) \in Nat
    BY <1>3, <1>4, FS_CardinalityType
  <1>10. IsFiniteSet(A \cup D) /\ Cardinality(A \cup D) = Cardinality(A) + Cardinality(D)
    <2>1. IsFiniteSet(A \cup D)
          /\ Cardinality(A \cup D) = Cardinality(A) + Cardinality(D) - Cardinality(A \cap D)
      BY <1>3, <1>4, FS_Union
    <2>2. Cardinality(A \cap D) = 0
      BY <1>6, FS_EmptySet
    <2> QED
      BY <1>9, <2>1, <2>2
  <1> QED
    BY <1>3, <1>7, <1>8, <1>10

\* Each PDR that gives u up did refer to it, and does so by one IE.
LEMMA CountGivingUp ==
    ASSUME NEW req, Modest(req), NEW u \in URRID
    PROVE  /\ GivingUp(req, u) \subseteq Referring(req, u)
           /\ IsFiniteSet(Dissociations(req, u))
           /\ Cardinality(Dissociations(req, u)) = Cardinality(GivingUp(req, u))
  <1> DEFINE D == Dissociations(req, u)
  <1>1. req \subseteq IE /\ IsFiniteSet(req) /\ NoConflict(req)
    BY Requests DEF Modest
  <1>2. IsFiniteSet(D)
    <2>1. D \subseteq req
      BY DEF Dissociations, PDRs
    <2> QED
      BY <1>1, <2>1, FS_Subset
  <1>3. ASSUME NEW i \in D, NEW j \in D, i.id = j.id
        PROVE  i = j
    <2>1. /\ i \in PDRs(req, "Update") \cup PDRs(req, "Remove")
          /\ j \in PDRs(req, "Update") \cup PDRs(req, "Remove")
      BY DEF Dissociations
    <2>2. CASE i.op = "Update" /\ j.op = "Update"
      BY <1>3, <2>1, <2>2 DEF PDRs, Modest
    <2>3. CASE i.op = "Remove" /\ j.op = "Remove"
      <3>1. i \in IE /\ j \in IE /\ i.id \in PDRID /\ j.id \in PDRID
        BY <1>1, <2>1 DEF PDRs
      <3> QED
        BY <1>3, <2>3, <3>1, PDRIEs
    <2>4. CASE (i.op = "Update" /\ j.op = "Remove") \/ (i.op = "Remove" /\ j.op = "Update")
      <3>1. i \in req /\ j \in req
        BY <2>1 DEF PDRs
      <3>2. i.id \in IdsOf(req, {"Remove"}) /\ i.id \in IdsOf(req, {"Update", "Query"})
        BY <1>3, <2>4, <3>1, IdsMembers
      <3> QED
        BY <1>1, <3>2 DEF NoConflict
    <2> QED
      BY <2>1, <2>2, <2>3, <2>4 DEF PDRs
  <1>4. GivingUp(req, u) \subseteq Referring(req, u)
    BY DEF GivingUp, Referring, Dissociations, Known, PDRs
  <1>5. Cardinality(D) = Cardinality({i.id : i \in D})
    <2> HIDE DEF D
    <2> QED
      BY <1>2, <1>3, IdsOfFinite
  <1> QED
    BY <1>2, <1>4, <1>5 DEF GivingUp

\* The PDRs that refer to u after the request are those that referred to it and
\* did not give it up.
LEMMA ReferringAfter ==
    ASSUME NEW req, Modest(req), NEW u \in URRID
    PROVE  {p \in PDRID \cap IdsAfter(req) : u \in RelatedAfter(req)[p]}
             = Referring(req, u) \ GivingUp(req, u)
  <1> SUFFICES ASSUME NEW p \in PDRID
               PROVE  p \in IdsAfter(req) /\ u \in RelatedAfter(req)[p]
                        <=> p \in Referring(req, u) /\ p \notin GivingUp(req, u)
    BY DEF Referring
  <1>1. NoConflict(req)
    BY DEF Modest
  <1>2. CASE p \notin Known(req)
    BY <1>2 DEF Known, IdsAfter, Referring
  <1>3. CASE p \in IdsOf(req, {"Remove"})
    <2>1. PICK i \in req : i.op = "Remove" /\ i.id = p
      BY <1>3, IdsMembers
    <2>2. p \notin IdsAfter(req)
      BY <1>3 DEF IdsAfter
    <2>3. p \in Referring(req, u) => i \in Dissociations(req, u)
      BY <2>1 DEF Referring, Known, Dissociations, PDRs
    <2> QED
      BY <2>1, <2>2, <2>3 DEF GivingUp
  <1>4. CASE p \in Known(req) /\ p \notin IdsOf(req, {"Remove"})
    <2>1. p \in IdsAfter(req)
      BY <1>4 DEF Known, IdsAfter
    <2>2. p \in Referring(req, u) <=> u \in RelatedAfterCreate(req)[p]
      BY <1>4 DEF Referring
    <2>3. ASSUME NEW i \in Dissociations(req, u), i.id = p
          PROVE  i \in Updated(req, p) /\ u \notin i.urrs
      BY <1>4, <2>3, IdsMembers DEF Dissociations, PDRs, Updated
    <2>4. CASE Updated(req, p) = {}
      <3>1. RelatedAfter(req)[p] = RelatedAfterCreate(req)[p]
        BY <2>1, <2>4 DEF RelatedAfter
      <3>2. p \notin GivingUp(req, u)
        BY <2>3, <2>4 DEF GivingUp
      <3> QED
        BY <2>1, <2>2, <3>1, <3>2
    <2>5. CASE Updated(req, p) # {}
      <3> DEFINE i == CHOOSE j \in Updated(req, p) : TRUE
      <3>1. i \in Updated(req, p) /\ RelatedAfter(req)[p] = i.urrs
        BY <2>1, <2>5 DEF RelatedAfter
      <3> HIDE DEF i
      <3>2. \A j \in Updated(req, p) : j = i
        BY <3>1 DEF Updated, Modest
      <3>3. i \in PDRs(req, "Update") /\ i.id = p /\ i.op = "Update"
        BY <3>1 DEF Updated, PDRs
      <3>4. i.urrs \subseteq RelatedAfterCreate(req)[p]
        BY <3>3, NoLiberty
      <3>5. p \in GivingUp(req, u) => u \notin i.urrs
        BY <2>3, <3>2 DEF GivingUp
      <3>6. u \in RelatedAfterCreate(req)[p] /\ u \notin i.urrs => i \in Dissociations(req, u)
        BY <1>4, <3>3 DEF Dissociations, Known
      <3>7. u \in RelatedAfterCreate(req)[p] /\ u \notin i.urrs => p \in GivingUp(req, u)
        BY <3>3, <3>6 DEF GivingUp
      <3> QED
        BY <2>1, <2>2, <3>1, <3>4, <3>5, <3>7
    <2> QED
      BY <2>4, <2>5
  <1> QED
    BY <1>2, <1>3, <1>4

-----------------------------------------------------------------------------
(* Phase 3 as a whole. *)

\* What the Apply* calls leave, for any request.
LEMMA Applied ==
    ASSUME IInv, NEW req \in Request, Apply(req)
    PROVE  /\ ids' = IdsAfter(req) /\ ids' \subseteq ID /\ IsFiniteSet(ids')
           /\ related' = RelatedAfter(req) /\ related' \in [PDRID -> SUBSET URRID]
           /\ ref' \in [URRID -> Nat] /\ asked' \subseteq URRID
           /\ \A p \in PDRID \ ids' : related'[p] = {}
  <1>1. ids' = IdsAfter(req) /\ related' = RelatedAfter(req) /\ asked' = Asked(req)
    BY DEF Apply, RelatedAfter, Updated
  <1>2. req \subseteq IE /\ IsFiniteSet(req)
    BY Requests
  <1>3. \A i \in req : i.id \in ID
    BY <1>2 DEF IE, ID
  <1>4. IdsOf(req, {"Create"}) \subseteq ID /\ IsFiniteSet(IdsOf(req, {"Create"}))
    <2> DEFINE S == {j \in req : j.op \in {"Create"}}
    <2>1. IsFiniteSet(S)
      BY <1>2, FS_Subset
    <2>2. IsFiniteSet({i.id : i \in S})
      <3> HIDE DEF S
      <3> QED
        BY <2>1, IdsOfFinite
    <2> QED
      BY <1>3, <2>2 DEF IdsOf
  <1>5. ids' \subseteq ID /\ IsFiniteSet(ids')
    <2>1. IsFiniteSet(ids \cup IdsOf(req, {"Create"}))
      BY <1>4, FS_Union DEF IInv
    <2>2. ids' \subseteq ids \cup IdsOf(req, {"Create"})
      BY <1>1 DEF IdsAfter
    <2>3. ids \subseteq ID
      BY DEF IInv, TypeOK
    <2> QED
      BY <1>4, <2>1, <2>2, <2>3, FS_Subset
  <1>6. \A i \in PDRs(req, "Create") \cup PDRs(req, "Update") : i.urrs \subseteq URRID
    BY <1>2, PDRIEs DEF PDRs
  <1>7. \A p \in PDRID : RelatedAfterCreate(req)[p] \subseteq URRID
    <2> SUFFICES ASSUME NEW p \in PDRID PROVE RelatedAfterCreate(req)[p] \subseteq URRID
      OBVIOUS
    <2>1. CASE \E i \in PDRs(req, "Create") : i.id = p
      <3> DEFINE i == CHOOSE j \in PDRs(req, "Create") : j.id = p
      <3>1. i \in PDRs(req, "Create") /\ RelatedAfterCreate(req)[p] = i.urrs
        BY <2>1 DEF RelatedAfterCreate
      <3> HIDE DEF i
      <3> QED
        BY <1>6, <3>1
    <2>2. CASE ~\E i \in PDRs(req, "Create") : i.id = p
      BY <2>2 DEF RelatedAfterCreate, IInv, TypeOK
    <2> QED
      BY <2>1, <2>2
  <1>8. \A p \in PDRID : RelatedAfter(req)[p] \subseteq URRID
    <2> SUFFICES ASSUME NEW p \in PDRID PROVE RelatedAfter(req)[p] \subseteq URRID
      OBVIOUS
    <2>1. CASE Updated(req, p) # {}
      <3> DEFINE i == CHOOSE j \in Updated(req, p) : TRUE
      <3>1. i \in Updated(req, p) /\ (RelatedAfter(req)[p] = {} \/ RelatedAfter(req)[p] = i.urrs)
        BY <2>1 DEF RelatedAfter
      <3> HIDE DEF i
      <3> QED
        BY <1>6, <3>1 DEF Updated
    <2>2. CASE Updated(req, p) = {}
      BY <1>7, <2>2 DEF RelatedAfter
    <2> QED
      BY <2>1, <2>2
  <1>9. related' \in [PDRID -> SUBSET URRID] /\ \A p \in PDRID \ ids' : related'[p] = {}
    BY <1>1, <1>8 DEF RelatedAfter
  <1>10. ASSUME NEW u \in URRID
         PROVE  Minus(RefAfterCreate(req)[u], Cardinality(Dissociations(req, u))) \in Nat
    <2> DEFINE C == {i \in PDRs(req, "Create") : u \in i.urrs}
    <2>1. C \subseteq req /\ Dissociations(req, u) \subseteq req
      BY DEF PDRs, Dissociations
    <2>2. Cardinality(C) \in Nat /\ Cardinality(Dissociations(req, u)) \in Nat
      BY <1>2, <2>1, FS_Subset, FS_CardinalityType
    <2>3. RefAfterCreate(req)[u] = (IF u \in IdsOf(req, {"Create"}) THEN 0 ELSE ref[u]) + Cardinality(C)
      BY DEF RefAfterCreate
    <2>4. ref[u] \in Nat
      BY DEF IInv, TypeOK
    <2>5. RefAfterCreate(req)[u] \in Nat
      BY <2>2, <2>3, <2>4
    <2> QED
      BY <2>2, <2>5 DEF Minus
  <1>11. ref' \in [URRID -> Nat]
    BY <1>10 DEF Apply
  <1>12. asked' \subseteq URRID
    BY <1>1 DEF Asked
  <1> QED
    BY <1>1, <1>5, <1>9, <1>11, <1>12

\* A request that takes no liberty leaves every PDR related to URRs of the
\* session and every count right, and queries a URR exactly when it loses its
\* last PDR.
LEMMA ModestApplied ==
    ASSUME IInv, ~taken, NEW req, Modest(req), Apply(req)
    PROVE  /\ \A p \in PDRID : related'[p] \subseteq ids'
           /\ \A u \in URRID \cap ids' :
                ref'[u] = Cardinality({p \in PDRID \cap ids' : u \in related'[p]})
           /\ \A u \in URRID \cap Known(req) :
                u \in asked' <=> /\ Referring(req, u) # {}
                                 /\ Referring(req, u) \subseteq GivingUp(req, u)
  <1>1. /\ ids' = IdsAfter(req) /\ related' = RelatedAfter(req) /\ asked' = Asked(req)
        /\ related' \in [PDRID -> SUBSET URRID] /\ \A p \in PDRID \ ids' : related'[p] = {}
    BY Applied DEF Modest, Apply
  <1>2. ASSUME NEW p \in PDRID, NEW u \in related'[p]
        PROVE  u \in ids'
    <2>1. u \in URRID /\ p \in IdsAfter(req) /\ u \in RelatedAfter(req)[p]
      BY <1>1, <1>2
    <2>2. p \in Referring(req, u) /\ p \notin GivingUp(req, u)
      BY <2>1, ReferringAfter
    <2>3. p \in Known(req) /\ u \in RelatedAfterCreate(req)[p]
      BY <2>2 DEF Referring
    <2>4. u \in Known(req)
      <3>1. CASE p \in IdsOf(req, {"Create"})
        <4>1. PICK i \in PDRs(req, "Create") : i.id = p
          BY <3>1 DEF IdsOf, PDRs
        <4>2. u \in i.urrs
          BY <2>3, <4>1, CreatedRelated DEF Modest
        <4> QED
          BY <4>1, <4>2 DEF Modest, URRsKnown, PDRs, Known
      <3>2. CASE p \notin IdsOf(req, {"Create"})
        <4>1. u \in related[p]
          BY <2>3, <3>2, OthersRelated
        <4> QED
          BY <4>1 DEF IInv, RelatedKnown, Known
      <3> QED
        BY <3>1, <3>2
    <2>5. u \notin IdsOf(req, {"Remove"})
      <3> SUFFICES ASSUME u \in IdsOf(req, {"Remove"}) PROVE FALSE
        OBVIOUS
      <3>1. PICK i \in PDRs(req, "Update") : i.id = p /\ u \notin i.urrs
        BY <2>1, <2>3, NoLiberty
      <3>2. i \in Dissociations(req, u)
        BY <2>3, <3>1 DEF Dissociations, Known
      <3> QED
        BY <2>2, <3>1, <3>2 DEF GivingUp
    <2> QED
      BY <1>1, <2>4, <2>5 DEF Known, IdsAfter
  <1>3. ASSUME NEW u \in URRID \cap Known(req)
        PROVE  /\ IsFiniteSet(Referring(req, u))
               /\ Cardinality(Referring(req, u)) \in Nat /\ Cardinality(GivingUp(req, u)) \in Nat
               /\ RefAfterCreate(req)[u] = Cardinality(Referring(req, u))
               /\ Cardinality(Dissociations(req, u)) = Cardinality(GivingUp(req, u))
               /\ GivingUp(req, u) \subseteq Referring(req, u)
               /\ Cardinality(GivingUp(req, u)) <= Cardinality(Referring(req, u))
    <2>1. IsFiniteSet(Referring(req, u)) /\ RefAfterCreate(req)[u] = Cardinality(Referring(req, u))
      BY CountAfterCreate
    <2>2. /\ Cardinality(Dissociations(req, u)) = Cardinality(GivingUp(req, u))
          /\ GivingUp(req, u) \subseteq Referring(req, u)
      BY CountGivingUp
    <2>3. IsFiniteSet(GivingUp(req, u)) /\ Cardinality(GivingUp(req, u)) <= Cardinality(Referring(req, u))
      BY <2>1, <2>2, FS_Subset
    <2> QED
      BY <2>1, <2>2, <2>3, FS_CardinalityType
  <1>4. ASSUME NEW u \in URRID \cap ids'
        PROVE  ref'[u] = Cardinality({p \in PDRID \cap ids' : u \in related'[p]})
    <2> DEFINE R == Referring(req, u)
               G == GivingUp(req, u)
    <2>1. u \in URRID \cap Known(req)
      BY <1>1 DEF IdsAfter, Known
    <2>2. ref'[u] = Minus(RefAfterCreate(req)[u], Cardinality(Dissociations(req, u)))
      BY <1>1 DEF Apply
    <2>3. {p \in PDRID \cap ids' : u \in related'[p]} = R \ G
      BY <1>1, ReferringAfter
    <2>4. /\ IsFiniteSet(R) /\ G \subseteq R /\ Cardinality(G) <= Cardinality(R)
          /\ Cardinality(R) \in Nat /\ Cardinality(G) \in Nat
          /\ ref'[u] = Minus(Cardinality(R), Cardinality(G))
      BY <1>3, <2>1, <2>2
    <2> HIDE DEF R, G
    <2>5. R \cap G = G
      BY <2>4
    <2>6. Cardinality(R \ G) = Cardinality(R) - Cardinality(G)
      BY <2>4, <2>5, FS_Difference
    <2>7. Minus(Cardinality(R), Cardinality(G)) = Cardinality(R) - Cardinality(G)
      BY <2>4 DEF Minus
    <2> QED
      BY <2>3, <2>4, <2>6, <2>7
  <1>5. ASSUME NEW u \in URRID \cap Known(req)
        PROVE  u \in asked' <=> /\ Referring(req, u) # {}
                                /\ Referring(req, u) \subseteq GivingUp(req, u)
    <2> DEFINE R == Referring(req, u)
               G == GivingUp(req, u)
    <2>1. u \in asked' <=> Cardinality(R) > 0 /\ Cardinality(G) >= Cardinality(R)
      BY <1>1, <1>3 DEF Asked, Known
    <2>2. /\ IsFiniteSet(R) /\ G \subseteq R /\ Cardinality(G) <= Cardinality(R)
          /\ Cardinality(R) \in Nat /\ Cardinality(G) \in Nat
      BY <1>3
    <2> HIDE DEF R, G
    <2>3. Cardinality(R) > 0 <=> R # {}
      BY <2>2, FS_EmptySet
    <2>4. Cardinality(G) >= Cardinality(R) <=> Cardinality(R) = Cardinality(G)
      BY <2>2
    <2>5. Cardinality(R) = Cardinality(G) <=> R = G
      BY <2>2, FS_Subset
    <2>6. u \in asked' <=> R # {} /\ R \subseteq G
      BY <2>1, <2>2, <2>3, <2>4, <2>5
    <2> QED
      BY <2>6 DEF R, G
  <1> QED
    BY <1>2, <1>4, <1>5

-----------------------------------------------------------------------------
(* The handlers. *)

\* The initial state satisfies the invariant.
LEMMA InitIInv == Init => IInv
  <1> SUFFICES ASSUME Init PROVE IInv
    OBVIOUS
  <1>1. TypeOK
    BY DEF Init, TypeOK
  <1>2. IsFiniteSet(ids) /\ ids = {} /\ ~taken
    BY FS_EmptySet DEF Init
  <1>3. RelatedKnown /\ RefCounts /\ KernelCovered
    BY DEF Init, RelatedKnown, RefCounts, KernelCovered
  <1> QED
    BY <1>1, <1>2, <1>3 DEF IInv

\* The establishment and the modification of an SMF that takes no liberty.
LEMMA ModestSteps ==
    ASSUME IInv, NEW req \in Request,
           \/ req \in CreateRequest /\ Establish(req)
           \/ ~taken' /\ \E bad : Modify(req, bad)
    PROVE  Modest(req) /\ ~taken /\ Apply(req)
  <1>1. CASE req \in CreateRequest /\ Establish(req)
    <2>1. ids = {} /\ ~taken /\ URRsKnown(req) /\ NoConflict(req) /\ Apply(req)
      BY <1>1 DEF Establish, IInv
    <2>2. PDRs(req, "Update") = {} /\ IdsOf(req, {"Remove"}) = {}
      BY <1>1 DEF CreateRequest, PDRs, IdsOf
    <2>3. Taken(req) = {}
      BY <2>1, <2>2 DEF Taken
    <2> QED
      BY <2>1, <2>2, <2>3 DEF Modest
  <1>2. CASE ~taken' /\ \E bad : Modify(req, bad)
    BY <1>2 DEF Modify, Modest, SMFSends, Valid
  <1> QED
    BY <1>1, <1>2

\* The session part of the invariant after phase 3.
LEMMA ApplyIInv ==
    ASSUME IInv, NEW req \in Request, Apply(req), est', TypeOK', KernelCovered',
           ~taken' => Modest(req) /\ ~taken
    PROVE  IInv'
  <1>1. IsFiniteSet(ids') /\ \A p \in PDRID \ ids' : related'[p] = {}
    BY Applied
  <1>2. ~taken' => /\ \A p \in PDRID : related'[p] \subseteq ids'
                   /\ \A u \in URRID \cap ids' :
                        ref'[u] = Cardinality({p \in PDRID \cap ids' : u \in related'[p]})
    BY ModestApplied
  <1> QED
    BY <1>1, <1>2 DEF IInv, RelatedKnown, RefCounts

\* An establishment that succeeds keeps the invariant.
LEMMA EstablishIInv ==
    ASSUME IInv, NEW req \in CreateRequest, Establish(req)
    PROVE  IInv'
  <1>1. req \in Request
    BY DEF CreateRequest
  <1>2. Modest(req) /\ ~taken /\ Apply(req)
    BY <1>1, ModestSteps
  <1>3. ids = {} /\ est' /\ kernel' = kernel \cup IdsOf(req, {"Create"}) /\ UNCHANGED <<failed, taken>>
    BY DEF Establish, IInv
  <1>4. IdsOf(req, {"Remove"}) = {}
    BY DEF CreateRequest, IdsOf
  <1>5. ids' = IdsOf(req, {"Create"}) /\ ids' \subseteq ID
    BY <1>1, <1>2, <1>3, <1>4, Applied DEF IdsAfter
  <1>6. KernelCovered'
    BY <1>3, <1>5 DEF IInv, KernelCovered
  <1>7. TypeOK'
    BY <1>1, <1>2, <1>3, <1>5, Applied DEF IInv, TypeOK, Establish
  <1> QED
    BY <1>1, <1>2, <1>3, <1>6, <1>7, ApplyIInv

\* What executing the creations and removals that the kernel accepts leaves there.
LEMMA ModifyKernel ==
    ASSUME IInv, NEW req \in Request, NEW bad \in SUBSET req, Modify(req, bad)
    PROVE  kernel' \subseteq ID /\ failed' \subseteq {"create", "remove"} /\ KernelCovered'
  <1>1. kernel' = (kernel \cup IdsOf(req \ bad, {"Create"})) \ IdsOf(req \ bad, {"Remove"})
    BY DEF Modify, Executed
  <1>2. IdsOf(req \ bad, {"Create"}) \subseteq IdsOf(req, {"Create"})
    BY DEF IdsOf
  <1>3. ids' = IdsAfter(req) /\ Apply(req)
    BY Applied DEF Modify
  <1>4. IdsOf(req, {"Create"}) \subseteq ID
    <2>1. req \subseteq IE
      BY Requests
    <2> QED
      BY <2>1 DEF IdsOf, IE, ID
  <1>5. failed' \subseteq {"create", "remove"} /\ failed \subseteq failed'
    BY DEF Modify, IInv, TypeOK
  <1>6. KernelCovered'
    <2> SUFFICES ASSUME "remove" \notin failed' PROVE kernel' \subseteq ids'
      BY DEF KernelCovered
    <2>1. IdsOf(bad, {"Remove"}) = {} /\ kernel \subseteq ids
      BY <1>5 DEF Modify, IInv, KernelCovered
    <2>2. IdsOf(req, {"Remove"}) \subseteq IdsOf(req \ bad, {"Remove"})
      BY <2>1 DEF IdsOf
    <2> QED
      BY <1>1, <1>2, <1>3, <2>1, <2>2 DEF IdsAfter
  <1>7. kernel \subseteq ID
    BY DEF IInv, TypeOK
  <1> QED
    BY <1>1, <1>2, <1>4, <1>5, <1>6, <1>7

\* A modification keeps the invariant, whatever the kernel refuses.
LEMMA ModifyIInv ==
    ASSUME IInv, NEW req \in Request, NEW bad \in SUBSET req, Modify(req, bad)
    PROVE  IInv'
  <1>1. est' /\ taken' = (taken \/ Taken(req) # {}) /\ Apply(req)
    BY DEF Modify
  <1>2. est' \in BOOLEAN /\ taken' \in BOOLEAN
    BY <1>1 DEF Modify, IInv, TypeOK
  <1>3. TypeOK'
    BY <1>1, <1>2, Applied, ModifyKernel DEF TypeOK
  <1>4. ~taken' => Modest(req) /\ ~taken
    BY ModestSteps
  <1> QED
    BY <1>1, <1>3, <1>4, ApplyIInv, ModifyKernel

\* A session that is gone is empty.
LEMMA GoneIInv ==
    ASSUME IInv, Empty, asked' = {}, kernel' \subseteq ID, failed' \subseteq {"create", "remove"},
           "remove" \in failed' \/ kernel' = {}
    PROVE  IInv'
  <1>1. TypeOK'
    BY DEF Empty, TypeOK
  <1>2. IsFiniteSet(ids') /\ ids' = {} /\ ~taken'
    BY FS_EmptySet DEF Empty
  <1>3. RelatedKnown' /\ RefCounts' /\ KernelCovered'
    BY DEF Empty, RelatedKnown, RefCounts, KernelCovered
  <1> QED
    BY <1>1, <1>2, <1>3 DEF IInv

\* An establishment that fails keeps the invariant.
LEMMA EstablishFailsIInv ==
    ASSUME IInv, NEW req \in CreateRequest, EstablishFails(req)
    PROVE  IInv'
  <1>1. PICK done \in Started(req) : kernel' = kernel \cup IdsOf(done, {"Create"})
    BY DEF EstablishFails
  <1>2. req \subseteq IE
    BY Requests DEF CreateRequest
  <1>3. IdsOf(done, {"Create"}) \subseteq ID
    BY <1>1, <1>2 DEF Started, IdsOf, IE, ID
  <1>4. kernel' \subseteq ID /\ failed' \subseteq {"create", "remove"}
    BY <1>1, <1>3 DEF IInv, TypeOK, EstablishFails
  <1> QED
    BY <1>4, GoneIInv DEF EstablishFails

\* Closing the session keeps the invariant.
LEMMA CloseIInv ==
    ASSUME IInv, NEW bad \in SUBSET ids, Close(bad)
    PROVE  IInv'
  <1>1. kernel' = kernel \ (ids \ bad) /\ failed' = IF bad = {} THEN failed ELSE failed \cup {"remove"}
    BY DEF Close
  <1>2. kernel' \subseteq ID /\ failed' \subseteq {"create", "remove"}
    BY <1>1 DEF IInv, TypeOK
  <1>3. "remove" \in failed' \/ kernel' = {}
    BY <1>1 DEF IInv, KernelCovered
  <1> QED
    BY <1>2, <1>3, GoneIInv DEF Close

\* Every step keeps the invariant.
LEMMA NextIInv == IInv /\ [Next]_vars => IInv'
  <1> SUFFICES ASSUME IInv, [Next]_vars PROVE IInv'
    OBVIOUS
  <1>1. CASE \E req \in CreateRequest : Establish(req) \/ EstablishFails(req)
    BY <1>1, EstablishIInv, EstablishFailsIInv
  <1>2. ASSUME NEW req \in Request, NEW bad \in SUBSET {i \in req : i.op \in {"Create", "Remove"}},
               Modify(req, bad)
        PROVE  IInv'
    BY <1>2, ModifyIInv
  <1>3. CASE \E req \in Request : Reject(req)
    BY <1>3 DEF Reject, IInv, TypeOK, RelatedKnown, RefCounts, KernelCovered
  <1>4. CASE \E bad \in SUBSET ids : Close(bad)
    BY <1>4, CloseIInv
  <1>5. CASE UNCHANGED vars
    BY <1>5 DEF vars, IInv, TypeOK, RelatedKnown, RefCounts, KernelCovered
  <1> QED
    BY <1>1, <1>2, <1>3, <1>4, <1>5 DEF Next

-----------------------------------------------------------------------------
(* The theorems. *)

\* The invariant holds throughout every behaviour.
THEOREM Invariance == Spec => []IInv
  BY InitIInv, NextIInv, PTL DEF Spec

\* As long as no removal and no establishment failed in the kernel, every rule of
\* the session's SEID there is one its id maps name, so that Close removes it,
\* whatever creations and updates failed (handleSessionModificationRequest).
THEOREM DeletionReachesAll == Spec => []KernelCovered
  <1>1. IInv => KernelCovered
    BY DEF IInv
  <1> QED
    BY <1>1, Invariance, PTL

\* refPdrNum is the number of PDRs that refer to the URR in a session in which the
\* SMF takes no liberty, for any number of PDRs and URRs and any requests
\* (ApplyCreatePDR, ApplyUpdatePDR, ApplyRemovePDR, diassociateURR).
THEOREM CountsAreRight == Spec => []RefCounts
  <1>1. IInv => RefCounts
    BY DEF IInv
  <1> QED
    BY <1>1, Invariance, PTL

\* A URR that stays is queried for its usage when it loses its last PDR, and
\* never while a PDR refers to it (diassociateURR).
THEOREM LastPDRIsReported == Spec => LastPDRReported
  <1> DEFINE Reported ==
               est /\ est' /\ ~taken' =>
                 /\ LastPDROnly'
                 /\ \A u \in URRID \cap ids \cap ids' :
                      /\ \E p \in PDRID \cap ids : u \in related[p]
                      /\ \A p \in PDRID \cap ids' : u \notin related'[p]
                      => u \in asked'
  <1>1. IInv /\ [Next]_vars => [Reported]_vars
    <2> SUFFICES ASSUME IInv, Next, est, est', ~taken'
                 PROVE  /\ LastPDROnly'
                        /\ \A u \in URRID \cap ids \cap ids' :
                             /\ \E p \in PDRID \cap ids : u \in related[p]
                             /\ \A p \in PDRID \cap ids' : u \notin related'[p]
                             => u \in asked'
      OBVIOUS
    <2>1. ASSUME NEW req \in Request, NEW bad \in SUBSET req, Modify(req, bad)
          PROVE  /\ LastPDROnly'
                 /\ \A u \in URRID \cap ids \cap ids' :
                      /\ \E p \in PDRID \cap ids : u \in related[p]
                      /\ \A p \in PDRID \cap ids' : u \notin related'[p]
                      => u \in asked'
      <3>1. Modest(req) /\ ~taken /\ Apply(req)
        BY <2>1, ModestSteps
      <3>2. ids' = IdsAfter(req) /\ related' = RelatedAfter(req) /\ asked' = Asked(req)
        BY <3>1, Applied DEF Apply
      <3>3. \A u \in URRID \cap Known(req) :
              u \in asked' <=> /\ Referring(req, u) # {}
                               /\ Referring(req, u) \subseteq GivingUp(req, u)
        BY <3>1, ModestApplied
      <3>4. \A u \in URRID : {p \in PDRID \cap ids' : u \in related'[p]}
                               = Referring(req, u) \ GivingUp(req, u)
        BY <3>1, <3>2, ReferringAfter
      <3>5. LastPDROnly'
        <4> SUFFICES ASSUME NEW u \in asked', NEW p \in PDRID \cap ids', u \in related'[p]
                     PROVE  FALSE
          BY DEF LastPDROnly
        <4>1. u \in URRID \cap Known(req)
          BY <3>2 DEF Asked, Known
        <4>2. p \in Referring(req, u) \ GivingUp(req, u)
          BY <3>4, <4>1
        <4> QED
          BY <3>3, <4>1, <4>2
      <3>6. ASSUME NEW u \in URRID \cap ids \cap ids', NEW p \in PDRID \cap ids, u \in related[p],
                   \A q \in PDRID \cap ids' : u \notin related'[q]
            PROVE  u \in asked'
        <4>1. u \in URRID \cap Known(req)
          BY DEF Known
        <4>2. p \in Referring(req, u)
          <5>1. p \notin IdsOf(req, {"Create"})
            BY <3>1, NoLiberty
          <5>2. RelatedAfterCreate(req)[p] = related[p]
            BY <5>1, OthersRelated
          <5> QED
            BY <3>6, <5>2 DEF Referring, Known
        <4>3. Referring(req, u) \ GivingUp(req, u) = {}
          BY <3>4, <3>6
        <4> QED
          BY <3>3, <4>1, <4>2, <4>3
      <3> QED
        BY <3>5, <3>6
    <2>2. CASE \E req \in Request : Reject(req)
      BY <2>2 DEF Reject, LastPDROnly
    <2>3. ~\E req \in CreateRequest : Establish(req) \/ EstablishFails(req)
      BY DEF Establish, EstablishFails
    <2>4. ~\E bad \in SUBSET ids : Close(bad)
      BY DEF Close, Empty
    <2> QED
      BY <2>1, <2>2, <2>3, <2>4 DEF Next
  <1> HIDE DEF Reported
  <1>2. Spec => [][Reported]_vars
    BY <1>1, Invariance, PTL DEF Spec
  <1> QED
    BY <1>2 DEF LastPDRReported, Reported
=============================================================================

--------------------------- MODULE LazyReusePool ----------------------------
(***************************************************************************)
(* The address pool of the SMF (NFs/smf/internal/context/pool/             *)
(* lazyReusePool.go): a list of segments of free values.  Allocate, Use    *)
(* and Free run under the pool's mutex; one action is one call.  Reserve   *)
(* takes no lock and is called only while the configuration is read        *)
(* (user_plane_information.go), so it is part of the initial state.        *)
(***************************************************************************)
EXTENDS Integers, Sequences, SequencesExt, FiniteSets

CONSTANTS
    MinAddr, MaxAddr,   \* bounds of the pool
    FreeTwice      \* TRUE: callers may free a value that is free already

ASSUME PoolAssumption == MinAddr \in Nat /\ MaxAddr \in Nat /\ MinAddr <= MaxAddr

Value == MinAddr .. MaxAddr
Segment == [first : Value, last : Value]
Seg(f, l) == [first |-> f, last |-> l]
Answer(op, v, ok) == [op |-> op, value |-> v, ok |-> ok]

VARIABLES
    segs,      \* the list from head on
    remain,    \* remain
    inUse,     \* history: values handed out and not freed
    reserved,  \* history: values taken out of the pool at configuration
    res,       \* the last call and its answer
    lastFreed  \* history: the value freed last, until a value is taken

vars == <<segs, remain, inUse, reserved, res, lastFreed>>

FreeIn(s) == UNION {s[k].first .. s[k].last : k \in DOMAIN s}
free == FreeIn(segs)

\* The list and the counter stay in range; no segment is empty.
TypeOK ==
    /\ segs \in Seq(Segment)
    /\ \A k \in DOMAIN segs : segs[k].first <= segs[k].last
    /\ remain \in 0 .. MaxAddr - MinAddr + 1
    /\ inUse \subseteq Value /\ reserved \subseteq Value
    /\ lastFreed \in Value \cup {MinAddr - 1}

-----------------------------------------------------------------------------
(* relativePosisionOf, split, extendLast.                                  *)

Within(g, v) == v \in g.first .. g.last
After(g, v) == v > g.last + 1

ExtendLast(s, k) ==
    IF k < Len(s) /\ s[k].last + 2 = s[k + 1].first
    THEN RemoveAt([s EXCEPT ![k].last = s[k + 1].last], k + 1)
    ELSE [s EXCEPT ![k].last = @ + 1]

\* What is left of a segment without v: no segment, one, or two.
Split(g, v) ==
    SelectSeq(<<Seg(g.first, v - 1), Seg(v + 1, g.last)>>,
              LAMBDA h : h.first <= h.last)

Replace(s, k, new) == SubSeq(s, 1, k - 1) \o new \o SubSeq(s, k + 1, Len(s))

\* The first segment from index k on that v does not lie after, or Len(s) + 1.
Stops(s, k, v) ==
    CHOOSE j \in k .. Len(s) + 1 :
        /\ \A i \in k .. j - 1 : After(s[i], v)
        /\ j <= Len(s) => ~After(s[j], v)

-----------------------------------------------------------------------------
(* Reserve, and the pools the configuration builds with it.                *)

Cut(g, f, l) ==
    SelectSeq(<<Seg(g.first, IF g.last < f THEN g.last ELSE f - 1),
                Seg(IF g.first > l THEN g.first ELSE l + 1, g.last)>>,
              LAMBDA h : h.first <= h.last)

\* What Reserve takes off remain for a segment, case by case.
Removed(g, f, l) ==
    CASE g.first >= f /\ g.first <= l /\ g.last > l -> l - g.first + 1
      [] g.first < f /\ g.last >= f /\ g.last <= l  -> g.last - f + 1
      [] g.first < f /\ g.last > l                  -> l - f + 1
      [] g.first >= f /\ g.last <= l                -> g.last - g.first + 1
      [] OTHER                                      -> 0

Reserve(p, f, l) ==
    [segs   |-> FlattenSeq([k \in DOMAIN p.segs |->
                  IF p.segs[k].last < f \/ p.segs[k].first > l
                  THEN <<p.segs[k]>> ELSE Cut(p.segs[k], f, l)]),
     remain |-> FoldLeft(LAMBDA n, g : n - Removed(g, f, l), p.remain, p.segs)]

New == [segs |-> <<Seg(MinAddr, MaxAddr)>>, remain |-> MaxAddr - MinAddr + 1]

\* A static pool as it is made; a dynamic pool without a static range that the
\* configuration excludes, and without its first and last address.
Configured ==
    LET NoEnds(p) == IF MinAddr = MaxAddr THEN p
                     ELSE Reserve(Reserve(p, MinAddr, MinAddr), MaxAddr, MaxAddr)
    IN  {New, NoEnds(New)} \cup
        {NoEnds(Reserve(New, r[1], r[2])) :
           r \in {q \in Value \X Value : q[1] <= q[2]}}

Init ==
    /\ \E p \in Configured : segs = p.segs /\ remain = p.remain
    /\ inUse = {} /\ reserved = Value \ free
    /\ res = Answer("none", 0, FALSE) /\ lastFreed = MinAddr - 1

-----------------------------------------------------------------------------
Allocate ==
    /\ IF segs = <<>>
       THEN res' = Answer("Allocate", 0, FALSE) /\ UNCHANGED <<segs, remain, inUse>>
       ELSE LET v == segs[1].first
            IN  /\ segs' = Split(segs[1], v) \o Tail(segs)
                /\ remain' = remain - 1
                /\ inUse' = inUse \cup {v}
                /\ res' = Answer("Allocate", v, TRUE)
    /\ lastFreed' = MinAddr - 1
    /\ UNCHANGED reserved

Use(v) ==
    /\ \/ \E k \in DOMAIN segs :
            /\ Within(segs[k], v) /\ \A j \in 1 .. k - 1 : ~Within(segs[j], v)
            /\ segs' = Replace(segs, k, Split(segs[k], v))
            /\ remain' = remain - 1
            /\ inUse' = inUse \cup {v}
            /\ res' = Answer("Use", v, TRUE)
       \/ /\ \A k \in DOMAIN segs : ~Within(segs[k], v)
          /\ res' = Answer("Use", v, FALSE)
          /\ UNCHANGED <<segs, remain, inUse>>
    /\ lastFreed' = MinAddr - 1
    /\ UNCHANGED reserved

\* Mutated: a value is given back to the front of the list.
AcceptFirst(s, v) ==
    /\ segs' = <<Seg(v, v)>> \o segs
    /\ remain' = remain + 1
    /\ inUse' = inUse \ {v}
    /\ lastFreed' = v
    /\ res' = Answer("Free", v, TRUE)

\* Mutated: the counter is not kept.
AcceptUncounted(s, v) ==
    /\ segs' = s
    /\ inUse' = inUse \ {v}
    /\ lastFreed' = v
    /\ res' = Answer("Free", v, TRUE)
    /\ UNCHANGED remain

Accept(s, v) ==
    /\ segs' = s
    /\ remain' = remain + 1
    /\ inUse' = inUse \ {v}
    /\ lastFreed' = v
    /\ res' = Answer("Free", v, TRUE)

\* The segment behind the head at which the search of Free ends.
Slot(v) == Stops(segs, 2, v)

\* Mutated: the value in front of a segment counts as within it.
RefusedNear(v) ==
    \/ v \notin Value
    \/ \E k \in DOMAIN segs : v \in segs[k].first - 1 .. segs[k].last

\* The cases in which Free answers false.
Refused(v) ==
    \/ v \notin Value
    \/ segs # <<>> /\ Within(segs[1], v)
    \/ /\ segs # <<>> /\ v # segs[1].last + 1
       /\ Slot(v) <= Len(segs) /\ Within(segs[Slot(v)], v)

FreedInto(j, v) ==
    CASE segs = <<>>              -> <<Seg(v, v)>>
      [] v = segs[1].last + 1     -> ExtendLast(segs, 1)
      [] j > Len(segs)            -> Append(segs, Seg(v, v))
      [] v < segs[j].first - 1    -> InsertAt(segs, j, Seg(v, v))
      [] v = segs[j].first - 1    -> [segs EXCEPT ![j].first = v]
      [] v = segs[j].last + 1     -> ExtendLast(segs, j)

Free(v) ==
    /\ \/ /\ Refused(v)
          /\ res' = Answer("Free", v, FALSE)
          /\ UNCHANGED <<segs, remain, inUse, lastFreed>>
       \/ ~Refused(v) /\ Accept(FreedInto(Slot(v), v), v)
    /\ UNCHANGED reserved

\* Callers free addresses of their sessions, or a stray one outside the pool.
Freeable == inUse \cup {MinAddr - 1, MaxAddr + 1} \cup (IF FreeTwice THEN free ELSE {})

Next ==
    \/ Allocate
    \/ \E v \in MinAddr - 1 .. MaxAddr + 1 : Use(v)
    \/ \E v \in Freeable : Free(v)

Spec == Init /\ [][Next]_vars

-----------------------------------------------------------------------------
(* Properties.                                                             *)

\* Every value of the pool is in exactly one place: in one segment, held by a
\* session, or reserved; and remain counts the first (all operations).
Partition ==
    /\ free \cup inUse \cup reserved = Value
    /\ free \cap inUse = {} /\ free \cap reserved = {} /\ inUse \cap reserved = {}
    /\ remain = Cardinality(free)
    /\ \A i, j \in DOMAIN segs :
         i # j => segs[i].first .. segs[i].last \cap segs[j].first .. segs[j].last = {}

\* A value freed by the call before is not the one handed out, unless it is the only
\* free value left: it went behind the head of the list (Free, Allocate).
LazyReuse ==
    [][res'.op = "Allocate" /\ res'.ok /\ res'.value = lastFreed
         => free = {lastFreed}]_vars

\* The refinement mapping: the list stands for the set of values in its segments.
Allocator == INSTANCE ValueAllocator WITH free <- FreeIn(segs), res <- res

\* The list of segments implements the abstract allocator.
Implements == Allocator!Spec

\* A free of a value that is free already is rejected (the two cases marked
\* "duplecated free" in Free).
DuplicateRejected ==
    [][res'.op = "Free" /\ res'.value \in free => ~res'.ok]_vars
=============================================================================

--------------------------- MODULE ValueAllocator ---------------------------
(***************************************************************************)
(* What a pool of values promises to its callers (the UE address pools of  *)
(* the SMF): a set of free values, of which an allocation takes one, a use *)
(* takes a given one, and a free gives one back.  Each operation answers   *)
(* ok exactly when the set allows it.                                      *)
(***************************************************************************)
EXTENDS Integers

CONSTANTS MinAddr, MaxAddr

Value == MinAddr .. MaxAddr

VARIABLES free, res

Answer(op, v, ok) == [op |-> op, value |-> v, ok |-> ok]

Init == free \subseteq Value /\ res = Answer("none", 0, FALSE)

Allocate ==
    \/ \E v \in free : free' = free \ {v} /\ res' = Answer("Allocate", v, TRUE)
    \/ free = {} /\ free' = free /\ res' = Answer("Allocate", 0, FALSE)

Use(v) == free' = free \ {v} /\ res' = Answer("Use", v, v \in free)

Free(v) ==
    /\ free' = free \cup ({v} \cap Value)
    /\ res' = Answer("Free", v, v \in Value \ free)

Next == Allocate \/ \E v \in MinAddr - 1 .. MaxAddr + 1 : Use(v) \/ Free(v)

Spec == Init /\ [][Next]_<<free, res>>
=============================================================================

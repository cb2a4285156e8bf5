----------------------- MODULE AkaAuthenticationProofs -----------------------
(***************************************************************************)
(* Proofs that an attempt that succeeds takes its own key, and that one    *)
(* which no other attempt overlaps is not rejected: for any number of      *)
(* attempts, any width of the sequence numbers and any ind.                *)
(***************************************************************************)
EXTENDS AkaAuthentication, TLAPS

\* What an attempt that runs alone relies on: the AUSF's context is its own and
\* complete by the time the UE is asked, unless the AUSF restarted; and after a
\* synch failure the number it works with is ahead of the USIM's.
OwnContext(a) ==
    /\ at[a] # "identity"
    /\ at[a] \in {"fill", "ue", "answered", "confirm"} => ausf \in {a, None}
    /\ at[a] \in {"ue", "answered", "confirm"} => (ausf = a => filled)
Resynced(a) ==
    times[a] = 1 =>
      /\ at[a] = "query" => auts[a] = sqnMs
      /\ at[a] \in {"patch", "store", "fill", "ue"} => Fresh(sqn[a])

\* An attempt marked alone and still under way is the only one under way.
Undisturbed ==
    \A a \in Attempt : alone[a] /\ at[a] \notin Ended =>
      /\ \A b \in Attempt \ {a} : at[b] \in Ended
      /\ OwnContext(a) /\ Resynced(a)

\* Leaving state Authentication cleared the failure count.
Cleared == \A a \in Attempt : at[a] \in Ended => times[a] = 0

IInv == TypeOK /\ Cleared /\ Undisturbed /\ KeyOfOwnVector /\ RejectedOnlyIfOverlapped

-----------------------------------------------------------------------------

\* The constants are numbers, and 0 is a sequence number.
LEMMA Numbers ==
    /\ SqnMod \in Nat /\ Ind \in Nat /\ 2 * (Ind + 3) <= SqnMod /\ 0 \in SQN
    /\ None \notin Attempt /\ None \notin SQN
  BY AkaAssumption DEF SQN

\* A remainder lies below its modulus.
LEMMA ModRange ==
    ASSUME NEW n \in Nat, n > 0, NEW m \in Int
    PROVE  m % n \in 0 .. n - 1
  OBVIOUS

\* Adding or subtracting the modulus once does not change the remainder.
LEMMA ModOnce ==
    ASSUME NEW n \in Nat, n > 0, NEW k \in 0 .. n - 1
    PROVE  k % n = k /\ (k + n) % n = k /\ (k - n) % n = k
  <1>1. k % n = k
    OBVIOUS
  <1>2. (k + n) % n = k
    OBVIOUS
  <1>3. (k - n) % n = k
    OBVIOUS
  <1> QED
    BY <1>1, <1>2, <1>3

\* The number of a resynchronised vector, which the UDM computes modulo 2^48 - 1
\* and the USIM compares modulo 2^48, is ahead of the number the USIM reported,
\* also where it wraps.
LEMMA ResyncIsFresh ==
    ASSUME sqnMs \in SQN
    PROVE  /\ (sqnMs + Ind + 1) % (SqnMod - 1) \in SQN
           /\ Fresh((sqnMs + Ind + 1) % (SqnMod - 1))
  <1> DEFINE x == (sqnMs + Ind + 1) % (SqnMod - 1)
             h == SqnMod \div 2
  <1>1. /\ SqnMod \in Nat /\ SqnMod > 0 /\ SqnMod - 1 \in Nat /\ SqnMod - 1 > 0 /\ Ind \in Nat
        /\ sqnMs \in 0 .. SqnMod - 1 /\ 2 * (Ind + 3) <= SqnMod
    BY Numbers DEF SQN
  <1>2. h \in Nat /\ Ind + 3 <= h
    BY <1>1
  <1>3. x \in SQN
    BY <1>1, ModRange DEF SQN
  <1>4. CASE sqnMs + Ind + 1 <= SqnMod - 2
    <2>1. sqnMs + Ind + 1 \in 0 .. (SqnMod - 1) - 1
      BY <1>1, <1>4
    <2>2. x = sqnMs + Ind + 1
      BY <1>1, <2>1, ModOnce
    <2>3. Ind + 1 \in 0 .. SqnMod - 1 /\ x - sqnMs = Ind + 1
      BY <1>1, <2>2
    <2>4. (x - sqnMs) % SqnMod = Ind + 1
      BY <1>1, <2>3, ModOnce
    <2> HIDE DEF x, h
    <2>5. (x - sqnMs) % SqnMod \in 1 .. h - 1
      BY <1>1, <1>2, <2>4
    <2> QED
      BY <1>3, <2>5 DEF Fresh, x, h
  <1>5. CASE ~(sqnMs + Ind + 1 <= SqnMod - 2)
    <2> DEFINE k == sqnMs + Ind + 2 - SqnMod
    <2>1. k \in 0 .. (SqnMod - 1) - 1 /\ sqnMs + Ind + 1 = k + (SqnMod - 1)
      BY <1>1, <1>5
    <2>2. x = k
      <3> HIDE DEF k
      <3> QED
        BY <1>1, <2>1, ModOnce
    <2>3. Ind + 2 \in 0 .. SqnMod - 1 /\ x - sqnMs = (Ind + 2) - SqnMod
      BY <1>1, <2>2
    <2>4. (x - sqnMs) % SqnMod = Ind + 2
      BY <1>1, <2>3, ModOnce
    <2> HIDE DEF x, h
    <2>5. (x - sqnMs) % SqnMod \in 1 .. h - 1
      BY <1>1, <1>2, <2>4
    <2> QED
      BY <1>3, <2>5 DEF Fresh, x, h
  <1> QED
    BY <1>4, <1>5

\* The initial state satisfies the invariant.
LEMMA InitIInv == Init => IInv
  <1> SUFFICES ASSUME Init PROVE IInv
    OBVIOUS
  <1>1. TypeOK
    <2>1. sqnMs \in SQN /\ 0 \in SQN /\ 0 \in 0 .. 1 /\ 0 \in 0 .. MaxStarts
      BY AkaAssumption, Numbers DEF Init, SQN
    <2> QED
      BY <2>1, Zenon DEF Init, TypeOK, Ended
  <1>2. Cleared /\ Undisturbed /\ KeyOfOwnVector /\ RejectedOnlyIfOverlapped
    BY DEF Init, Cleared, Undisturbed, KeyOfOwnVector, RejectedOnlyIfOverlapped, Ended
  <1> QED
    BY <1>1, <1>2 DEF IInv

Place == Calling \cup Ended \cup {"ue", "answered", "identity"}

\* What a step of one attempt does to the attempts.
Moved(a, place, n, report, count) ==
    /\ at' \in [Attempt -> Place] /\ sqn' \in [Attempt -> SQN]
    /\ auts' \in [Attempt -> SQN \cup {None}] /\ times' \in [Attempt -> 0 .. 1]
    /\ guti' \in [Attempt -> BOOLEAN] /\ starts' \in 0 .. MaxStarts
    /\ at'[a] = place /\ sqn'[a] = n /\ auts'[a] = report /\ times'[a] = count
    /\ \A b \in Attempt \ {a} : at'[b] = at[b] /\ times'[b] = times[b]

\* Goes moves one attempt, and keeps the types.
LEMMA GoesMoves ==
    ASSUME TypeOK, NEW a \in Attempt, NEW place \in Place, NEW n \in SQN,
           NEW report \in SQN \cup {None}, NEW count \in 0 .. 1, NEW g \in BOOLEAN,
           Goes(a, place, n, report, count, g)
    PROVE  Moved(a, place, n, report, count)
  <1>1. /\ at' \in [Attempt -> Place] /\ at'[a] = place
        /\ \A b \in Attempt \ {a} : at'[b] = at[b]
    BY DEF Goes, TypeOK, Place
  <1>2. sqn' \in [Attempt -> SQN] /\ sqn'[a] = n
    BY DEF Goes, TypeOK
  <1>3. auts' \in [Attempt -> SQN \cup {None}] /\ auts'[a] = report
    BY DEF Goes, TypeOK
  <1>4. /\ times' \in [Attempt -> 0 .. 1] /\ times'[a] = count
        /\ \A b \in Attempt \ {a} : times'[b] = times[b]
    BY DEF Goes, TypeOK
  <1>5. guti' \in [Attempt -> BOOLEAN] /\ starts' \in 0 .. MaxStarts
    BY DEF Goes, TypeOK
  <1> QED
    BY <1>1, <1>2, <1>3, <1>4, <1>5 DEF Moved

\* A step of an attempt that is under way disturbs no attempt marked alone, for
\* it is then itself the only one: the invariant is kept if the step keeps it
\* for the attempt that takes it.
LEMMA OwnStep ==
    ASSUME IInv, NEW a \in Attempt, at[a] \notin Ended, TypeOK', alone' = alone,
           \A b \in Attempt \ {a} : /\ at'[b] = at[b] /\ times'[b] = times[b]
                                    /\ key'[b] = key[b],
           at'[a] \in Ended => times'[a] = 0,
           at'[a] = "success" => key'[a] = a,
           alone[a] /\ OwnContext(a) /\ Resynced(a) =>
             /\ at'[a] # "rejected"
             /\ at'[a] \notin Ended => OwnContext(a)' /\ Resynced(a)'
    PROVE  IInv'
  <1>1. \A b \in Attempt \ {a} : alone[b] => at[b] \in Ended
    BY DEF IInv, Undisturbed
  <1>2. alone[a] => OwnContext(a) /\ Resynced(a) /\ \A b \in Attempt \ {a} : at[b] \in Ended
    BY DEF IInv, Undisturbed
  <1>3. Cleared'
    <2> SUFFICES ASSUME NEW b \in Attempt, at'[b] \in Ended PROVE times'[b] = 0
      BY DEF Cleared, Ended
    <2> QED
      BY DEF IInv, Cleared
  <1>4. KeyOfOwnVector'
    BY DEF IInv, KeyOfOwnVector
  <1>5. RejectedOnlyIfOverlapped'
    BY <1>2 DEF IInv, RejectedOnlyIfOverlapped
  <1>6. Undisturbed'
    <2> SUFFICES ASSUME NEW b \in Attempt, alone[b], at'[b] \notin Ended
                 PROVE  /\ \A c \in Attempt \ {b} : at'[c] \in Ended
                        /\ OwnContext(b)' /\ Resynced(b)'
      BY Zenon DEF Undisturbed, Ended
    <2>1. b = a
      BY <1>1
    <2> QED
      BY <1>2, <2>1
  <1> QED
    BY <1>3, <1>4, <1>5, <1>6 DEF IInv

\* A step that ends the attempt, and neither accepts nor rejects it.
LEMMA EndStep ==
    ASSUME IInv, NEW a \in Attempt, at[a] \notin Ended,
           NEW outcome \in {"error", "silent"}, Ends(a, outcome),
           UNCHANGED <<sqnHe, sqnMs, ausf, filled, key, alone>>
    PROVE  IInv'
  <1>1. Moved(a, outcome, 0, None, 0)
    <2>1. outcome \in Place /\ 0 \in SQN /\ None \in SQN \cup {None} /\ 0 \in 0 .. 1
      BY Numbers DEF Place, Ended
    <2>2. TypeOK /\ FALSE \in BOOLEAN /\ Goes(a, outcome, 0, None, 0, FALSE)
      BY Zenon DEF IInv, Ends
    <2> QED
      BY <2>1, <2>2, GoesMoves, Zenon
  <1>2. TypeOK'
    BY <1>1 DEF IInv, TypeOK, Place, Moved
  <1> QED
    BY <1>1, <1>2, OwnStep DEF Ended, Moved

\* A step after which the attempt is still under way.
LEMMA MoveStep ==
    ASSUME IInv, NEW a \in Attempt, at[a] \notin Ended, NEW place \in Place \ Ended,
           NEW n, NEW report, NEW count, Moved(a, place, n, report, count),
           sqnHe' \in SQN, sqnMs' \in SQN, ausf' \in Attempt \cup {None},
           filled' \in BOOLEAN, UNCHANGED <<key, alone>>,
           alone[a] /\ OwnContext(a) /\ Resynced(a) => OwnContext(a)' /\ Resynced(a)'
    PROVE  IInv'
  <1>1. TypeOK'
    BY DEF IInv, TypeOK, Place, Moved
  <1>2. at'[a] = place /\ place \notin Ended /\ place # "success" /\ place # "rejected"
    BY DEF Moved, Ended
  <1>3. \A b \in Attempt \ {a} : at'[b] = at[b] /\ times'[b] = times[b] /\ key'[b] = key[b]
    BY DEF Moved
  <1> QED
    BY <1>1, <1>2, <1>3, OwnStep

\* The attempt's own data have their types.
LEMMA OwnTypes ==
    ASSUME IInv, NEW a \in Attempt
    PROVE  /\ TypeOK /\ sqnHe \in SQN /\ sqnMs \in SQN /\ ausf \in Attempt \cup {None}
           /\ filled \in BOOLEAN /\ sqn[a] \in SQN /\ auts[a] \in SQN \cup {None}
           /\ times[a] \in 0 .. 1 /\ guti[a] \in BOOLEAN /\ at[a] \in Place
           /\ {0, 1} \subseteq 0 .. 1 /\ 0 \in SQN /\ None \in SQN \cup {None} /\ None \notin SQN
           /\ FALSE \in BOOLEAN
  BY Numbers DEF IInv, TypeOK, Place

\* The places of an attempt under way.
LEMMA UnderWay ==
    /\ Calling \cup {"ue", "answered", "identity"} \subseteq Place \ Ended
    /\ \A p \in Calling \cup {"ue", "answered", "identity"} : p \in Place /\ p \notin Ended
    /\ {"success", "rejected", "error", "silent"} \subseteq Place
  BY DEF Place, Calling, Ended

\* QueryAuthSubsData: a resync continues with a number the USIM will accept.
LEMMA UdmQueryIInv ==
    ASSUME IInv, NEW a \in Attempt, UdmQuery(a)
    PROVE  IInv'
  <1> DEFINE n == VectorSqn(a)
             report == IF auts[a] = None THEN None ELSE 0
  <1>1. at[a] = "query" /\ Goes(a, "patch", n, report, times[a], guti[a])
    BY DEF UdmQuery
  <1>2. UNCHANGED <<sqnHe, sqnMs, ausf, filled, key, alone>>
    BY DEF UdmQuery
  <1>3. n \in SQN
    <2>1. CASE auts[a] = None
      BY <2>1, OwnTypes DEF VectorSqn
    <2>2. CASE auts[a] # None
      <3>1. /\ auts[a] \in 0 .. SqnMod - 1 /\ SqnMod - 1 \in Nat /\ SqnMod - 1 > 0
            /\ auts[a] + Ind + 1 \in Int
        BY <2>2, OwnTypes, Numbers DEF SQN
      <3>2. (auts[a] + Ind + 1) % (SqnMod - 1) \in 0 .. (SqnMod - 1) - 1
        BY <3>1, ModRange
      <3> QED
        BY <2>2, <3>1, <3>2 DEF VectorSqn, SQN
    <2> QED
      BY <2>1, <2>2
  <1>4. report \in SQN \cup {None}
    BY OwnTypes
  <1>5. times[a] = 1 /\ Resynced(a) => Fresh(n)
    <2> SUFFICES ASSUME times[a] = 1, Resynced(a) PROVE Fresh(n)
      OBVIOUS
    <2>1. auts[a] = sqnMs /\ auts[a] # None
      BY <1>1, OwnTypes DEF Resynced
    <2> QED
      BY <2>1, ResyncIsFresh, OwnTypes DEF VectorSqn
  <1> HIDE DEF n, report
  <1>6. Moved(a, "patch", n, report, times[a])
    BY <1>1, <1>3, <1>4, OwnTypes, UnderWay, GoesMoves DEF Calling
  <1>7. Resynced(a) => OwnContext(a)' /\ Resynced(a)'
    BY <1>2, <1>5, <1>6 DEF Moved, OwnContext, Resynced, Fresh
  <1>8. "patch" \in Place \ Ended /\ at[a] \notin Ended
    BY <1>1, UnderWay DEF Calling
  <1> QED
    BY <1>2, <1>6, <1>7, <1>8, OwnTypes, MoveStep

\* ModifyAuthenticationSubscription changes the number in the UDR only.
LEMMA UdmPatchIInv ==
    ASSUME IInv, NEW a \in Attempt, UdmPatch(a)
    PROVE  IInv'
  <1>1. at[a] = "patch" /\ Goes(a, "store", sqn[a], auts[a], times[a], guti[a])
    BY DEF UdmPatch, Step
  <1>2. UNCHANGED <<sqnMs, ausf, filled, key, alone>>
    BY DEF UdmPatch
  <1>3. sqnHe' \in SQN
    <2>1. SqnMod \in Nat /\ SqnMod > 0 /\ sqn[a] + 1 \in Int
      BY Numbers, OwnTypes DEF SQN
    <2> QED
      BY <2>1, ModRange DEF UdmPatch, SQN
  <1>4. Moved(a, "store", sqn[a], auts[a], times[a])
    BY <1>1, OwnTypes, UnderWay, GoesMoves DEF Calling
  <1>5. Resynced(a) => OwnContext(a)' /\ Resynced(a)'
    BY <1>1, <1>2, <1>4 DEF Moved, OwnContext, Resynced, Fresh
  <1>6. "store" \in Place \ Ended /\ at[a] \notin Ended
    BY <1>1, UnderWay DEF Calling
  <1> QED
    BY <1>2, <1>3, <1>4, <1>5, <1>6, OwnTypes, MoveStep

\* The AUSF puts the attempt's context into the pool, not yet filled.
LEMMA AusfStoreIInv ==
    ASSUME IInv, NEW a \in Attempt, AusfStore(a)
    PROVE  IInv'
  <1>1. at[a] = "store" /\ Goes(a, "fill", sqn[a], auts[a], times[a], guti[a])
    BY DEF AusfStore, Step
  <1>2. UNCHANGED <<sqnHe, sqnMs, key, alone>> /\ ausf' = a /\ filled' = FALSE
    BY DEF AusfStore
  <1>3. Moved(a, "fill", sqn[a], auts[a], times[a])
    BY <1>1, OwnTypes, UnderWay, GoesMoves DEF Calling
  <1>4. Resynced(a) => OwnContext(a)' /\ Resynced(a)'
    BY <1>1, <1>2, <1>3 DEF Moved, OwnContext, Resynced, Fresh
  <1>5. "fill" \in Place \ Ended /\ at[a] \notin Ended
    BY <1>1, UnderWay DEF Calling
  <1> QED
    BY <1>2, <1>3, <1>4, <1>5, OwnTypes, MoveStep, Zenon

\* The AUSF completes the context if it still is the attempt's.
LEMMA AusfFillIInv ==
    ASSUME IInv, NEW a \in Attempt, AusfFill(a)
    PROVE  IInv'
  <1>1. at[a] = "fill" /\ Goes(a, "ue", sqn[a], None, times[a], guti[a])
    BY DEF AusfFill
  <1>2. UNCHANGED <<sqnHe, sqnMs, ausf, key, alone>> /\ filled' = (filled \/ ausf = a)
    BY DEF AusfFill
  <1>3. Moved(a, "ue", sqn[a], None, times[a])
    BY <1>1, OwnTypes, UnderWay, GoesMoves, Zenon
  <1>4. OwnContext(a) /\ Resynced(a) => OwnContext(a)' /\ Resynced(a)'
    BY <1>1, <1>2, <1>3, Zenon DEF Moved, OwnContext, Resynced, Fresh
  <1>5. "ue" \in Place \ Ended /\ at[a] \notin Ended
    BY <1>1, UnderWay DEF Calling
  <1>6. filled' \in BOOLEAN
    BY <1>2
  <1> QED
    BY <1>2, <1>3, <1>4, <1>5, <1>6, OwnTypes, MoveStep

\* A step that accepts or rejects the attempt.
LEMMA FinalStep ==
    ASSUME IInv, NEW a \in Attempt, at[a] \notin Ended,
           NEW outcome \in {"success", "rejected"}, Ends(a, outcome),
           UNCHANGED <<sqnHe, sqnMs, ausf, filled, alone>>,
           key' \in [Attempt -> Attempt \cup {None}],
           \A b \in Attempt \ {a} : key'[b] = key[b],
           outcome = "success" => key'[a] = a,
           outcome = "rejected" => ~(alone[a] /\ OwnContext(a) /\ Resynced(a))
    PROVE  IInv'
  <1>1. Moved(a, outcome, 0, None, 0)
    <2>1. outcome \in Place /\ Goes(a, outcome, 0, None, 0, FALSE)
      BY UnderWay, Zenon DEF Ends
    <2> QED
      BY <2>1, OwnTypes, GoesMoves, Zenon
  <1>2. TypeOK'
    BY <1>1 DEF IInv, TypeOK, Place, Moved
  <1>3. at'[a] = outcome /\ at'[a] \in Ended /\ times'[a] = 0
    BY <1>1 DEF Moved, Ended
  <1>4. \A b \in Attempt \ {a} : at'[b] = at[b] /\ times'[b] = times[b] /\ key'[b] = key[b]
    BY <1>1 DEF Moved
  <1> QED
    BY <1>2, <1>3, <1>4, OwnStep

\* Auth5gAkaComfirmRequestProcedure: an attempt that is alone finds its own
\* context, filled; another may be given up.
LEMMA AusfConfirmIInv ==
    ASSUME IInv, NEW a \in Attempt, AusfConfirm(a)
    PROVE  IInv'
  <1>1. at[a] = "confirm" /\ ausf # None /\ UNCHANGED <<sqnHe, sqnMs, ausf, filled, alone>>
    BY DEF AusfConfirm
  <1>2. at[a] \notin Ended
    BY <1>1, UnderWay DEF Calling
  <1>3. CASE filled /\ ausf = a
    <2>1. Ends(a, "success") /\ key' = [key EXCEPT ![a] = a]
      BY <1>3 DEF AusfConfirm
    <2>2. /\ key' \in [Attempt -> Attempt \cup {None}] /\ key'[a] = a
          /\ \A b \in Attempt \ {a} : key'[b] = key[b]
      BY <2>1 DEF IInv, TypeOK
    <2> QED
      BY <1>1, <1>2, <2>1, <2>2, FinalStep
  <1>4. CASE ~(filled /\ ausf = a)
    <2>1. GiveUp(a) /\ UNCHANGED key
      BY <1>4 DEF AusfConfirm
    <2>2. ~OwnContext(a)
      BY <1>1, <1>4 DEF OwnContext
    <2>3. CASE guti[a]
      <3>1. Goes(a, "identity", 0, None, times[a], FALSE)
        BY <2>1, <2>3, Zenon DEF GiveUp
      <3>2. Moved(a, "identity", 0, None, times[a]) /\ "identity" \in Place \ Ended
        BY <3>1, OwnTypes, UnderWay, GoesMoves, Zenon
      <3> QED
        BY <1>1, <1>2, <2>1, <2>2, <3>2, OwnTypes, MoveStep
    <2>4. CASE ~guti[a]
      <3>1. Ends(a, "rejected")
        BY <2>1, <2>4 DEF GiveUp
      <3>2. key' \in [Attempt -> Attempt \cup {None}]
        BY <2>1 DEF IInv, TypeOK
      <3> QED
        BY <1>1, <1>2, <2>1, <2>2, <3>1, <3>2, FinalStep
    <2> QED
      BY <2>3, <2>4
  <1> QED
    BY <1>3, <1>4

\* A call that fails, and a UE that refuses the challenge, end the attempt
\* without an authentication reject for a wrong answer.
LEMMA FailureIInv ==
    ASSUME IInv, NEW a \in Attempt, CallFails(a) \/ HandleRefusal(a)
    PROVE  IInv'
  <1>1. at[a] \notin Ended /\ UNCHANGED <<sqnHe, sqnMs, ausf, filled, key, alone>>
    BY UnderWay DEF CallFails, HandleRefusal
  <1>2. \E outcome \in {"error", "silent"} : Ends(a, outcome)
    BY Zenon DEF CallFails, HandleRefusal
  <1> QED
    BY <1>1, <1>2, EndStep

\* HandleAuthenticationFailure: an attempt that is alone fails to synchronise
\* once at most.
LEMMA HandleSynchFailureIInv ==
    ASSUME IInv, NEW a \in Attempt, HandleSynchFailure(a)
    PROVE  IInv'
  <1>1. /\ at[a] = "ue" /\ ~Fresh(sqn[a]) /\ at[a] \notin Ended
        /\ UNCHANGED <<sqnHe, sqnMs, ausf, filled, key, alone>>
    BY UnderWay DEF HandleSynchFailure
  <1>2. CASE times[a] = 1
    <2>1. Ends(a, "rejected")
      BY <1>2 DEF HandleSynchFailure
    <2>2. ~Resynced(a)
      BY <1>1, <1>2 DEF Resynced
    <2>3. key' \in [Attempt -> Attempt \cup {None}]
      BY <1>1 DEF IInv, TypeOK
    <2> QED
      BY <1>1, <2>1, <2>2, <2>3, FinalStep
  <1>3. CASE times[a] = 0
    <2>1. Goes(a, "query", 0, sqnMs, 1, guti[a])
      BY <1>3, SMTT(60) DEF HandleSynchFailure
    <2>2. sqnMs \in SQN \cup {None} /\ 1 \in 0 .. 1 /\ "query" \in Place
      BY OwnTypes, UnderWay DEF Calling
    <2>3. Moved(a, "query", 0, sqnMs, 1)
      BY <2>1, <2>2, OwnTypes, GoesMoves
    <2>4. OwnContext(a)' /\ Resynced(a)'
      BY <1>1, <2>3 DEF Moved, OwnContext, Resynced
    <2>5. "query" \in Place \ Ended
      BY UnderWay DEF Calling
    <2> QED
      BY <1>1, <2>3, <2>4, <2>5, OwnTypes, MoveStep
  <1> QED
    BY <1>2, <1>3, OwnTypes

\* The USIM accepts the number, which becomes its own.
LEMMA UeAnswersIInv ==
    ASSUME IInv, NEW a \in Attempt, UeAnswers(a)
    PROVE  IInv'
  <1>1. at[a] = "ue" /\ Goes(a, "answered", 0, None, times[a], guti[a])
    BY DEF UeAnswers
  <1>2. UNCHANGED <<sqnHe, ausf, filled, key, alone>> /\ sqnMs' = sqn[a]
    BY DEF UeAnswers
  <1>3. Moved(a, "answered", 0, None, times[a])
    BY <1>1, OwnTypes, UnderWay, GoesMoves, Zenon
  <1>4. OwnContext(a) => OwnContext(a)' /\ Resynced(a)'
    BY <1>1, <1>2, <1>3 DEF Moved, OwnContext, Resynced
  <1>5. "answered" \in Place \ Ended /\ at[a] \notin Ended
    BY <1>1, UnderWay
  <1> QED
    BY <1>2, <1>3, <1>4, <1>5, OwnTypes, MoveStep

\* HandleAuthenticationResponse asks the AUSF to confirm.
LEMMA HandleAuthenticationResponseIInv ==
    ASSUME IInv, NEW a \in Attempt, HandleAuthenticationResponse(a)
    PROVE  IInv'
  <1>1. at[a] = "answered" /\ Goes(a, "confirm", sqn[a], auts[a], times[a], guti[a])
    BY DEF HandleAuthenticationResponse, Step
  <1>2. UNCHANGED <<sqnHe, sqnMs, ausf, filled, key, alone>>
    BY DEF HandleAuthenticationResponse
  <1>3. Moved(a, "confirm", sqn[a], auts[a], times[a])
    BY <1>1, OwnTypes, UnderWay, GoesMoves DEF Calling
  <1>4. OwnContext(a) /\ Resynced(a) => OwnContext(a)' /\ Resynced(a)'
    BY <1>1, <1>2, <1>3 DEF Moved, OwnContext, Resynced, Fresh
  <1>5. "confirm" \in Place \ Ended /\ at[a] \notin Ended
    BY <1>1, UnderWay DEF Calling
  <1> QED
    BY <1>2, <1>3, <1>4, <1>5, OwnTypes, MoveStep

\* The challenge is sent again and the count of failures restarts.
LEMMA HandleKsiInUseIInv ==
    ASSUME IInv, NEW a \in Attempt, HandleKsiInUse(a)
    PROVE  IInv'
  <1>1. at[a] = "ue" /\ Goes(a, "ue", sqn[a], auts[a], 0, guti[a])
    BY DEF HandleKsiInUse
  <1>2. UNCHANGED <<sqnHe, sqnMs, ausf, filled, key, alone>>
    BY DEF HandleKsiInUse
  <1>3. Moved(a, "ue", sqn[a], auts[a], 0)
    BY <1>1, OwnTypes, UnderWay, GoesMoves DEF Calling
  <1>4. OwnContext(a) /\ Resynced(a) => OwnContext(a)' /\ Resynced(a)'
    BY <1>1, <1>2, <1>3 DEF Moved, OwnContext, Resynced, Fresh
  <1>5. "ue" \in Place \ Ended /\ at[a] \notin Ended
    BY <1>1, UnderWay DEF Calling
  <1> QED
    BY <1>2, <1>3, <1>4, <1>5, OwnTypes, MoveStep

\* HandleIdentityResponse starts over; only an attempt that was overlapped is here.
LEMMA HandleIdentityResponseIInv ==
    ASSUME IInv, NEW a \in Attempt, HandleIdentityResponse(a)
    PROVE  IInv'
  <1>1. at[a] = "identity" /\ Goes(a, "query", sqn[a], auts[a], times[a], guti[a])
    BY DEF HandleIdentityResponse, Step
  <1>2. UNCHANGED <<sqnHe, sqnMs, ausf, filled, key, alone>>
    BY DEF HandleIdentityResponse
  <1>3. Moved(a, "query", sqn[a], auts[a], times[a])
    BY <1>1, OwnTypes, UnderWay, GoesMoves DEF Calling
  <1>4. OwnContext(a) /\ Resynced(a) => OwnContext(a)' /\ Resynced(a)'
    BY <1>1, <1>2, <1>3 DEF Moved, OwnContext, Resynced, Fresh
  <1>5. "query" \in Place \ Ended /\ at[a] \notin Ended
    BY <1>1, UnderWay DEF Calling
  <1> QED
    BY <1>2, <1>3, <1>4, <1>5, OwnTypes, MoveStep

\* A new attempt is alone if no other is under way, and ends the loneliness of
\* those that are.
LEMMA StartIInv ==
    ASSUME IInv, NEW a \in Attempt, NEW g \in BOOLEAN, Start(a, g)
    PROVE  IInv'
  <1>1. at[a] \in Ended /\ UNCHANGED <<sqnHe, sqnMs, ausf, filled, sqn, auts, times>>
    BY DEF Start
  <1>2. /\ at' \in [Attempt -> Place] /\ at'[a] = "query" /\ "query" \notin Ended
        /\ \A b \in Attempt \ {a} : at'[b] = at[b]
    <2>1. "query" \in Place /\ "query" \notin Ended
      BY UnderWay DEF Calling
    <2> QED
      BY <2>1 DEF Start, IInv, TypeOK, Place
  <1>3. /\ alone'[a] = (\A c \in Attempt \ {a} : at[c] \in Ended)
        /\ \A b \in Attempt \ {a} : alone'[b] = (alone[b] /\ at[b] \in Ended)
    BY DEF Start
  <1>4. /\ key' \in [Attempt -> Attempt \cup {None}]
        /\ \A b \in Attempt \ {a} : key'[b] = key[b]
    BY DEF Start, IInv, TypeOK
  <1>5. TypeOK'
    <2>1. guti' \in [Attempt -> BOOLEAN]
      BY DEF Start, IInv, TypeOK
    <2>2. alone' \in [Attempt -> BOOLEAN]
      <3>1. \A b \in Attempt : alone[b] \in BOOLEAN
        BY DEF IInv, TypeOK
      <3> QED
        BY <3>1, Zenon DEF Start
    <2>3. starts' \in 0 .. MaxStarts
      BY AkaAssumption DEF Start, IInv, TypeOK
    <2> QED
      BY <1>1, <1>2, <1>4, <2>1, <2>2, <2>3 DEF IInv, TypeOK, Place
  <1>6. times[a] = 0
    BY <1>1 DEF IInv, Cleared
  <1>7. Cleared'
    <2> SUFFICES ASSUME NEW b \in Attempt, at'[b] \in Ended PROVE times'[b] = 0
      BY DEF Cleared, Ended
    <2> QED
      BY <1>1, <1>2 DEF IInv, Cleared
  <1>8. KeyOfOwnVector'
    BY <1>2, <1>4 DEF IInv, KeyOfOwnVector
  <1>9. RejectedOnlyIfOverlapped'
    BY <1>2, <1>3, Zenon DEF IInv, RejectedOnlyIfOverlapped
  <1>10. Undisturbed'
    <2> SUFFICES ASSUME NEW b \in Attempt, alone'[b], at'[b] \notin Ended
                 PROVE  /\ \A c \in Attempt \ {b} : at'[c] \in Ended
                        /\ OwnContext(b)' /\ Resynced(b)'
      BY Zenon DEF Undisturbed, Ended
    <2>1. b = a
      BY <1>2, <1>3, Zenon
    <2>2. \A c \in Attempt \ {b} : at'[c] \in Ended
      BY <1>2, <1>3, <2>1, Zenon
    <2>3. OwnContext(b)'
      BY <1>2, <2>1 DEF OwnContext
    <2>4. Resynced(b)'
      BY <1>1, <1>6, <2>1 DEF Resynced
    <2> QED
      BY <2>2, <2>3, <2>4
  <1> QED
    BY <1>5, <1>7, <1>8, <1>9, <1>10 DEF IInv

\* A restarted AUSF has no context, so it can confirm no attempt, nor refuse one.
LEMMA AusfRestartIInv ==
    ASSUME IInv, AusfRestart
    PROVE  IInv'
  <1>1. /\ ausf' = None /\ filled' = FALSE
        /\ UNCHANGED <<sqnHe, sqnMs, at, sqn, auts, times, guti, key, alone, starts>>
    BY DEF AusfRestart
  <1>2. TypeOK'
    BY <1>1, Zenon DEF IInv, TypeOK
  <1>3. \A a \in Attempt : OwnContext(a) => OwnContext(a)'
    BY <1>1, Numbers DEF OwnContext
  <1>4. \A a \in Attempt : Resynced(a) => Resynced(a)'
    BY <1>1 DEF Resynced, Fresh
  <1>5. Undisturbed'
    BY <1>1, <1>3, <1>4 DEF IInv, Undisturbed, Ended
  <1>6. Cleared' /\ KeyOfOwnVector' /\ RejectedOnlyIfOverlapped'
    BY <1>1 DEF IInv, Cleared, KeyOfOwnVector, RejectedOnlyIfOverlapped, Ended
  <1> QED
    BY <1>2, <1>5, <1>6 DEF IInv

\* Every step keeps the invariant.
LEMMA NextIInv == IInv /\ [Next]_vars => IInv'
  <1> SUFFICES ASSUME IInv, [Next]_vars PROVE IInv'
    OBVIOUS
  <1>1. CASE \E a \in Attempt, g \in BOOLEAN : Start(a, g)
    BY <1>1, StartIInv
  <1>2. CASE \E a \in Attempt : Network(a)
    BY <1>2, UdmQueryIInv, UdmPatchIInv, AusfStoreIInv, AusfFillIInv, AusfConfirmIInv,
       FailureIInv, HandleAuthenticationResponseIInv DEF Network
  <1>3. CASE \E a \in Attempt : UE(a)
    BY <1>3, UeAnswersIInv, HandleSynchFailureIInv, HandleIdentityResponseIInv DEF UE
  <1>4. CASE \E a \in Attempt : HandleKsiInUse(a) \/ HandleRefusal(a)
    BY <1>4, HandleKsiInUseIInv, FailureIInv
  <1>5. CASE AusfRestart
    BY <1>5, AusfRestartIInv
  <1>6. CASE UNCHANGED vars
    <2>1. UNCHANGED <<sqnHe, sqnMs, ausf, filled, at, sqn, auts, times, guti, key, alone, starts>>
      BY <1>6 DEF vars
    <2> QED
      BY <2>1 DEF IInv, TypeOK, Cleared, Undisturbed, KeyOfOwnVector, OwnContext, Resynced,
                  Fresh, RejectedOnlyIfOverlapped, Ended
  <1> QED
    BY <1>1, <1>2, <1>3, <1>4, <1>5, <1>6 DEF Next

-----------------------------------------------------------------------------

\* The invariant holds throughout every behaviour.
THEOREM Invariance == Spec => []IInv
  BY InitIInv, NextIInv, PTL DEF Spec

\* No sequence number leaves its width, whatever the UDM adds to it and however
\* the attempts interleave.
THEOREM NumbersKeepWidth == Spec => []TypeOK
  <1>1. IInv => TypeOK
    BY DEF IInv
  <1> QED
    BY <1>1, Invariance, PTL

\* An attempt that the AUSF confirms takes the Kseaf of the vector its UE
\* answered, although the AUSF's context is found by SUPI alone.
THEOREM SuccessTakesOwnKey == Spec => []KeyOfOwnVector
  <1>1. IInv => KeyOfOwnVector
    BY DEF IInv
  <1> QED
    BY <1>1, Invariance, PTL

\* An attempt of a UE that answers correctly is rejected only if another attempt
\* of the subscriber overlapped it: one resync repairs whatever earlier attempts
\* left behind, wherever the sequence numbers wrap.
THEOREM RejectionNeedsOverlap == Spec => []RejectedOnlyIfOverlapped
  <1>1. IInv => RejectedOnlyIfOverlapped
    BY DEF IInv
  <1> QED
    BY <1>1, Invariance, PTL
=============================================================================

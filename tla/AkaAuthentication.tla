-------------------------- MODULE AkaAuthentication --------------------------
(***************************************************************************)
(* 5G-AKA of one subscriber, across AMF (gmm/handler.go), AUSF             *)
(* (ue_authentication.go), UDM (generate_auth_data.go) and UDR.            *)
(*                                                                         *)
(* The UDM reads the sequence number from the UDR and writes the next one  *)
(* back in a second request; the AUSF keeps one context per SUPI, which    *)
(* every authentication replaces.  Attempts of the same subscriber (an     *)
(* AmfUe each) run concurrently through these steps.  The UE and its USIM  *)
(* are external.  A call between NFs may fail.  Only the latest vector of  *)
(* an attempt can be in the AUSF's context, so a vector, its RES* and its  *)
(* Kseaf are named by the attempt.                                         *)
(***************************************************************************)
EXTENDS Integers

CONSTANTS
    Attempt,    \* AmfUe contexts that authenticate the subscriber
    SqnMod,     \* 2^48: sequence numbers have 12 hex digits (strictHex)
    Ind,        \* ind
    MaxStarts,  \* bound on the number of authentications
    FirstMs,    \* numbers a USIM may start with (the others are reached)
    None        \* no vector, no context, no AUTS

ASSUME AkaAssumption ==
    /\ SqnMod \in Nat /\ Ind \in Nat /\ 2 * (Ind + 3) <= SqnMod
    /\ MaxStarts \in Nat /\ FirstMs \subseteq 0 .. SqnMod - 1
    /\ None \notin Attempt /\ None \notin 0 .. SqnMod - 1

SQN == 0 .. SqnMod - 1
Calling == {"query", "patch", "store", "fill", "confirm"}  \* a call is open
Ended == {"idle", "success", "rejected", "error", "silent"}

VARIABLES
    sqnHe,   \* the sequence number of the subscriber in the UDR
    sqnMs,   \* the highest sequence number the USIM has accepted
    ausf,    \* UePool[SUPI] of the AUSF: whose vector its context is for
    filled,  \* XresStar and Kseaf of that context are set
    at,      \* where each attempt is
    sqn,     \* the sequence number of its vector
    auts,    \* the sequence number the USIM reported, on a resync
    times,   \* AuthFailureCauseSynchFailureTimes
    guti,    \* the UE registered with a 5G-GUTI and was not asked for its SUCI
    key,     \* ue.Kseaf, after a success
    alone,   \* history: no other attempt was under way
    starts   \* number of authentications so far

vars == <<sqnHe, sqnMs, ausf, filled, at, sqn, auts, times, guti, key, alone, starts>>

\* Every variable has a value the program can give it; no sequence number leaves
\* its width (SqnMod stands for 2^48), a synch failure is counted once at most.
TypeOK ==
    /\ sqnHe \in SQN /\ sqnMs \in SQN
    /\ ausf \in Attempt \cup {None} /\ filled \in BOOLEAN
    /\ at \in [Attempt -> Calling \cup Ended \cup {"ue", "answered", "identity"}]
    /\ sqn \in [Attempt -> SQN]
    /\ auts \in [Attempt -> SQN \cup {None}]
    /\ times \in [Attempt -> 0 .. 1] /\ guti \in [Attempt -> BOOLEAN]
    /\ key \in [Attempt -> Attempt \cup {None}]
    /\ alone \in [Attempt -> BOOLEAN] /\ starts \in 0 .. MaxStarts

\* The two numbers need not agree: a subscriber may have been provisioned again.
Init ==
    /\ sqnHe \in SQN /\ sqnMs \in FirstMs
    /\ ausf = None /\ filled = FALSE
    /\ at = [a \in Attempt |-> "idle"] /\ sqn = [a \in Attempt |-> 0]
    /\ auts = [a \in Attempt |-> None] /\ times = [a \in Attempt |-> 0]
    /\ guti = [a \in Attempt |-> FALSE] /\ key = [a \in Attempt |-> None]
    /\ alone = [a \in Attempt |-> TRUE] /\ starts = 0

\* The attempt moves on with the given number, AUTS, failure count and GUTI.
Goes(a, place, n, report, count, g) ==
    /\ at' = [at EXCEPT ![a] = place]
    /\ sqn' = [sqn EXCEPT ![a] = n] /\ auts' = [auts EXCEPT ![a] = report]
    /\ times' = [times EXCEPT ![a] = count] /\ guti' = [guti EXCEPT ![a] = g]
    /\ UNCHANGED starts

Step(a, place) == Goes(a, place, sqn[a], auts[a], times[a], guti[a])

\* Leaving state Authentication clears the data of the authentication.
Ends(a, outcome) == Goes(a, outcome, 0, None, 0, FALSE)

\* A registration enters state Authentication: AuthenticationProcedure asks the
\* AUSF, which asks the UDM.
Start(a, g) ==
    /\ at[a] \in Ended /\ starts < MaxStarts /\ starts' = starts + 1
    /\ at' = [at EXCEPT ![a] = "query"] /\ guti' = [guti EXCEPT ![a] = g]
    /\ key' = [key EXCEPT ![a] = None]
    /\ alone' = [b \in Attempt |->
                   IF b = a THEN \A c \in Attempt \ {a} : at[c] \in Ended
                   ELSE alone[b] /\ at[b] \in Ended]
    /\ UNCHANGED <<sqnHe, sqnMs, ausf, filled, sqn, auts, times>>

-----------------------------------------------------------------------------
(* UDM and UDR. *)

\* Mutated: a resync starts from the number the USIM reported.
VectorSqnSame(a) == IF auts[a] = None THEN sqnHe ELSE auts[a]

\* The number of the new vector: the one in the UDR or, on a resync, the one
\* of the USIM plus ind + 1 modulo SqnMAx, which is 2^48 - 1.
VectorSqn(a) == IF auts[a] = None THEN sqnHe
                ELSE (auts[a] + Ind + 1) % (SqnMod - 1)

\* QueryAuthSubsData, and the number the rest of the procedure works with.
UdmQuery(a) ==
    /\ at[a] = "query"
    /\ Goes(a, "patch", VectorSqn(a), IF auts[a] = None THEN None ELSE 0,
            times[a], guti[a])
    /\ UNCHANGED <<sqnHe, sqnMs, ausf, filled, key, alone>>

\* ModifyAuthenticationSubscription stores the successor (strictHex keeps the
\* last 12 digits); the vector is made with the number itself.
UdmPatch(a) ==
    /\ at[a] = "patch" /\ Step(a, "store")
    /\ sqnHe' = (sqn[a] + 1) % SqnMod
    /\ UNCHANGED <<sqnMs, ausf, filled, key, alone>>

-----------------------------------------------------------------------------
(* AUSF. *)

\* UeAuthPostRequestProcedure puts a new context into the pool before it
\* computes XresStar and Kseaf ...
AusfStore(a) ==
    /\ at[a] = "store" /\ Step(a, "fill")
    /\ ausf' = a /\ filled' = FALSE
    /\ UNCHANGED <<sqnHe, sqnMs, key, alone>>

\* ... and then answers; the AMF stores AuthenticationCtx and sends the
\* AuthenticationRequest.
AusfFill(a) ==
    /\ at[a] = "fill" /\ Goes(a, "ue", sqn[a], None, times[a], guti[a])
    /\ filled' = (filled \/ ausf = a)
    /\ UNCHANGED <<sqnHe, sqnMs, ausf, key, alone>>

\* The AMF gives up, but asks a UE known by its GUTI for its SUCI first.
GiveUp(a) == IF guti[a] THEN Goes(a, "identity", 0, None, times[a], FALSE)
                        ELSE Ends(a, "rejected")

\* Mutated: the AUSF does not compare RES* with XRES*.
AusfConfirmAny(a) ==
    /\ at[a] = "confirm" /\ ausf # None
    /\ Ends(a, "success") /\ key' = [key EXCEPT ![a] = ausf]
    /\ UNCHANGED <<sqnHe, sqnMs, ausf, filled, alone>>

\* Auth5gAkaComfirmRequestProcedure: RES* against the context of the SUPI, which
\* may be another attempt's by now; the UDM is told and the AMF acts on the
\* result.
AusfConfirm(a) ==
    /\ at[a] = "confirm" /\ ausf # None
    /\ IF filled /\ ausf = a
       THEN Ends(a, "success") /\ key' = [key EXCEPT ![a] = ausf]
       ELSE GiveUp(a) /\ UNCHANGED key
    /\ UNCHANGED <<sqnHe, sqnMs, ausf, filled, alone>>

\* A call fails somewhere on its way, or finds no context in a restarted AUSF.
\* The first request of an attempt is then refused; a resync and a confirmation
\* just return, and the UE hears nothing.
CallFails(a) ==
    /\ at[a] \in Calling
    /\ Ends(a, IF at[a] = "confirm" \/ auts[a] # None THEN "silent" ELSE "error")
    /\ UNCHANGED <<sqnHe, sqnMs, ausf, filled, key, alone>>

\* The AUSF restarts without its pool, while it serves no request.
AusfRestart ==
    /\ ausf # None /\ \A a \in Attempt : at[a] \notin Calling
    /\ ausf' = None /\ filled' = FALSE
    /\ UNCHANGED <<sqnHe, sqnMs, at, sqn, auts, times, guti, key, alone, starts>>

-----------------------------------------------------------------------------
(* UE and AMF. *)

\* External: the USIM is assumed to accept the numbers ahead of its own by less
\* than half of the range.
Fresh(n) == (n - sqnMs) % SqnMod \in 1 .. (SqnMod \div 2) - 1

\* The USIM accepts the challenge and the UE answers with RES*.
UeAnswers(a) ==
    /\ at[a] = "ue" /\ Fresh(sqn[a])
    /\ sqnMs' = sqn[a] /\ Goes(a, "answered", 0, None, times[a], guti[a])
    /\ UNCHANGED <<sqnHe, ausf, filled, key, alone>>

\* HandleAuthenticationResponse: HRES* is that of the own AuthenticationCtx, as
\* every UE here answers correctly; then the AUSF is asked to confirm.
HandleAuthenticationResponse(a) ==
    /\ at[a] = "answered" /\ Step(a, "confirm")
    /\ UNCHANGED <<sqnHe, sqnMs, ausf, filled, key, alone>>

\* Mutated: the first synch failure only repeats the challenge.
HandleSynchFailureResend(a) ==
    /\ at[a] = "ue" /\ ~Fresh(sqn[a])
    /\ Step(a, "ue")
    /\ UNCHANGED <<sqnHe, sqnMs, ausf, filled, key, alone>>

\* The USIM reports its own number and HandleAuthenticationFailure asks for a
\* vector with it; the second such failure ends the attempt.
HandleSynchFailure(a) ==
    /\ at[a] = "ue" /\ ~Fresh(sqn[a])
    /\ IF times[a] + 1 >= 2 THEN Ends(a, "rejected")
       ELSE Goes(a, "query", 0, sqnMs, times[a] + 1, guti[a])
    /\ UNCHANGED <<sqnHe, sqnMs, ausf, filled, key, alone>>

\* Cause ngKSI already in use: the same challenge again, and the count restarts.
HandleKsiInUse(a) ==
    /\ at[a] = "ue" /\ times[a] > 0
    /\ Goes(a, "ue", sqn[a], auts[a], 0, guti[a])
    /\ UNCHANGED <<sqnHe, sqnMs, ausf, filled, key, alone>>

\* Cause MAC failure or non-5G authentication unacceptable.
HandleRefusal(a) ==
    /\ at[a] = "ue" /\ Ends(a, "error")
    /\ UNCHANGED <<sqnHe, sqnMs, ausf, filled, key, alone>>

\* HandleIdentityResponse, then AuthRestartEvent.
HandleIdentityResponse(a) ==
    /\ at[a] = "identity" /\ Step(a, "query")
    /\ UNCHANGED <<sqnHe, sqnMs, ausf, filled, key, alone>>

Network(a) == \/ UdmQuery(a) \/ UdmPatch(a) \/ AusfStore(a) \/ AusfFill(a)
              \/ AusfConfirm(a) \/ CallFails(a) \/ HandleAuthenticationResponse(a)
UE(a) == UeAnswers(a) \/ HandleSynchFailure(a) \/ HandleIdentityResponse(a)

Next ==
    \/ \E a \in Attempt : \/ \E g \in BOOLEAN : Start(a, g)
                          \/ Network(a) \/ UE(a) \/ HandleKsiInUse(a) \/ HandleRefusal(a)
    \/ AusfRestart

Spec == Init /\ [][Next]_vars

\* Handlers run to their end, and the UE answers what it is asked.
FairSpec == Spec /\ \A a \in Attempt : WF_vars(Network(a)) /\ WF_vars(UE(a))

-----------------------------------------------------------------------------
(* Properties. *)

\* The key the AMF takes from the AUSF's answer is the key of the challenge the
\* UE answered, although the AUSF looks its context up by SUPI and another
\* attempt may have replaced it.
KeyOfOwnVector == \A a \in Attempt : at[a] = "success" => key[a] = a

\* No attempt of a UE that answers correctly is rejected unless another attempt
\* ran at the same time: whatever earlier races left in the UDR (a lost update,
\* a number that went back, a wrapped one), one resync is enough.
RejectedOnlyIfOverlapped == \A a \in Attempt : at[a] = "rejected" => ~alone[a]

\* Every attempt ends, whatever the others do.
AttemptEnds == \A a \in Attempt : at[a] = "query" ~> at[a] \in Ended
=============================================================================

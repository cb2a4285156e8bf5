------------------------- MODULE DiscoveryCacheProofs -------------------------
(***************************************************************************)
(* Proofs that the discovery cache returns no instance that has been gone  *)
(* for more than TTL + Delay and hides none that has been there for that   *)
(* long, for any callers, instances, TTL and Delay.                        *)
(***************************************************************************)
EXTENDS DiscoveryCache, TLAPS

Entry == [res : SUBSET Instance, age : 0 .. TTL + 1, read : 0 .. Horizon + 1]
Call == [pc : {"idle", "query", "answer", "sleep"}, res : SUBSET Instance,
         read : Nat, wait : Nat]
Result == [ok : BOOLEAN, res : SUBSET Instance, read : Nat, hit : BOOLEAN]

Types ==
    /\ profiles \subseteq Instance
    /\ here \in [Instance -> 0 .. Horizon + 1] /\ gone \in [Instance -> 0 .. Horizon + 1]
    /\ store \in Entry /\ call \in [Caller -> Call] /\ ret \in Result

\* A reading of the NRF's profiles made t ticks ago: what it lists left no more
\* than t ticks ago, and what has been there for longer is listed.
Reading(h, g, res, t) ==
    /\ \A n \in res : g[n] <= t
    /\ \A n \in Instance : h[n] > t => n \in res

\* Every answer on its way and every entry that has not expired is such a
\* reading; an answer travels at most Delay, so an entry is read at most Delay
\* before it is stored, however the answers overtake each other.
Readings ==
    /\ \A n \in profiles : gone[n] = 0
    /\ \A n \in Instance \ profiles : here[n] = 0
    /\ \A c \in Caller : call[c].pc \in {"query", "answer"} => call[c].wait <= Delay
    /\ \A c \in Caller : call[c].pc = "answer" =>
         call[c].read <= call[c].wait /\ Reading(here, gone, call[c].res, call[c].read)
    /\ store.age <= TTL =>
         store.read <= store.age + Delay /\ Reading(here, gone, store.res, store.read)

IInv == Types /\ Readings /\ StaleBound /\ FoundInTime

-----------------------------------------------------------------------------

\* The bounds are natural numbers.
LEMMA Bounds == TTL \in Nat /\ Delay \in Nat /\ Horizon = TTL + Delay /\ Horizon \in Nat
  BY CacheAssumption DEF Horizon

\* The constant records have their types.
LEMMA ConstantRecords ==
    /\ None \in Result /\ Empty \in Entry /\ Idle \in Call
    /\ None.ok = FALSE /\ None.res = {} /\ Empty.age = TTL + 1 /\ Idle.pc = "idle"
    /\ Idle.wait = 0
    /\ [Idle EXCEPT !.pc = "sleep"] \in Call /\ [Idle EXCEPT !.pc = "sleep"].pc = "sleep"
    /\ [Idle EXCEPT !.pc = "query"] \in Call /\ [Idle EXCEPT !.pc = "query"].pc = "query"
    /\ [Idle EXCEPT !.pc = "query"].wait = 0
  BY Bounds DEF None, Empty, Idle, Result, Entry, Call

\* Nothing returned is within both bounds.
LEMMA NoneInBounds ==
    ASSUME ret' = None
    PROVE  StaleBound' /\ FoundInTime' /\ ret' \in Result
  BY ConstantRecords DEF StaleBound, FoundInTime

\* A reading made at most Horizon ago is within both bounds when it is returned.
LEMMA ReadingInBounds ==
    ASSUME Types, NEW r \in Result, ret' = r, Reading(here, gone, r.res, r.read), r.read <= Horizon,
           UNCHANGED <<here, gone>>
    PROVE  StaleBound' /\ FoundInTime'
  <1>1. r.read \in Nat /\ r.res \subseteq Instance /\ Horizon \in Nat
    BY Bounds DEF Result
  <1>2. \A n \in Instance : gone[n] \in Nat /\ here[n] \in Nat
    BY Bounds DEF Types
  <1>3. \A n \in r.res : gone[n] <= Horizon
    BY <1>1, <1>2 DEF Reading
  <1>4. \A n \in Instance : here[n] > Horizon => n \in r.res
    BY <1>1, <1>2 DEF Reading
  <1> QED
    BY <1>3, <1>4 DEF StaleBound, FoundInTime

\* Returning to a caller leaves it idle or asleep, with no answer on its way.
LEMMA ReturnKeeps ==
    ASSUME Types, NEW c \in Caller, NEW r \in Result, Return(c, r)
    PROVE  /\ call' \in [Caller -> Call] /\ ret' = r
           /\ call'[c].pc \in {"idle", "sleep"}
           /\ \A d \in Caller : d # c => call'[d] = call[d]
  BY ConstantRecords DEF Types, Return, Found

\* The initial state satisfies the invariant.
LEMMA InitIInv == Init => IInv
  <1> SUFFICES ASSUME Init PROVE IInv
    OBVIOUS
  <1>1. Types
    BY Bounds, ConstantRecords DEF Init, Types
  <1>2. Readings
    BY Bounds, ConstantRecords DEF Init, Readings
  <1>3. StaleBound /\ FoundInTime
    BY ConstantRecords DEF Init, StaleBound, FoundInTime
  <1> QED
    BY <1>1, <1>2, <1>3 DEF IInv

\* A lookup keeps the invariant: a hit is a reading at most Horizon old.
LEMMA SendSearchIInv ==
    ASSUME IInv, NEW c \in Caller, SendSearchNFInstances(c)
    PROVE  IInv'
  <1>1. UNCHANGED <<profiles, here, gone, store>>
    BY DEF SendSearchNFInstances, registry
  <1>2. CASE Get /\ Return(c, [ok |-> TRUE, res |-> store.res, read |-> store.read, hit |-> TRUE])
    <2> DEFINE r == [ok |-> TRUE, res |-> store.res, read |-> store.read, hit |-> TRUE]
    <2>1. /\ store.res \subseteq Instance /\ store.age \in 0 .. TTL + 1
          /\ store.read \in 0 .. Horizon + 1 /\ store.age <= TTL
      BY <1>2 DEF IInv, Types, Entry, Get
    <2>2. store.read \in Nat /\ store.read <= Horizon /\ Reading(here, gone, store.res, store.read)
      BY <2>1, Bounds DEF IInv, Readings
    <2>3. r \in Result /\ r.res = store.res /\ r.read = store.read
      BY <2>1, <2>2 DEF Result
    <2> HIDE DEF r
    <2>4. /\ call' \in [Caller -> Call] /\ ret' = r
          /\ call'[c].pc \in {"idle", "sleep"}
          /\ \A d \in Caller : d # c => call'[d] = call[d]
      BY <1>2, <2>3, ReturnKeeps DEF IInv, r
    <2>5. StaleBound' /\ FoundInTime'
      BY <1>1, <2>2, <2>3, <2>4, ReadingInBounds DEF IInv
    <2>6. Types'
      BY <1>1, <2>3, <2>4 DEF IInv, Types
    <2>7. Readings'
      BY <1>1, <2>4 DEF IInv, Readings
    <2> QED
      BY <2>5, <2>6, <2>7 DEF IInv
  <1>3. CASE call' = [call EXCEPT ![c] = [Idle EXCEPT !.pc = "query"]] /\ ret' = None
    <2>1. /\ call' \in [Caller -> Call] /\ call'[c].pc = "query" /\ call'[c].wait = 0
          /\ \A d \in Caller : d # c => call'[d] = call[d]
      BY <1>3, ConstantRecords DEF IInv, Types
    <2>2. Types'
      BY <1>1, <1>3, <2>1, NoneInBounds DEF IInv, Types
    <2>3. Readings'
      BY <1>1, <2>1, Bounds DEF IInv, Readings
    <2> QED
      BY <1>3, <2>2, <2>3, NoneInBounds DEF IInv
  <1> QED
    BY <1>2, <1>3 DEF SendSearchNFInstances

\* The NRF's answer is a reading made now.
LEMMA NFDiscoveryIInv ==
    ASSUME IInv, NEW c \in Caller, NFDiscoveryProcedure(c)
    PROVE  IInv'
  <1>1. UNCHANGED <<profiles, here, gone, store>> /\ ret' = None
    BY DEF NFDiscoveryProcedure, registry
  <1>2. /\ call' \in [Caller -> Call]
        /\ call'[c].pc = "answer" /\ call'[c].res = profiles /\ call'[c].read = 0
        /\ call'[c].wait = call[c].wait
        /\ \A d \in Caller : d # c => call'[d] = call[d]
    BY Zenon DEF NFDiscoveryProcedure, IInv, Types, Call
  <1>3. call[c].wait \in Nat /\ call[c].wait <= Delay
    BY DEF NFDiscoveryProcedure, IInv, Types, Call, Readings
  <1>4. Types'
    BY <1>1, <1>2, NoneInBounds DEF IInv, Types
  <1>5. Reading(here, gone, profiles, 0)
    <2>1. \A n \in profiles : gone[n] = 0
      BY DEF IInv, Readings
    <2>2. \A n \in Instance : here[n] > 0 => n \in profiles
      BY DEF IInv, Readings
    <2> QED
      BY <2>1, <2>2 DEF Reading
  <1>6. Readings'
    BY <1>1, <1>2, <1>3, <1>5 DEF IInv, Readings
  <1> QED
    BY <1>1, <1>4, <1>6, NoneInBounds DEF IInv

\* An answer that arrives is returned and stored, at most Delay old.
LEMMA SearchAnsweredIInv ==
    ASSUME IInv, NEW c \in Caller, SearchAnswered(c)
    PROVE  IInv'
  <1> DEFINE r == [ok |-> TRUE, res |-> call[c].res, read |-> call[c].read, hit |-> FALSE]
  <1>1. UNCHANGED <<profiles, here, gone>>
    BY DEF SearchAnswered, registry
  <1>2. /\ call[c].res \subseteq Instance /\ call[c].read \in Nat /\ call[c].wait \in Nat
        /\ call[c].read <= call[c].wait /\ call[c].wait <= Delay
        /\ Reading(here, gone, call[c].res, call[c].read)
    BY DEF SearchAnswered, IInv, Types, Call, Readings
  <1>3. call[c].read <= Delay /\ call[c].read <= Horizon
    BY <1>2, Bounds
  <1>4. r \in Result /\ r.res = call[c].res /\ r.read = call[c].read
    BY <1>2 DEF Result
  <1>5. /\ store' \in Entry /\ store'.age = 0
        /\ store'.res = call[c].res /\ store'.read = call[c].read
    BY <1>2, <1>3, Bounds DEF SearchAnswered, Put, Entry
  <1>6. Return(c, r)
    BY DEF SearchAnswered
  <1> HIDE DEF r
  <1>7. /\ call' \in [Caller -> Call] /\ ret' = r
        /\ call'[c].pc \in {"idle", "sleep"}
        /\ \A d \in Caller : d # c => call'[d] = call[d]
    BY <1>4, <1>6, ReturnKeeps DEF IInv
  <1>8. Types'
    BY <1>1, <1>4, <1>5, <1>7 DEF IInv, Types
  <1>9. Readings'
    BY <1>1, <1>2, <1>3, <1>5, <1>7, Bounds DEF IInv, Readings
  <1>10. StaleBound' /\ FoundInTime'
    BY <1>1, <1>2, <1>3, <1>4, <1>7, ReadingInBounds DEF IInv
  <1> QED
    BY <1>8, <1>9, <1>10 DEF IInv

\* A query that fails returns and stores nothing.
LEMMA SearchFailsIInv ==
    ASSUME IInv, NEW c \in Caller, SearchFails(c)
    PROVE  IInv'
  <1>1. UNCHANGED <<profiles, here, gone, store>>
    BY DEF SearchFails, registry
  <1>2. /\ call' \in [Caller -> Call] /\ ret' = None
        /\ call'[c].pc \in {"idle", "sleep"}
        /\ \A d \in Caller : d # c => call'[d] = call[d]
    BY ConstantRecords, ReturnKeeps DEF IInv, SearchFails
  <1>3. Types'
    BY <1>1, <1>2, NoneInBounds DEF IInv, Types
  <1>4. Readings'
    BY <1>1, <1>2 DEF IInv, Readings
  <1> QED
    BY <1>2, <1>3, <1>4, NoneInBounds DEF IInv

\* An instance that registers or leaves starts its clock, so a reading made
\* before it changes stays one.
LEMMA ChangeIInv ==
    ASSUME IInv, NEW n \in Instance, Register(n) \/ Deregister(n)
    PROVE  IInv'
  <1>1. UNCHANGED <<store, call>> /\ ret' = None
    BY DEF Register, Deregister
  <1>2. /\ profiles' \subseteq Instance
        /\ here' \in [Instance -> 0 .. Horizon + 1] /\ gone' \in [Instance -> 0 .. Horizon + 1]
        /\ here'[n] = 0 /\ gone'[n] = 0
        /\ \A m \in Instance : m # n => here'[m] = here[m] /\ gone'[m] = gone[m]
        /\ \A m \in Instance : m # n => (m \in profiles' <=> m \in profiles)
    BY Bounds DEF Register, Deregister, IInv, Types, Readings
  <1>3. Types'
    BY <1>1, <1>2, NoneInBounds DEF IInv, Types
  <1>4. ASSUME NEW res \in SUBSET Instance, NEW t \in Nat, Reading(here, gone, res, t)
        PROVE  Reading(here', gone', res, t)
    <2>1. \A m \in res : gone'[m] <= t
      BY <1>2, <1>4 DEF Reading
    <2>2. \A m \in Instance : here'[m] > t => m \in res
      BY <1>2, <1>4 DEF Reading
    <2> QED
      BY <2>1, <2>2 DEF Reading
  <1>5. Readings'
    <2>1. /\ \A m \in profiles' : gone'[m] = 0
          /\ \A m \in Instance \ profiles' : here'[m] = 0
      BY <1>2 DEF IInv, Readings
    <2>2. \A c \in Caller : call[c].pc = "answer" => Reading(here', gone', call[c].res, call[c].read)
      BY <1>4 DEF IInv, Readings, Types, Call
    <2>3. store.age <= TTL => Reading(here', gone', store.res, store.read)
      BY <1>4, Bounds DEF IInv, Readings, Types, Entry
    <2> QED
      BY <1>1, <2>1, <2>2, <2>3 DEF IInv, Readings, Reading
  <1> QED
    BY <1>1, <1>3, <1>5, NoneInBounds DEF IInv

\* A clock goes on by one tick until it stands at its bound.
LEMMA UpToBounds ==
    ASSUME NEW m \in Nat, NEW x \in 0 .. m
    PROVE  /\ UpTo(x, m) \in 0 .. m /\ UpTo(x, m) <= x + 1
           /\ UpTo(x, m) = x + 1 \/ UpTo(x, m) = m
           /\ UpTo(x, m) < m => UpTo(x, m) = x + 1
  BY DEF UpTo

\* A tick ages readings and clocks alike.
LEMMA TickIInv ==
    ASSUME IInv, Tick
    PROVE  IInv'
  <1>1. profiles' = profiles /\ ret' = None /\ Horizon \in Nat /\ TTL \in Nat /\ Delay \in Nat
    BY Bounds, Zenon DEF Tick
  <1>0. Horizon + 1 \in Nat /\ TTL + 1 \in Nat
    BY <1>1
  <1>2. \A n \in Instance : /\ here[n] \in 0 .. Horizon + 1 /\ here'[n] \in 0 .. Horizon + 1
                            /\ here'[n] <= here[n] + 1 /\ (n \notin profiles => here'[n] = 0)
    <2> TAKE n \in Instance
    <2>1. here[n] \in 0 .. Horizon + 1
      BY DEF IInv, Types
    <2>2. here'[n] = IF n \in profiles THEN UpTo(here[n], Horizon + 1) ELSE 0
      BY Zenon DEF Tick
    <2>3. UpTo(here[n], Horizon + 1) \in 0 .. Horizon + 1 /\ UpTo(here[n], Horizon + 1) <= here[n] + 1
      BY <1>0, <2>1, UpToBounds, Zenon
    <2>4. CASE n \in profiles
      <3>1. here'[n] = UpTo(here[n], Horizon + 1)
        BY <2>2, <2>4
      <3> QED
        BY <2>1, <2>3, <2>4, <3>1
    <2>5. CASE n \notin profiles
      <3>1. here'[n] = 0
        BY <2>2, <2>5
      <3> QED
        BY <1>0, <2>1, <2>5, <3>1
    <2> QED
      BY <2>4, <2>5
  <1>3. \A n \in Instance : /\ gone[n] \in 0 .. Horizon + 1 /\ gone'[n] \in 0 .. Horizon + 1
                            /\ gone'[n] <= gone[n] + 1 /\ (n \in profiles => gone'[n] = 0)
    <2> TAKE n \in Instance
    <2>1. gone[n] \in 0 .. Horizon + 1
      BY DEF IInv, Types
    <2>2. gone'[n] = IF n \in profiles THEN 0 ELSE UpTo(gone[n], Horizon + 1)
      BY Zenon DEF Tick
    <2>3. UpTo(gone[n], Horizon + 1) \in 0 .. Horizon + 1 /\ UpTo(gone[n], Horizon + 1) <= gone[n] + 1
      BY <1>0, <2>1, UpToBounds, Zenon
    <2>4. CASE n \notin profiles
      <3>1. gone'[n] = UpTo(gone[n], Horizon + 1)
        BY <2>2, <2>4
      <3> QED
        BY <2>1, <2>3, <2>4, <3>1
    <2>5. CASE n \in profiles
      <3>1. gone'[n] = 0
        BY <2>2, <2>5
      <3> QED
        BY <1>0, <2>1, <2>5, <3>1
    <2> QED
      BY <2>4, <2>5
  <1>4. ASSUME NEW res \in SUBSET Instance, NEW t \in Nat, NEW u \in Nat, Reading(here, gone, res, t),
               u = t + 1 \/ u = Horizon + 1
        PROVE  Reading(here', gone', res, u)
    <2>1. \A m \in res : gone'[m] <= u
      BY <1>1, <1>3, <1>4 DEF Reading
    <2>2. \A m \in Instance : here'[m] > u => m \in res
      BY <1>1, <1>2, <1>4 DEF Reading
    <2> QED
      BY <2>1, <2>2 DEF Reading
  <1>5. \A c \in Caller :
          /\ call'[c] \in Call /\ call'[c].pc = call[c].pc /\ call'[c].res = call[c].res
          /\ call[c].pc \in {"query", "answer"} => call'[c].wait = call[c].wait + 1
          /\ call[c].pc = "answer" => call'[c].read = call[c].read + 1
    <2> TAKE c \in Caller
    <2>1. call[c] \in Call
      BY DEF IInv, Types
    <2>2. call'[c] = IF call[c].pc = "query" THEN [call[c] EXCEPT !.wait = @ + 1]
                     ELSE IF call[c].pc = "answer"
                     THEN [call[c] EXCEPT !.wait = @ + 1, !.read = @ + 1] ELSE call[c]
      BY Zenon DEF Tick
    <2>3. CASE call[c].pc = "query"
      <3>1. call'[c] = [call[c] EXCEPT !.wait = @ + 1]
        BY <2>2, <2>3
      <3> QED
        BY <2>1, <2>3, <3>1 DEF Call
    <2>4. CASE call[c].pc = "answer"
      <3>1. call'[c] = [call[c] EXCEPT !.wait = @ + 1, !.read = @ + 1]
        BY <2>2, <2>4
      <3>2. call[c].wait + 1 \in Nat /\ call[c].read + 1 \in Nat
        BY <2>1 DEF Call
      <3>3. call'[c] \in Call
        BY <2>1, <3>1, <3>2, Zenon DEF Call
      <3> QED
        BY <2>1, <2>4, <3>1, <3>3 DEF Call
    <2>5. CASE call[c].pc \notin {"query", "answer"}
      BY <2>1, <2>2, <2>5
    <2> QED
      BY <2>3, <2>4, <2>5
  <1>6. \A c \in Caller :
          /\ call[c].pc \in {"query", "answer"} => call'[c].wait <= Delay
          /\ call[c].pc = "answer" => /\ call'[c].read <= call'[c].wait
                                      /\ Reading(here', gone', call'[c].res, call'[c].read)
    <2> TAKE c \in Caller
    <2>1. call[c].wait \in Nat /\ call[c].read \in Nat /\ call[c].res \in SUBSET Instance
      BY DEF IInv, Types, Call
    <2>2. call[c].pc \in {"query", "answer"} => call[c].wait < Delay
      BY Zenon DEF Tick
    <2>3. CASE call[c].pc = "answer"
      <3>1. call[c].read <= call[c].wait /\ Reading(here, gone, call[c].res, call[c].read)
        BY <2>3 DEF IInv, Readings
      <3>2. Reading(here', gone', call[c].res, call[c].read + 1)
        BY <1>4, <2>1, <3>1
      <3>3. Reading(here', gone', call'[c].res, call'[c].read)
        BY <1>5, <2>3, <3>2 DEF Reading
      <3> QED
        BY <1>1, <1>5, <2>1, <2>2, <2>3, <3>1, <3>3
    <2> QED
      BY <1>1, <1>5, <2>1, <2>2, <2>3
  <1>7. /\ store' \in Entry
        /\ store'.age <= TTL => /\ store'.read <= store'.age + Delay
                                /\ Reading(here', gone', store'.res, store'.read)
    <2>1. CASE store = Empty
      <3>1. store' = Empty
        BY <2>1, Zenon DEF Tick
      <3> QED
        BY <1>1, <3>1, ConstantRecords
    <2>2. CASE store # Empty
      <3>1. /\ store.age \in 0 .. TTL + 1 /\ store.read \in 0 .. Horizon + 1
            /\ store.res \in SUBSET Instance
        BY DEF IInv, Types, Entry
      <3>2. /\ store' \in Entry /\ store'.res = store.res
            /\ store'.age = UpTo(store.age, TTL + 1)
            /\ store'.read = UpTo(store.read, Horizon + 1)
        <4>1. store' = [store EXCEPT !.age = UpTo(@, TTL + 1), !.read = UpTo(@, Horizon + 1)]
          BY <2>2, Zenon DEF Tick
        <4>2. /\ UpTo(store.age, TTL + 1) \in 0 .. TTL + 1
              /\ UpTo(store.read, Horizon + 1) \in 0 .. Horizon + 1
          BY <1>0, <3>1, UpToBounds, Zenon
        <4> QED
          BY <4>1, <4>2, Zenon DEF Entry, IInv, Types
      <3>3. CASE store'.age <= TTL
        <4>1. store.age < TTL /\ store'.age = store.age + 1
          BY <1>1, <3>1, <3>2, <3>3 DEF UpTo
        <4>2. store.read <= store.age + Delay /\ Reading(here, gone, store.res, store.read)
          BY <1>1, <3>1, <4>1 DEF IInv, Readings
        <4>3. store'.read \in Nat /\ (store'.read = store.read + 1 \/ store'.read = Horizon + 1)
          BY <1>1, <3>1, <3>2 DEF UpTo
        <4>4. store'.read <= store.read + 1
          BY <1>1, <3>1, <3>2 DEF UpTo
        <4>5. Reading(here', gone', store.res, store'.read)
          BY <1>1, <1>4, <3>1, <4>2, <4>3
        <4> QED
          BY <1>1, <3>1, <3>2, <4>1, <4>2, <4>3, <4>4, <4>5 DEF Reading
      <3> QED
        BY <3>2, <3>3
    <2> QED
      BY <2>1, <2>2
  <1>8. Types'
    <2>1. call' \in [Caller -> Call]
      BY <1>5, ZenonT(60) DEF Tick
    <2>2. here' \in [Instance -> 0 .. Horizon + 1] /\ gone' \in [Instance -> 0 .. Horizon + 1]
      BY <1>2, <1>3, Zenon DEF Tick
    <2> QED
      BY <1>1, <1>7, <2>1, <2>2, NoneInBounds, SMTT(30) DEF IInv, Types
  <1>9. Readings'
    BY <1>1, <1>2, <1>3, <1>5, <1>6, <1>7 DEF Readings, IInv, Types
  <1> QED
    BY <1>1, <1>8, <1>9, NoneInBounds, SMTT(30) DEF IInv

\* Every step keeps the invariant.
LEMMA NextIInv == IInv /\ [Next]_vars => IInv'
  <1> SUFFICES ASSUME IInv, [Next]_vars PROVE IInv'
    OBVIOUS
  <1>1. CASE \E c \in Caller : SendSearchNFInstances(c)
    BY <1>1, SendSearchIInv
  <1>2. CASE \E c \in Caller : NFDiscoveryProcedure(c)
    BY <1>2, NFDiscoveryIInv
  <1>3. CASE \E c \in Caller : SearchAnswered(c)
    BY <1>3, SearchAnsweredIInv
  <1>4. CASE \E c \in Caller : SearchFails(c)
    BY <1>4, SearchFailsIInv
  <1>5. CASE \E n \in Instance : Register(n) \/ Deregister(n)
    BY <1>5, ChangeIInv
  <1>6. CASE Tick
    BY <1>6, TickIInv
  <1>7. CASE UNCHANGED vars
    BY <1>7 DEF vars, registry, IInv, Types, Readings, StaleBound, FoundInTime
  <1> QED
    BY <1>1, <1>2, <1>3, <1>4, <1>5, <1>6, <1>7 DEF Next, Works

\* The invariant holds throughout every behaviour.
THEOREM Invariance == Spec => []IInv
  BY InitIInv, NextIInv, PTL DEF Spec

\* disccache.Get never returns an instance that left the NRF more than TTL plus
\* the longest answer ago, whatever order the answers are stored in.
THEOREM NeverTooStale == Spec => []StaleBound
  <1>1. IInv => StaleBound
    BY DEF IInv
  <1> QED
    BY <1>1, Invariance, PTL

\* A lookup that succeeds lists every instance registered for longer than that,
\* also when an empty result had been stored in the cache.
THEOREM AlwaysFoundInTime == Spec => []FoundInTime
  <1>1. IInv => FoundInTime
    BY DEF IInv
  <1> QED
    BY <1>1, Invariance, PTL
=============================================================================

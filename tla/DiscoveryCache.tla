---------------------------- MODULE DiscoveryCache -----------------------------
(***************************************************************************)
(* The discovery cache of an NF (package disccache of this fork) between   *)
(* goroutines that look for an NF and the NRF that knows which are         *)
(* registered.  One cache key.  Time is discrete: the cache keeps a result *)
(* TTL ticks, the NRF and the network take at most Delay ticks for an      *)
(* answer.  The callers are those of getSubscribedNssai, which try again   *)
(* after a while when a lookup fails or finds nothing.                     *)
(***************************************************************************)
EXTENDS Integers

CONSTANTS Caller, Instance,
          TTL, Delay,
          MaxChanges,      \* bound: registrations and deregistrations
          MaxErrors        \* bound: failed queries

ASSUME CacheAssumption == {TTL, Delay, MaxChanges, MaxErrors} \subseteq Nat

VARIABLES profiles,   \* the instances registered at the NRF
          here, gone, \* ticks since an instance registered, since it left
          store,      \* the entry: its result, its age, the ticks since the NRF read it
          call,       \* the callers
          ret,        \* what the last step returned to a caller
          changes, errors

registry == <<profiles, here, gone, changes>>
vars == <<registry, store, call, ret, errors>>

Horizon == TTL + Delay
None == [ok |-> FALSE, res |-> {}, read |-> 0, hit |-> FALSE]
Empty == [res |-> {}, age |-> TTL + 1, read |-> 0]   \* no entry: like an old one
Idle == [pc |-> "idle", res |-> {}, read |-> 0, wait |-> 0]

Init == /\ profiles = {} /\ here = [n \in Instance |-> 0]
        /\ gone = [n \in Instance |-> Horizon + 1]
        /\ store = Empty /\ call = [c \in Caller |-> Idle] /\ ret = None
        /\ changes = 0 /\ errors = 0

\* SearchUdmSdmInstance takes an instance from the result, if there is one.
Found(r) == r.ok /\ r.res # {}

\* A result reaches the caller: getSubscribedNssai leaves its loop, or sleeps and
\* tries again.
Return(c, r) ==
  /\ ret' = r
  /\ call' = [call EXCEPT ![c] = IF Found(r) THEN Idle ELSE [Idle EXCEPT !.pc = "sleep"]]

\* Mutant: an entry does not expire.
GetForever == store # Empty

\* disccache.Get: is there an entry not older than TTL?
Get == store.age <= TTL

\* Mutant: no second try.
SendSearchNFInstancesOnce(c) ==
  /\ call[c].pc = "idle"
  /\ IF Get
     THEN /\ Return(c, [ok |-> TRUE, res |-> store.res, read |-> store.read, hit |-> TRUE])
     ELSE /\ call' = [call EXCEPT ![c] = [Idle EXCEPT !.pc = "query"]]
          /\ ret' = None
  /\ UNCHANGED <<registry, store, errors>>

\* SendSearchNFInstances: a hit is returned, a miss queries the NRF.
SendSearchNFInstances(c) ==
  /\ call[c].pc \in {"idle", "sleep"}
  /\ IF Get
     THEN /\ Return(c, [ok |-> TRUE, res |-> store.res, read |-> store.read, hit |-> TRUE])
     ELSE /\ call' = [call EXCEPT ![c] = [Idle EXCEPT !.pc = "query"]]
          /\ ret' = None
  /\ UNCHANGED <<registry, store, errors>>

\* NFDiscoveryProcedure: the NRF reads the profiles that match.
NFDiscoveryProcedure(c) ==
  /\ call[c].pc = "query"
  /\ call' = [call EXCEPT ![c].pc = "answer", ![c].res = profiles, ![c].read = 0]
  /\ ret' = None
  /\ UNCHANGED <<registry, store, errors>>

\* Mutant: Put adds to the entry.
PutMore(r, t) == store' = [res |-> store.res \cup r, age |-> 0, read |-> t]

\* disccache.Put: replaces the entry; its age counts from now.
Put(r, t) == store' = [res |-> r, age |-> 0, read |-> t]

\* The answer arrives and is stored, with or without instances.
SearchAnswered(c) ==
  /\ call[c].pc = "answer"
  /\ Put(call[c].res, call[c].read)
  /\ Return(c, [ok |-> TRUE, res |-> call[c].res, read |-> call[c].read, hit |-> FALSE])
  /\ UNCHANGED <<registry, errors>>

\* The query fails: nothing is stored.
SearchFails(c) ==
  /\ call[c].pc \in {"query", "answer"} /\ errors < MaxErrors
  /\ errors' = errors + 1
  /\ Return(c, None)
  /\ UNCHANGED <<registry, store>>

--------------------------------------------------------------------------------
(* The registry changes (NrfRegistry has the NRF's handlers in full), time   *)
(* passes.                                                                   *)

Register(n) ==
  /\ n \notin profiles /\ changes < MaxChanges /\ changes' = changes + 1
  /\ profiles' = profiles \cup {n}
  /\ here' = [here EXCEPT ![n] = 0] /\ gone' = [gone EXCEPT ![n] = 0]
  /\ ret' = None /\ UNCHANGED <<store, call, errors>>
Deregister(n) ==
  /\ n \in profiles /\ changes < MaxChanges /\ changes' = changes + 1
  /\ profiles' = profiles \ {n}
  /\ here' = [here EXCEPT ![n] = 0]
  /\ ret' = None /\ UNCHANGED <<gone, store, call, errors>>

UpTo(x, m) == IF x < m THEN x + 1 ELSE m
Tick ==
  /\ \A c \in Caller : call[c].pc \in {"query", "answer"} => call[c].wait < Delay
  /\ here' = [n \in Instance |-> IF n \in profiles THEN UpTo(here[n], Horizon + 1) ELSE 0]
  /\ gone' = [n \in Instance |-> IF n \in profiles THEN 0 ELSE UpTo(gone[n], Horizon + 1)]
  /\ store' = IF store = Empty THEN Empty
              ELSE [store EXCEPT !.age = UpTo(@, TTL + 1), !.read = UpTo(@, Horizon + 1)]
  /\ call' = [c \in Caller |->
                IF call[c].pc = "query" THEN [call[c] EXCEPT !.wait = @ + 1]
                ELSE IF call[c].pc = "answer" THEN [call[c] EXCEPT !.wait = @ + 1, !.read = @ + 1]
                ELSE call[c]]
  /\ ret' = None /\ UNCHANGED <<profiles, changes, errors>>

Works(c) == SendSearchNFInstances(c) \/ NFDiscoveryProcedure(c) \/ SearchAnswered(c)

Next == \/ \E c \in Caller : Works(c) \/ SearchFails(c)
        \/ \E n \in Instance : Register(n) \/ Deregister(n)
        \/ Tick

Spec == Init /\ [][Next]_vars

\* Time passes; a goroutine goes on; the NRF answers; a caller in the retry loop
\* wakes up.  A caller that is idle need not look again.
FairSpec == /\ Spec /\ WF_vars(Tick)
            /\ \A c \in Caller : WF_vars(call[c].pc # "idle" /\ Works(c))

--------------------------------------------------------------------------------
(* Properties.                                                               *)

\* Every variable has a value the program can give it.
TypeOK ==
  /\ profiles \subseteq Instance
  /\ here \in [Instance -> 0..(Horizon + 1)] /\ gone \in [Instance -> 0..(Horizon + 1)]
  /\ store.res \subseteq Instance /\ store.age \in 0..(TTL + 1)
  /\ \A c \in Caller : /\ call[c].pc \in {"idle", "query", "answer", "sleep"}
                       /\ call[c].wait \in 0..Delay /\ call[c].read <= call[c].wait

\* A lookup never returns an instance that left more than TTL + Delay ago, also
\* when answers overtake each other on their way into the cache.
StaleBound == \A n \in ret.res : gone[n] <= Horizon

\* A successful lookup returns every instance that has been registered for more
\* than TTL + Delay: neither an empty result in the cache nor a late answer hides
\* it longer.
FoundInTime == ret.ok => \A n \in Instance : here[n] > Horizon => n \in ret.res

\* The retry loop of getSubscribedNssai ends while some instance stays registered,
\* although every try may be answered from the cache.
RetryEnds ==
  \A c \in Caller : call[c].pc # "idle" ~> call[c].pc = "idle" \/ profiles = {}

--------------------------------------------------------------------------------
(* Refuted by the code; see the README.                                      *)

\* "TTL is the maximum age of a cached discovery result before it is refreshed"
\* (disccache.go): a hit is at most TTL older than the NRF's reading.
TTLIsMaximumAge == ret.hit => ret.read <= TTL

\* A lookup that finds nothing is not answered from the cache.
EmptyAskedAgain == ret.hit => ret.res # {}
================================================================================

# A TLA+ model of parts of free5GC

This directory holds TLA+ specifications of concurrent and stateful parts of the
free5GC fork in `src/`, TLC configurations for small instances of them, and
proofs checked by TLAPS. `PROJECT.json` lists components, runs, mutants, the map
from definitions to source lines, findings, hazards and theorems.

## The system and what is modelled

free5GC is a 5G core of network functions (NFs) that talk HTTP to each other,
NGAP over SCTP to base stations (AMF) and PFCP over UDP between SMF and UPF. Most
handlers are request forwarding. The state that is hard to test sits where
goroutines, timers and unreliable messages meet, so the model starts there.

| Part | Source (`src/NFs/...`) | Module |
|---|---|---|
| UPF periodic usage reports, UPF shutdown | `upf/internal/forwarder/perio/server.go`, `upf/pkg/app/app.go` | `PerioServer` |
| UPF associations, session slots, SEIDs | `upf/internal/pfcp/{node,association,report,session}.go` | `PfcpNodes` |
| UPF PFCP transactions | `upf/internal/pfcp/{transaction,pfcp}.go` | `PfcpTransactions` |
| UPF rules of a session, kernel failures | `upf/internal/pfcp/{session,node}.go`, `forwarder/{plan,gtp5g}.go` | `SessionRules` |
| AMF NGAP worker pool (of this fork) | `amf/internal/ngap/{scheduler,ue_id_extractor}.go`, `ngap/service/service.go` | `NgapScheduler` |
| AMF UE contexts, GMM state machine, timers | `amf/internal/{context,gmm,nas}/`, `ngap/{handler,dispatcher}.go` | `AmfUeContexts` |
| 5G-AKA across AMF, AUSF, UDM, UDR | `amf/internal/gmm/handler.go`, `ausf/.../ue_authentication.go`, `udm/.../generate_auth_data.go` | `AkaAuthentication` |
| NRF registration, counter, URI list, shutdown | `nrf/internal/sbi/processor/nf_management.go`, `nrf/internal/context/`, `nrf/pkg/service/init.go` | `NrfRegistry` |
| Discovery cache (of this fork), discovery | `amf/internal/disccache/disccache.go`, `amf/.../nrf_service.go`, `nrf/.../nf_discovery.go` | `DiscoveryCache` |
| SMF UE address pool | `smf/internal/context/pool/lazyReusePool.go`, `ue_ip_pool.go` | `LazyReusePool`, abstract `ValueAllocator` |

Three modules compose parts that run in different processes: `AkaAuthentication`
(four NFs), `NrfRegistry` (NFs, NRF, database), `DiscoveryCache` (callers, cache,
NRF). `AmfUeContexts` composes the GMM handlers with timers, gNB and other NFs.

How state and actions correspond to the code:

- **PerioServer.** `evtCh`, `srCh` are the Go channels with their capacities;
  `perioList`, `urrids`, `ticker` the groups and their goroutines; `main` the
  PFCP loop, `closer` the shutdown goroutine. A send on a closed channel sets
  `crashed`. Each case of `Serve`'s switch is an action; `stopTicker` is a
  rendezvous (`StopTicker`), since `stopCh` is unbuffered. Histories: `period` is
  the period a URR was last created with (`None` if it is not periodic), `leaked`
  the timers of failed establishments, `moved` those of URRs that were created
  again with another period. A Create URR IE may name a URR that exists
  (node.go:352 does not look). A request is one operation of a session; an
  establishment creates one URR.
- **PfcpNodes.** `sess` is the slot slice (a deleted slot is `None`), `free` the
  LIFO free list, `rnodes` the association table. `smf` in a session is a history
  field: the SMF that last claimed it. PFCP requests are served one at a time by
  one loop, so each handler is one action.
- **PfcpTransactions.** Time is discrete (`Tick`); message copies carry an age and
  live at most `Delay`; the network loses, duplicates and reorders. A fired timer
  puts a timeout in `trToCh`, from which the loop takes it later.
- **SessionRules.** A request is a set of rule IEs; `kernel` is what gtp5g holds,
  `ids` and `related` what the session believes, `ref` is `refPdrNum`. Any kernel
  operation may fail. `Liberties` says what the SMF may send; `taken` records that
  it did in this session. FAR, QER and BAR are handled alike and share `Rule`.
- **NgapScheduler.** The accept loop, one reader per association, the workers and
  the shutdown. `log` records each message with its routing decision and place.
- **AmfUeContexts.** `ue` are the `AmfUe` objects of one subscriber, `pool` the
  `UePool` entry of its SUPI, `tm` the timer goroutines. A NAS handler is cut
  where it waits for another NF (field `work`); timers, releases and lost
  connections come in between. A Registration Request may fail its integrity check
  and may have a reserved type; `other` says that the Deregistration Request at
  work does not name 3GPP access. A timer that was stopped may fire once more
  (`Lates`), because `select` chooses freely between a tick and `done`.
- **AkaAuthentication.** One subscriber, several attempts. `sqnHe` is the number in
  the UDR, `sqnMs` the one in the USIM; the UDM's read and PATCH are two steps
  (`UdmQuery`, `UdmPatch`), so are storing and filling the AUSF's context.
- **NrfRegistry.** `task` are the running HTTP handlers; each database access is a
  step. A handler goes on when its client has gone. `profiles`, `urilist` survive
  the NRF, `count` (`NfRegistNum`) does not. `deaf` says that a stored
  subscription names a subscriber that does not answer.
- **DiscoveryCache.** One key. `store` is the entry, `call` the callers; time is
  discrete, an answer takes at most `Delay`. `here`, `gone`, `read` are ages.
- **LazyReusePool.** `segs` is the linked list. `Reserve` runs at configuration
  time only: `Init` has the pools that `New` and one `Reserve` of any range make,
  with the code's arithmetic for `remain` (`Removed`). `Implements` is the refinement of
  `ValueAllocator` with `free <- FreeIn(segs)`.

`gtp5g` (kernel module), MongoDB, the network, the UE, the gNB, the USIM and PFCP
peers are external: they are modelled by how the code uses them.

## Runs

| Run | Checks | Bounds | Distinct states |
|---|---|---|---|
| `perio` | a period has a ticker iff it has a group; no group lacks a URR; no ticker is left when `evtCh` closes; once quiet, each periodic URR of a live session is in the group of its period, and other timers are leftovers of two kinds; the shutdown ends but for one standstill | 2 periods, 1 session, 1 URR, capacities 1 | 34,992 |
| `nodes` | free list exact, every session owned once, table agrees with nodes, a setup closes the registered association only | 2 Node IDs, 3 nodes, 3 slots | 129,670 |
| `transactions` | a peer request is handled at most once; each own request ends once, after all retransmissions; no transaction lacks a timer; all end | T=3, N=2, Delay=2 | 115,275 |
| `session` | the session knows what the kernel holds; without liberties `refPdrNum` is exact and a URR is queried exactly when it loses its last PDR | 2 PDRs, 1 URR, 2 IEs, all liberties | 2,428 |
| `ngap` | order per routing key, drain, mapping; the shutdown ends; what was queued is handled | 2 associations, 1 UE each, 2 workers, 3 messages, 1 panic | 170,876 |
| `pool` | free values form a partition; lazy reuse; the list implements `ValueAllocator` | values 1..6 | 16,925 |
| `aka` | a success yields the key of the challenge answered; an attempt alone is not rejected; attempts end | 2 attempts at a time, 3 in all, numbers modulo 6 | 294,368 |
| `amf_contexts` | a registered context is found by SUPI while no other was authenticated; a setup registers with active security only | 2 contexts, 2 requests, 1 late timer | 1,752,148 |
| `amf_procedures` | a waiting procedure has a running timer; procedures end | 1 context, 2 retransmissions, 2 answers under way | 121,222 |
| `discovery_cache` | staleness and blindness bounded by TTL + Delay; the retry loop ends | 2 callers, 2 instances, TTL 2, Delay 2, 3 changes | 353,631 |
| `nrf` | counter, profiles and URI list agree with what NFs were told | 2 NFs, 2 handlers, 2 starts, 2 NRF lives, 1 fault | 1,744,334 |
| `nrf_registration` | a repeated registration ends | 1 NF, else as above | 78,075 |

**Why the bounds are enough.** Capacity 1 makes every channel full and empty;
two of each actor give every pairwise race; three slots let a free list have a
middle; six values let the segment list have three segments with gaps. Three
authentications let two race and a third meet what they left; a modulus of 6 lets
numbers wrap and makes half of them stale to the USIM. TTL and delay of two ticks
let an answer be older than the entry it replaces.

The safety properties of eight of the ten parts are also proved without these
bounds (see Proofs), so there the bounds matter for liveness only.

**A larger instance**, same properties, no error, not among the runs because of
its time: `PerioSafety.cfg` (safety with 2 periods and 2 URRs, so that a group
loses one timer of two; 7,706,408 states).

**Type invariants.** Every module has a `TypeOK`. It holds in the instances of the
runs (add it to their INVARIANTS) and is left out there, since the properties say
more; where there is a proof module, the inductive invariant contains it or a
sharper form (`Types`). For `PerioServer` it is in `PerioSafety.cfg`.

**Modules of the runs.** Runs check the component modules directly. `MCPfcpNodes`,
`MCSessionRules` and `MCNrfRegistry` add what a configuration file cannot say
(symmetry, sets that are not model values).

**Limits to keep in mind when reading a pass.**

- `ShutdownCompletes` allows one outcome besides the end: the standstill of full
  channels, which the code does reach (`PerioShutdownFull.cfg`).
- `TimersFollowSessions` and `KernelCovered` exempt failed establishments, and
  `KernelCovered` failed removals: the code does leave timers and rules behind.
  `TimersFollowSessions` also exempts the old timer of a URR created again with
  another period (`PerioRecreate.cfg`). The period is the one of the last Create
  URR: an Update URR changes the kernel's URR only and never reaches the perio
  server (gtp5g.go:1803), so the timer keeps the old period.
- `InOrder` compares messages routed by the same rule and key only.
- `QueuedHandled` exempts a worker whose handler panicked.
- `AtMostOnce` assumes that copies live shorter than T and `MaxRetrans` < 255.
- `AttemptEnds`, `TimerGuards` and `ProcedureEnds` exempt a procedure that a handler
  left without an answer, and the last two one that lost its connection.
  `TimerGuards` is about authentication, security mode and context setup.
  `ProcedureEnds` also exempts a deregistration that does not name 3GPP access: the
  handler answers it and returns without leaving DeregisteredInitiated
  (gmm/handler.go:2415, 2445).
- `InitialUEMessage` comes on a new connection only while no handler is at work on
  a context in Deregistered or Registered; the timers, releases, lost connections
  and later messages of these states are modelled.
- `AttemptEnds` and `KeyOfOwnVector` are about UEs that compute RES* correctly: the
  branch for a wrong HRES* (gmm/handler.go:2006) is left out. How the USIM compares
  numbers is an assumption (`Fresh`), as no USIM is in the repository.
- `RegistrationEnds` assumes profiles that the NRF can read; an AMF whose profile
  could not be built registers an empty one (amf/pkg/service/init.go:229), which
  the NRF answers with 400 for ever. A database call that fails changes nothing: a
  write that is applied and reported as failed is left out.
- A request that cannot be marshalled (transaction.go:61) is left out of
  `PfcpTransactions`; in `SessionRules` a PDR names a URR at most once
  (node.go:453 would count it twice).
- `RegisteredFindable` is about a subscriber with one authenticated context;
  `RegisteredAuthenticated` about the way through a context setup.
- `AnsweredStored` exempts an instance with two handlers at work, `UriListed`
  registrations that overlapped (`NrfUriList.cfg`), `CountCovers` an NRF that found
  a collection of its predecessor (`NrfAllDeregistered.cfg`). `AnsweredStored` also
  ends when a stopping NRF drops the collection: NFs that are up are unknown to
  the next NRF.
- In `aka` the USIM's number starts just below the wrap (`FirstMs` = {4} of modulus
  6). Apart from the wrap only differences of numbers matter to the code.
- `perio` has one URR, so a group has at most one timer; `PerioSafety.cfg` has two,
  and the theorems hold for any number.
- `worker_num.txt` is written in `NgapScheduler` after the count was taken, by
  concurrent readers; no property is about its contents.

**Fairness.** Go runs every runnable goroutine: weak fairness per goroutine. A
`select` picks at random among ready cases and blocked senders queue in FIFO
order, so a case that is ready again and again is taken: strong fairness for the
channel operations of `PerioServer` and for the timers' sends to `trToCh`. The PFCP
loop ends with any empty datagram (pfcp.go:121); only after the socket was closed
is one sure to come, so `MainStop` is fair only then. Time
passes (weak fairness of `Tick`), tickers fire, calls between NFs return (the HTTP
clients report an error otherwise), a client in a retry loop tries again. `aka`
lets the UE answer, in place of the timer T3560, which `amf_procedures` models.
Nothing else is assumed of UEs, gNBs, PFCP peers, the network, panics or signals.

**Deadlock.** The check is off where the system may stop: after a shutdown
(`Perio*`, `Ngap*`) and when the bounded requests, starts or lives are used up
(`Aka`, `Amf*`, `Nrf*`).

## Where code and text disagree

In each of these configurations TLC refutes the one property named
(`tlc -config <cfg> <module>`). They are kept for diagnosis.

| Configuration (module) | Property | What TLC shows |
|---|---|---|
| `PerioShutdownFull.cfg` (`PerioServer`) | `ShutdownAlwaysCompletes` | `evtCh` full: `Serve` waits for a ticker that waits for `Serve`; app.go:93 "Notify each goroutine and wait them stopped" |
| `PerioPanic.cfg` (`PerioServer`) | `NoPanic` | `Serve` closes `evtCh` while the PFCP loop is in a request that then sends on it |
| `PerioLeak.cfg` (`PerioServer`) | `NoTimerWithoutSession` | a failed establishment leaves its timer (gtp5g.go:1859) |
| `PerioRecreate.cfg` (`PerioServer`) | `NoTimerOfOldPeriod` | a URR created again with another period keeps its timer in the old group too (server.go:134), and a DEL then removes it from one group only |
| `NodesPanic.cfg` (`MCPfcpNodes`) | `NoPanic` | `RemoteSess` (node.go:710) reads every slot up to the match, also slots that are nil after a deletion: a report response with SEID 0 dereferences nil |
| `NodesSetup.cfg` (`MCPfcpNodes`) | `SetupDeletesSessions` | a takeover onto a used Node ID hides the old node's sessions from a setup (association.go:48) |
| `NodesTakeover.cfg` (`MCPfcpNodes`) | `ControlledByLastSMF` | a takeover of one session moves all sessions of its node |
| `TransactionsEdge.cfg` (`PfcpTransactions`) | `AtMostOnce` | `MaxRetrans` 255: the uint8 sum wraps and a duplicate is handled again; no error with 254 |
| `SessionRebind.cfg` (`MCSessionRules`) | `LastPDROnly` | `ApplyUpdatePDR` never increments `refPdrNum`, so a URR is reported as dissociated from "the last PDR" (node.go:155) while a PDR refers to it |
| `NgapFlip.cfg` (`NgapScheduler`) | `ArrivalOrder` | the mode is read for every message: when a second gNB connects, the first one's hashed messages are overtaken, although service.go:279 says that the mode never flips mid-association |
| `NgapPerUE.cfg` (`NgapScheduler`) | `SerialPerUE` | the first message of a UE is hashed by another id than the later ones |
| `NgapLateSubmit.cfg` (`NgapScheduler`) | `StoppedWorkerRefuses` | `Submit` returns true for a worker that has exited; tasks queued before the stop are all handled (`DrainedAll`) |
| `PoolDuplicate.cfg` (`LazyReusePool`) | `DuplicateRejected` | after `Use` split a segment a second `Free` of a free value succeeds; needs a caller that frees twice |
| `AmfFindable.cfg` (`AmfUeContexts`) | `ConnectedFindable` | the older context's T3560 gives up; `Remove` deletes the pool's entry by SUPI (amf_ue.go:346), which names the newer context |
| `AmfUdm.cfg` (`AmfUeContexts`) | `RegisteredAtUdm` | a UE deregisters, which purges it at the UDM, and registers again before its context is removed: `ContextValid` is never reset, so the setup skips the UDM (gmm/handler.go:688). Also: an older context's setup fails and deregisters at the UDM (sm.go:444) after the newer one registered |
| `AmfRegistered.cfg` (`AmfUeContexts`) | `RegisteredFromSetup` | a duplicate identity response repeats the setup after the Accept; it fails, T3550 runs on, and its cancel function sets state Registered (send.go:648) |
| `AmfLockedOut.cfg` (`AmfUeContexts`) | `NotLockedOut` | a new connection with the old RAN-UE-NGAP-ID stops the timers (ngap/handler.go:448); state ContextSetup takes no Registration Request and nothing ends it. Also: a deregistration from the other access leaves DeregisteredInitiated for good |
| `AmfLate.cfg` (`AmfUeContexts`) | `StopIsFinal` | a timer fires after Stop; timer.go:72 "after Stop, no more timeout event will be triggered" |
| `NrfAllDeregistered.cfg` (`MCNrfRegistry`) | `AllDeregistered` | the NRF crashes and starts again with a counter of 0 and a stored profile; with the bounds of `nrf` also when a deregistration overtakes an abandoned registration; init.go:243 "All Register NF had been deregister" |
| `NrfUriList.cfg` (`MCNrfRegistry`) | `UriListComplete` | two registrations of a type at once lose one URI |
| `NrfDeafSubscriber.cfg` (`MCNrfRegistry`) | `RegistrationAlwaysEnds` | a subscriber that is gone makes every registration fail, after it was stored |
| `CacheTTL.cfg` (`DiscoveryCache`) | `TTLIsMaximumAge` | the age counts from the arrival of the answer; disccache.go:39 "TTL is the maximum age of a cached discovery result" |
| `CacheEmpty.cfg` (`DiscoveryCache`) | `EmptyAskedAgain` | an empty result is a hit; DISCCACHE.md:22 "Miss / empty / expired → query NRF" |

## Proofs

TLAPS checks the following for every value of the constants that satisfies the
ASSUME of the component's module. These say that bounds and capacities are natural
numbers (positive where the code divides by them or makes a channel of them) and
that `None` is no identifier. `AkaAssumption` also says that the numbers are at least
2 (`Ind` + 3) many, `RulesAssumption` that ids of different kinds of rules differ.
`DispatchedAtMostOnce` has the premise `MaxRetrans` < 255.

| Module | Theorem | Property |
|---|---|---|
| `PerioServerProofs` | `TypeCorrect`, `OneTickerPerGroup`, `EveryGroupInUse`, `NoTickerAfterClose`, `TimersMatchSessions` | `TypeOK`, `TickerPerGroup`, `GroupsInUse`, `TickersStoppedBeforeClose`, `TimersFollowSessions` |
| `PfcpNodesProofs` | `FreeListAgrees`, `EachSessionOwnedOnce`, `TableHoldsOwnIDs`, `LiveSessionsStable`, `SetupResetsRegistered` | `FreeListExact`, `OwnedOnce`, `AssociationsByID`; action properties `SessionsStable`, `SetupClosesRegistered` |
| `PfcpTransactionsProofs` | `TimerOrTimeout`, `RequestsEndOnce`, `GivesUpLast`, `DispatchedAtMostOnce` | `OneTimerEach`, `EndsOnce`, `GivenUpLast`, `AtMostOnce` |
| `SessionRulesProofs` | `DeletionReachesAll`, `CountsAreRight`, `LastPDRIsReported` | `KernelCovered`, `RefCounts`; action property `LastPDRReported` |
| `NgapSchedulerProofs` | `HandledInOrder`, `DrainsEverything`, `MappingStaysSound` | `InOrder`, `DrainedAll`, `MappingSound` |
| `AkaAuthenticationProofs` | `NumbersKeepWidth`, `SuccessTakesOwnKey`, `RejectionNeedsOverlap` | `TypeOK`, `KeyOfOwnVector`, `RejectedOnlyIfOverlapped` |
| `DiscoveryCacheProofs` | `NeverTooStale`, `AlwaysFoundInTime` | `StaleBound`, `FoundInTime` |
| `NrfRegistryProofs` | `TypeCorrect`, `CounterCovers`, `AnsweredAreStored`, `UrisAreListed` | `TypeOK`, `CountCovers`, `AnsweredStored`, `UriListed` |

Every module has the same form: `IInv` is inductive, there is a lemma per action
(or per kind of step that several actions share), `NextIInv` combines them, and
the theorems follow from `IInv`. Most modules send their leaves to Zenon
(`USE Zenon`) and name SMT where a leaf needs arithmetic, sequences or records. TLC
found no violation of any `IInv` in the instance of the component's run. Why the
properties need more than themselves:

- **PerioServer.** While a ticker is being stopped one must know that its group is
  still in `perioList`, and on close that the list is empty (`ServePlace`).
  `TimersFollowSessions` speaks of the moment when `evtCh` is empty; in between,
  ADD and DEL events are queued. `Good(t)` says that there is a trace of timer t:
  the period it is due for, or `None`, after each prefix of `evtCh`. It begins in a
  group that holds t, each event sets it as `Serve` will, and it ends with what the
  session table and the calls still to be made ask for (`Ends`). A timer that is
  not left behind (`Left`) is in no other group and never gets an ADD while it is
  due for another period, so that a DEL finds it in the one group it is in. A send
  appends to the trace, a receive drops its head.
- **PfcpNodes.** `FreeListExact`, `OwnedOnce` and `AssociationsByID` keep each other
  and with the types are inductive: a SEID is reused safely because the free list
  is exact, a `Reset` closes everything because ownership is exact, a rename leaves
  no stale entry because the table is exact. The two action properties follow from
  it for each handler.
- **PfcpTransactions.** `TxTimers`, `RxTimers`: an open transaction has a timer or
  exactly one timeout in `trToCh`; a closed RxTransaction has neither, while a
  closed TxTransaction may have left one timeout. `Outlives`, for `AtMostOnce`: the
  RxTransaction's timer exceeds the remaining life of every copy in the network and
  of all retransmissions the peer may still send. That is where `Delay` < `T` and
  the uint8 sum `MaxRetrans` + 1 enter.
- **SessionRules.** `RelatedKnown`: a removed PDR relates to no URR, and without
  liberties a PDR relates to URRs of the session only. The counting lemmas compare
  `refPdrNum` with the PDRs that refer to a URR through creations, updates and
  removals of one request.
- **NgapScheduler.** `InOrder` speaks of the log. `Located` ties the log to queues
  and workers, `QueueOrder` says that a queue holds an association's messages in
  the order they were read, `KeyedWorker` that a routing key determines the worker,
  `WorkerOrder` that one worker handles an association's messages in order. For
  `DrainedAll`: what is left in the queue of a worker that exited came late.
- **AkaAuthentication.** An attempt marked alone relies on two things (`Undisturbed`):
  the AUSF's context is its own and filled, and after a synch failure its number is
  ahead of the USIM's. The arithmetic is modulo `SqnMod`.
- **DiscoveryCache.** `Readings`: every answer on its way and every entry that has
  not expired lists what was registered t ticks ago, for a t that is at most the
  age of the entry plus `Delay`, however answers overtake each other.
- **NrfRegistry.** `Waits`: whom an NF waits for. `Answers`: an NF without clashing
  handlers has at most one, a registration past the Put has its profile stored, a
  deregistration past the Delete has it gone. `Lists`: a URI that is there to stay
  is in the list and in every copy that will be written back, unless excused, and
  copies in use at the same time are all excused. `Counts` strengthens
  `CountCovers` by what is owed: `count` plus the registrations about to count is
  at least the stored profiles plus the deregistrations that will call
  `DelNfRegister` for a profile that is gone. When the collection is dropped each
  deregistration under way may find its profile gone; they are no more than the
  profiles, as each instance has one.

**Only model-checked**, and why:

- Liveness under fairness (`ShutdownCompletes`, `TransactionsEnd`, `ShutdownEnds`,
  `QueuedHandled`, `AttemptEnds`, `ProcedureEnds`, `RetryEnds`, `RegistrationEnds`):
  beyond the prover.
- `LazyReusePool` (`Partition`, `LazyReuse`, `Implements`): its operators fold over
  the segment list, so the facts need induction over data, which the installed
  provers cannot do.
- `AmfUeContexts` (`RegisteredFindable`, `RegisteredAuthenticated`, `TimerGuards`): no
  proof yet. An inductive invariant has to relate the step at which each handler
  waits, the timers and the other context.

## Not modelled

The map covers 8,168 of the 23,759 lines of the 45 files it touches. That is about
3% of the repository (294,000 lines of Go without tests, `xnet` included); most of
the rest is generated routing, request forwarding, encoding, configuration and
copies of the same package in several NFs. Left out are:

- Netlink and GTP-U encoding, packet buffering, contents of usage reports.
- AMF: service request, PDU session transport, handover, paging, configuration
  update, network-initiated deregistration, non-3GPP access; data races on the
  timer fields.
- EAP-AKA', Milenage, SUCI decryption, key derivation.
- NRF: NF update (PATCH), OAuth, query parameters of a discovery.
- SMF session procedures and policy; PCF, BSF, CHF, NEF, NSSF; the other resources
  of UDM and UDR.
- N3IWF and TNGF; access log; web console; tests; the HTTP/2 fork `xnet`.
- The wrap of the 24-bit PFCP sequence number.

`PROJECT.json` gives the reason for each.

## Plan

1. Theorems: `RegisteredFindable` of `AmfUeContexts`, with an invariant on the
   places where its handlers wait.
2. Modules: SMF release of addresses, as the caller of `LazyReusePool`;
   `PerioServer` with `PfcpNodes`, for reports that name a reused SEID.

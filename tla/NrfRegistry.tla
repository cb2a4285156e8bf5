------------------------------ MODULE NrfRegistry ------------------------------
(***************************************************************************)
(* The NRF's register of network functions: the HTTP handlers that         *)
(* register and deregister an NF, their documents in MongoDB (profiles,    *)
(* URI list, subscriptions), the counter the NRF waits for when it stops,  *)
(* and the NFs that call it.  All NFs here have one NF type, so they share *)
(* one URI list.  Every request is a goroutine of its own; a step of it is *)
(* an access to these documents with what follows it up to the next one.   *)
(* A handler goes on when its client has gone.  MongoDB outlives the NRF,  *)
(* the counter does not.  Every NF sends a profile that the NRF can read.  *)
(***************************************************************************)
EXTENDS Integers, FiniteSets

CONSTANTS NF,          \* NF instances of one type, each with a configured id
          MaxTasks,    \* bound: requests the NRF works on at a time
          MaxStarts,   \* bound: starts of NFs
          MaxLives,    \* bound: starts of the NRF
          MaxFaults    \* bound: failed database calls and lost connections

ASSUME RegistryAssumption == {MaxTasks, MaxStarts, MaxLives} \subseteq Nat \ {0}
                             /\ MaxFaults \in Nat

VARIABLES nf,        \* an NF: down, registering, up, leaving, left (answered 204)
          req,       \* the task whose answer an NF awaits, 0 for none
          task,      \* the NRF's running handlers
          profiles,  \* collection NfProfile
          urilist,   \* collection urilist
          deaf,      \* a stored subscription names a subscriber that does not answer
          count,     \* NfRegistNum
          nrf,       \* up, wait (waitNfDeregister), dropped, down
          starts, lives, faults,
          \* history
          known,     \* NFs answered 200 or 201 since they started and the last drop
          clash,     \* NFs with two handlers at work on the same instance
          excused,   \* NFs whose URI was written beside another writer or an error
          double,    \* two deregistrations of one instance overlapped
          clean      \* this NRF started with an empty collection

db == <<profiles, urilist, deaf>>
bounds == <<starts, lives, faults>>
hist == <<known, clash, excused, double, clean>>
vars == <<nf, req, task, db, count, nrf, bounds, hist>>

Ids == 1..MaxTasks
Idle == [nf |-> "none", op |-> "none", pc |-> "none", ul |-> {}, new |-> FALSE]
Busy(i) == task[i] # Idle
At(i, op, pc) == task[i].op = op /\ task[i].pc = pc
Goto(i, pc) == task' = [task EXCEPT ![i].pc = pc]
Serving == nrf # "down"

Init == /\ nf = [n \in NF |-> "down"] /\ req = [n \in NF |-> 0]
        /\ task = [i \in Ids |-> Idle]
        /\ profiles = {} /\ urilist = {} /\ deaf = FALSE
        /\ count = 0 /\ nrf = "up"
        /\ starts = 0 /\ lives = 1 /\ faults = 0
        /\ known = {} /\ clash = {} /\ excused = {} /\ double = FALSE /\ clean = TRUE

--------------------------------------------------------------------------------
(* The NFs.  A request in flight is cancelled or forgotten at the client only. *)

NFStart(n) ==
  /\ nf[n] \in {"down", "left"} /\ starts < MaxStarts
  /\ nf' = [nf EXCEPT ![n] = "registering"] /\ starts' = starts + 1
  /\ known' = known \ {n}
  /\ UNCHANGED <<req, task, db, count, nrf, lives, faults, clash, excused, double, clean>>

\* A request of n reaches the NRF and gets a goroutine.
Request(n, op, pc) ==
  /\ Serving
  /\ \E i \in Ids :
       /\ ~Busy(i) /\ \A j \in 1..(i - 1) : Busy(j)
       /\ task' = [task EXCEPT ![i] = [nf |-> n, op |-> op, pc |-> pc, ul |-> {}, new |-> FALSE]]
       /\ req' = [req EXCEPT ![n] = i]
  /\ LET others == {i \in Ids : task[i].nf = n}
     IN  /\ clash' = IF others # {} THEN clash \cup {n}
                     ELSE IF op = "register" THEN clash \ {n} ELSE clash
         /\ double' = (double \/ (op = "deregister"
                                  /\ \E i \in others : task[i].op = "deregister"))

\* SendRegisterNFInstance: repeated until the NRF answers 200 or 201.
SendRegister(n) ==
  /\ nf[n] = "registering" /\ req[n] = 0
  /\ Request(n, "register", "read")
  /\ UNCHANGED <<nf, db, count, nrf, bounds, known, excused, clean>>

\* Terminate: the context is cancelled, which abandons a registration in flight,
\* and terminateProcedure deregisters.
Terminate(n) ==
  /\ nf[n] \in {"registering", "up"}
  /\ \/ nf' = [nf EXCEPT ![n] = "leaving"] /\ Request(n, "deregister", "find")
     \/ ~Serving /\ nf' = [nf EXCEPT ![n] = "down"] /\ UNCHANGED <<req, task, clash, double>>
  /\ UNCHANGED <<db, count, nrf, bounds, known, excused, clean>>

\* The NF is killed: no deregistration.
Kill(n) ==
  /\ nf[n] \in {"registering", "up", "leaving"}
  /\ nf' = [nf EXCEPT ![n] = "down"] /\ req' = [req EXCEPT ![n] = 0]
  /\ UNCHANGED <<task, db, count, nrf, bounds, hist>>

\* What a client does with an error: it registers again, or gives up leaving.
AfterError(n) == IF nf[n] = "leaving" THEN "down" ELSE nf[n]

LoseConnection(n) ==
  /\ req[n] # 0 /\ faults < MaxFaults
  /\ faults' = faults + 1
  /\ req' = [req EXCEPT ![n] = 0] /\ nf' = [nf EXCEPT ![n] = AfterError(n)]
  /\ UNCHANGED <<task, db, count, nrf, starts, lives, hist>>

--------------------------------------------------------------------------------
(* The handlers.                                                             *)

\* The handler of task i ends; its client, if it still waits, gets the answer.
Answer(i, ok) ==
  LET n == task[i].nf
      waits == req[n] = i
      up == waits /\ ok /\ task[i].op = "register"
  IN  /\ task' = [task EXCEPT ![i] = Idle]
      /\ req' = IF waits THEN [req EXCEPT ![n] = 0] ELSE req
      /\ nf' = IF ~waits THEN nf
               ELSE [nf EXCEPT ![n] = IF ~ok THEN AfterError(n)
                                      ELSE IF up THEN "up" ELSE "left"]
      /\ known' = IF up /\ nrf # "dropped" THEN known \cup {n}
                  ELSE IF waits /\ task[i].op = "deregister" THEN known \ {n} ELSE known

\* A call of the database fails (bounded) and changes nothing.
Fault == faults < MaxFaults /\ faults' = faults + 1

\* SetLocationHeader reads the list; an error counts as an empty list.
Writing(i) == At(i, "register", "list")
ReadList(i) ==
  /\ At(i, "register", "read")
  /\ \/ task' = [task EXCEPT ![i].pc = "list", ![i].ul = urilist] /\ UNCHANGED faults
        /\ excused' = IF \E j \in Ids : Writing(j)
                      THEN excused \cup {task[j].nf : j \in {i} \cup {k \in Ids : Writing(k)}}
                      ELSE excused
     \/ Fault /\ Goto(i, "list") /\ excused' = NF
  /\ UNCHANGED <<nf, req, db, count, nrf, starts, lives, known, clash, double, clean>>

\* Mutant: the list is written back without its old items.
WriteListAlone(i) ==
  /\ Writing(i)
  /\ task' = [task EXCEPT ![i].pc = "put", ![i].ul = {}]
  /\ \/ urilist' = {task[i].nf} /\ UNCHANGED <<faults, excused>>
     \/ Fault /\ excused' = NF /\ UNCHANGED urilist
  /\ UNCHANGED <<nf, req, profiles, deaf, count, nrf, starts, lives, known, clash,
                 double, clean>>

\* nnrfUriList, and the whole list written back.
WriteList(i) ==
  /\ Writing(i)
  /\ task' = [task EXCEPT ![i].pc = "put", ![i].ul = {}]
  /\ \/ urilist' = task[i].ul \cup {task[i].nf} /\ UNCHANGED <<faults, excused>>
     \/ Fault /\ excused' = NF /\ UNCHANGED urilist
  /\ UNCHANGED <<nf, req, profiles, deaf, count, nrf, starts, lives, known, clash,
                 double, clean>>

\* Mutant: a profile that exists is an error.
PutProfileNew(i) ==
  /\ At(i, "register", "put")
  /\ \/ /\ task[i].nf \notin profiles /\ profiles' = profiles \cup {task[i].nf}
        /\ task' = [task EXCEPT ![i].pc = "count", ![i].new = task[i].nf \notin profiles]
        /\ UNCHANGED <<faults, nf, req, known>>
     \/ Fault /\ Answer(i, FALSE) /\ UNCHANGED profiles
     \/ task[i].nf \in profiles /\ Answer(i, FALSE) /\ UNCHANGED <<profiles, faults>>
  /\ UNCHANGED <<urilist, deaf, count, nrf, starts, lives, clash, excused, double, clean>>

\* NFRegisterProcedure stores the profile and learns whether there was one.
PutProfile(i) ==
  /\ At(i, "register", "put")
  /\ \/ /\ profiles' = profiles \cup {task[i].nf}
        /\ task' = [task EXCEPT ![i].pc = "count", ![i].new = task[i].nf \notin profiles]
        /\ UNCHANGED <<faults, nf, req, known>>
     \/ Fault /\ Answer(i, FALSE) /\ UNCHANGED profiles
  /\ UNCHANGED <<urilist, deaf, count, nrf, starts, lives, clash, excused, double, clean>>

\* Mutant: AddNfRegister after the notifications.
CountNotified(i) ==
  /\ At(i, "register", "count")
  /\ count' = count + IF task[i].new /\ ~deaf THEN 1 ELSE 0
  /\ Answer(i, ~deaf)
  /\ UNCHANGED <<db, nrf, bounds, clash, excused, double, clean>>

\* AddNfRegister for a new profile, GetNofificationUri, and SendNFStatusNotify: an
\* error of a subscriber is the answer to the NF.
CountAndNotify(i) ==
  /\ At(i, "register", "count")
  /\ count' = count + IF task[i].new THEN 1 ELSE 0
  /\ Answer(i, ~deaf)
  /\ UNCHANGED <<db, nrf, bounds, clash, excused, double, clean>>

\* NFDeregisterProcedure reads the profile, and sleeps dbWaitTime.
FindProfile(i) ==
  /\ At(i, "deregister", "find")
  /\ \/ /\ task' = [task EXCEPT ![i].pc = "delete", ![i].new = task[i].nf \notin profiles]
        /\ UNCHANGED <<faults, nf, req, known>>
     \/ Fault /\ Answer(i, FALSE)
  /\ UNCHANGED <<db, count, nrf, starts, lives, clash, excused, double, clean>>

\* Mutant: the filter names the type and not the instance.
DeleteProfiles(i) ==
  /\ At(i, "deregister", "delete")
  /\ \/ /\ profiles' = {} /\ UNCHANGED faults
        /\ IF task[i].new \/ deaf THEN Answer(i, FALSE)
           ELSE Goto(i, "pull") /\ UNCHANGED <<nf, req, known>>
     \/ Fault /\ Answer(i, FALSE) /\ UNCHANGED profiles
  /\ UNCHANGED <<urilist, deaf, count, nrf, starts, lives, clash, excused, double, clean>>

\* Then 404 if no profile had been read, or the notifications.
DeleteProfile(i) ==
  /\ At(i, "deregister", "delete")
  /\ \/ /\ profiles' = profiles \ {task[i].nf} /\ UNCHANGED faults
        /\ IF task[i].new \/ deaf THEN Answer(i, FALSE)
           ELSE Goto(i, "pull") /\ UNCHANGED <<nf, req, known>>
     \/ Fault /\ Answer(i, FALSE) /\ UNCHANGED profiles
  /\ UNCHANGED <<urilist, deaf, count, nrf, starts, lives, clash, excused, double, clean>>

\* The URI leaves the list; DelNfRegister; 204.
PullUri(i) ==
  /\ At(i, "deregister", "pull")
  /\ \/ urilist' = urilist \ {task[i].nf} /\ count' = count - 1 /\ Answer(i, TRUE)
        /\ UNCHANGED faults
     \/ Fault /\ Answer(i, FALSE) /\ UNCHANGED <<urilist, count>>
  /\ UNCHANGED <<profiles, deaf, nrf, starts, lives, clash, excused, double, clean>>

Handler(i) == \/ ReadList(i) \/ WriteList(i) \/ PutProfile(i) \/ CountAndNotify(i)
              \/ FindProfile(i) \/ DeleteProfile(i) \/ PullUri(i)

--------------------------------------------------------------------------------
(* Subscriptions, and the life of the NRF.                                   *)

\* A subscriber stops without RemoveSubscription, or its subscription is removed.
Subscription ==
  /\ deaf' = ~deaf /\ (deaf => nrf = "up")
  /\ UNCHANGED <<nf, req, task, profiles, urilist, count, nrf, bounds, hist>>

\* Whoever waits for an answer of the NRF gets an error.
Disconnect == /\ task' = [i \in Ids |-> Idle] /\ req' = [n \in NF |-> 0]
              /\ nf' = [n \in NF |-> IF req[n] # 0 THEN AfterError(n) ELSE nf[n]]

TerminateNrf ==
  /\ nrf = "up" /\ lives < MaxLives /\ nrf' = "wait"
  /\ UNCHANGED <<nf, req, task, db, count, bounds, hist>>
\* waitNfDeregister returns (the counter is zero, or five seconds are over), and
\* the collection is dropped.
DropProfiles ==
  /\ nrf = "wait" /\ nrf' = "dropped" /\ profiles' = {} /\ known' = {}
  /\ UNCHANGED <<nf, req, task, urilist, deaf, count, bounds, clash, excused, double, clean>>
\* The server stops; it waits two seconds for the handlers, then the process ends.
ServerStop ==
  /\ nrf = "dropped" /\ nrf' = "down" /\ Disconnect
  /\ UNCHANGED <<db, count, bounds, hist>>
Crash ==
  /\ nrf = "up" /\ lives < MaxLives /\ nrf' = "down" /\ Disconnect
  /\ UNCHANGED <<db, count, bounds, hist>>
\* A new NRF counts from zero, whatever the collection holds.
StartNrf ==
  /\ nrf = "down" /\ lives < MaxLives /\ nrf' = "up" /\ lives' = lives + 1
  /\ count' = 0 /\ clean' = (profiles = {}) /\ double' = FALSE
  /\ UNCHANGED <<nf, req, task, db, starts, faults, known, clash, excused>>

NrfLife == \/ Subscription \/ TerminateNrf \/ DropProfiles
           \/ ServerStop \/ Crash \/ StartNrf

NFLife(n) == \/ NFStart(n) \/ SendRegister(n) \/ Terminate(n) \/ Kill(n) \/ LoseConnection(n)

Next == (\E n \in NF : NFLife(n)) \/ (\E i \in Ids : Handler(i)) \/ NrfLife

Spec == Init /\ [][Next]_vars

\* Go runs every goroutine; a client repeats its registration every two seconds.
FairSpec == /\ Spec
            /\ \A i \in Ids : WF_vars(Handler(i))
            /\ \A n \in NF : WF_vars(SendRegister(n))

--------------------------------------------------------------------------------
(* Properties.                                                               *)

\* Every variable has a value the program can give it.
TypeOK ==
  /\ nf \in [NF -> {"down", "registering", "up", "leaving", "left"}]
  /\ req \in [NF -> 0..MaxTasks]
  /\ \A i \in Ids : Busy(i) => task[i].nf \in NF /\ task[i].ul \subseteq NF
  /\ profiles \subseteq NF /\ urilist \subseteq NF /\ deaf \in BOOLEAN
  /\ count \in Int
  /\ nrf \in {"up", "wait", "dropped", "down"}
  \* an NF waits for a handler that works for it
  /\ \A n \in NF : req[n] # 0 => task[req[n]].nf = n

\* NfRegistNum never falls below the number of stored profiles, so an NRF that
\* stops does not drop the collection early (AddNfRegister follows the Put,
\* DelNfRegister the Delete).  This needs an NRF that began with an empty
\* collection, and no instance deregistered twice at the same time.
CountCovers ==
  nrf # "down" /\ clean /\ ~double =>
    count + Cardinality({i \in Ids : At(i, "register", "count") /\ task[i].new})
      >= Cardinality(profiles)

\* An NF whose registration was answered 200 or 201 has a profile, also after a
\* crash of the NRF, until it leaves or the NRF drops the collection.  Only a
\* second handler at work on the same instance may take it away.
AnsweredStored ==
  \A n \in known \ clash : nf[n] = "up" => n \in profiles

\* The stored profile of an NF that was answered is in the URI list, unless its
\* registration overlapped the read and the write of another one of the type
\* (SetLocationHeader writes back the whole list) or another handler of the same
\* instance, or the database failed.
UriListed == known \cap profiles \subseteq urilist \cup excused \cup clash

\* A registration ends, however often its answer is lost: a repetition finds the
\* profile stored and is answered 200.  It needs a subscriber that answers, and a
\* profile that the NRF can read: the NF would repeat any other one forever.
RegistrationEnds ==
  \A n \in NF : nf[n] = "registering" ~> nf[n] # "registering" \/ nrf # "up" \/ deaf

--------------------------------------------------------------------------------
(* Refuted by the code; see the README.                                      *)

\* "All Register NF had been deregister" (nrf/pkg/service/init.go): when the
\* counter is found to be zero, no NF is registered but by a handler still at work.
AllDeregistered ==
  nrf = "wait" /\ count = 0 => \A n \in profiles : \E i \in Ids : task[i].nf = n

\* Without a fault of the database, the URI list names every stored profile.
UriListComplete == faults = 0 => profiles \subseteq urilist

\* A registration ends whatever a subscriber does.
RegistrationAlwaysEnds ==
  \A n \in NF : nf[n] = "registering" ~> nf[n] # "registering" \/ nrf # "up"
================================================================================

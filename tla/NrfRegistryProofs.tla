-------------------------- MODULE NrfRegistryProofs --------------------------
(***************************************************************************)
(* Proofs that the NRF's counter covers the stored profiles, that an NF    *)
(* which was answered has a profile, and that the URI list names it: for   *)
(* any set of NFs and any number of requests, restarts and faults.         *)
(***************************************************************************)
EXTENDS NrfRegistry, FiniteSetTheorems, TLAPS

\* Leaves go to Zenon; those with arithmetic or records cite SMT.
USE Zenon

Op == {"register", "deregister"}
Pc == {"read", "list", "put", "count", "find", "delete", "pull"}
Task == [nf : NF, op : Op, pc : Pc, ul : SUBSET NF, new : BOOLEAN]

Types ==
    /\ nf \in [NF -> {"down", "registering", "up", "leaving", "left"}]
    /\ req \in [NF -> 0 .. MaxTasks]
    /\ DOMAIN task = Ids /\ \A i \in Ids : task[i] \in Task \cup {Idle}
    /\ profiles \subseteq NF /\ urilist \subseteq NF /\ deaf \in BOOLEAN
    /\ count \in Int /\ nrf \in {"up", "wait", "dropped", "down"}
    /\ known \subseteq NF /\ clash \subseteq NF /\ excused \subseteq NF
    /\ double \in BOOLEAN /\ clean \in BOOLEAN

\* An NF waits for a handler of its own, of the request its state asks for, and an
\* NRF that is down has no handlers.
Waits ==
    /\ \A n \in NF : req[n] # 0 =>
         /\ task[req[n]].nf = n
         /\ \/ task[req[n]].op = "register" /\ nf[n] = "registering"
            \/ task[req[n]].op = "deregister" /\ nf[n] = "leaving"
    /\ nrf = "down" => \A i \in Ids : task[i] = Idle

\* n is not answered while it registers.  Unless two handlers of n clashed it has
\* one at most, and none while it is up; a registration past the Put finds the
\* profile stored, a deregistration past the Delete finds it gone.
Alone(n) ==
    /\ \A i, j \in Ids : task[i].op \in Op /\ task[i].nf = n /\ task[j].op \in Op /\ task[j].nf = n
                         => i = j
    /\ nf[n] = "up" => /\ n \in known => n \in profiles
                       /\ \A i \in Ids : task[i].op \in Op => task[i].nf # n
    /\ \A i \in Ids : task[i].nf = n =>
         /\ task[i].op = "register" => n \notin known
         /\ At(i, "register", "count") => n \in profiles \/ nrf = "dropped"
         /\ At(i, "deregister", "pull") => n \notin profiles
Answers ==
    /\ \A n \in NF : nf[n] = "registering" => n \notin known
    /\ \A n \in NF \ clash : Alone(n)

\* The URI of n is in the list to stay: n is answered and stored, or its handler
\* has written the list.
Listed(n) ==
    \/ n \in known /\ n \in profiles
    \/ \E i \in Ids : task[i].nf = n /\ (At(i, "register", "put") \/ At(i, "register", "count"))

\* Such a URI is in the list and in every copy of it that will be written back,
\* unless it is excused, as are all whose copies are in use at the same time.
Lists ==
    /\ \A n \in NF \ (clash \cup excused) : Listed(n) =>
         n \in urilist /\ \A i \in Ids : Writing(i) => n \in task[i].ul
    /\ \A i, j \in Ids : Writing(i) /\ Writing(j) /\ i # j => task[i].nf \in excused

\* The handlers that will count a profile they stored, and those that will take
\* one off the count for a profile that is gone.
Counting == {i \in Ids : At(i, "register", "count") /\ task[i].new}
Owing == {i \in Ids : \/ At(i, "deregister", "pull")
                      \/ At(i, "deregister", "delete") /\ ~task[i].new /\ task[i].nf \notin profiles}
Singly == \A i, j \in Ids : /\ task[i].op = "deregister" /\ task[j].op = "deregister"
                            /\ task[i].nf = task[j].nf
                            => i = j
Counts ==
    /\ IsFiniteSet(profiles)
    /\ ~double => Singly
    /\ nrf # "down" /\ clean /\ ~double
         => count + Cardinality(Counting) >= Cardinality(profiles) + Cardinality(Owing)

IInv == Types /\ Waits /\ Answers /\ Lists /\ Counts

-----------------------------------------------------------------------------
(* What the steps do to the handlers and their clients. *)

\* A handler at work is a task.
LEMMA AtWork ==
    ASSUME Types, NEW i \in Ids, task[i].op \in Op
    PROVE  task[i] \in Task /\ task[i].nf \in NF /\ nrf \in {"up", "wait", "dropped", "down"}
  BY SMT DEF Types, Task, Idle, Op

\* Handler i goes on to pc.
Moved(i, pc) ==
    /\ DOMAIN task' = Ids /\ \A j \in Ids \ {i} : task'[j] = task[j]
    /\ task'[i] \in Task /\ task'[i].nf = task[i].nf /\ task'[i].op = task[i].op /\ task'[i].pc = pc
    /\ UNCHANGED <<nf, req, known>>

\* Handler i answers.
Ended(i, ok) ==
    /\ DOMAIN task' = Ids /\ \A j \in Ids \ {i} : task'[j] = task[j]
    /\ task'[i] = Idle
    /\ nf' \in [NF -> {"down", "registering", "up", "leaving", "left"}]
    /\ req' \in [NF -> 0 .. MaxTasks] /\ known' \subseteq NF
    /\ \A m \in NF :
         \/ /\ req[m] # i /\ req'[m] = req[m] /\ nf'[m] = nf[m] /\ (m \in known' <=> m \in known)
         \/ /\ req[m] = i /\ req'[m] = 0 /\ m = task[i].nf
            /\ \/ /\ task[i].op = "register" /\ nf[m] = "registering" /\ m \notin known
                  /\ \/ ok /\ nf'[m] = "up" /\ (m \in known' => nrf # "dropped")
                     \/ ~ok /\ nf'[m] = "registering" /\ m \notin known'
               \/ task[i].op = "deregister" /\ nf'[m] \in {"left", "down"} /\ m \notin known'

\* Answer ends the handler and tells its NF, if that still waits.
LEMMA AnswerEnds ==
    ASSUME Types, Waits, Answers, NEW i \in Ids, task[i].op \in Op, NEW ok \in BOOLEAN, Answer(i, ok)
    PROVE  Ended(i, ok)
  <1>1. PICK n \in NF : n = task[i].nf
    BY AtWork
  <1>2. task' = [task EXCEPT ![i] = Idle]
    BY DEF Answer
  <1>3. /\ DOMAIN task' = Ids /\ \A j \in Ids \ {i} : task'[j] = task[j]
        /\ task'[i] = Idle
    BY <1>2, SMT DEF Types
  <1>4. i # 0
    BY SMT DEF Ids
  <1>5. \A m \in NF : req[m] = i => m = n
    BY <1>1, <1>4 DEF Waits
  <1>6. CASE req[n] # i
    <2>1. nf' = nf /\ req' = req /\ known' = known
      BY <1>1, <1>6 DEF Answer
    <2> QED
      BY <1>3, <1>5, <1>6, <2>1 DEF Ended, Types
  <1>7. CASE req[n] = i
    <2>1. /\ req' = [req EXCEPT ![n] = 0]
          /\ nf' = [nf EXCEPT ![n] = IF ~ok THEN AfterError(n)
                                     ELSE IF task[i].op = "register" THEN "up" ELSE "left"]
          /\ known' = IF ok /\ task[i].op = "register" /\ nrf # "dropped" THEN known \cup {n}
                      ELSE IF task[i].op = "deregister" THEN known \ {n} ELSE known
      BY <1>1, <1>7 DEF Answer
    <2>2. \/ task[i].op = "register" /\ nf[n] = "registering" /\ n \notin known
          \/ task[i].op = "deregister" /\ nf[n] = "leaving"
      BY <1>4, <1>7 DEF Waits, Answers
    <2>3. /\ nf' \in [NF -> {"down", "registering", "up", "leaving", "left"}]
          /\ req' \in [NF -> 0 .. MaxTasks] /\ known' \subseteq NF
      BY <2>1, RegistryAssumption, SMT DEF Types, AfterError
    <2>4. \A m \in NF \ {n} : req'[m] = req[m] /\ nf'[m] = nf[m] /\ (m \in known' <=> m \in known)
      BY <2>1, SMT DEF Types
    <2>5. /\ req'[n] = 0
          /\ \/ /\ task[i].op = "register" /\ nf[n] = "registering" /\ n \notin known
                /\ \/ ok /\ nf'[n] = "up" /\ (n \in known' => nrf # "dropped")
                   \/ ~ok /\ nf'[n] = "registering" /\ n \notin known'
             \/ task[i].op = "deregister" /\ nf'[n] \in {"left", "down"} /\ n \notin known'
      BY <2>1, <2>2, SMT DEF Types, AfterError
    <2> QED
      BY <1>1, <1>3, <1>5, <1>7, <2>3, <2>4, <2>5, ZenonT(60) DEF Ended
  <1> QED
    BY <1>6, <1>7

\* A request of n gets a handler.
Entered(i, n, op, pc) ==
    /\ DOMAIN task' = Ids /\ \A j \in Ids \ {i} : task'[j] = task[j]
    /\ task[i] = Idle /\ task'[i] \in Task /\ task'[i].nf = n /\ task'[i].op = op /\ task'[i].pc = pc
    /\ req' \in [NF -> 0 .. MaxTasks] /\ req'[n] = i /\ \A m \in NF \ {n} : req'[m] = req[m]

\* Request gives the first idle entry to the NF; clash and double record whether other
\* handlers of the instance are at work.
LEMMA RequestEnters ==
    ASSUME Types, NEW n \in NF, NEW op \in Op, NEW pc \in Pc, Request(n, op, pc)
    PROVE  /\ nrf # "down" /\ \E i \in Ids : Entered(i, n, op, pc)
           /\ clash' \subseteq clash \cup {n} /\ clash \subseteq clash' \cup {n}
           /\ n \notin clash' => \A i \in Ids : task[i].nf # n
           /\ op = "deregister" => clash \subseteq clash'
           /\ double' \in BOOLEAN /\ (double => double')
           /\ op = "deregister" /\ ~double' =>
                \A i \in Ids : task[i].nf = n => task[i].op # "deregister"
  <1>1. PICK i \in Ids :
          /\ task[i] = Idle /\ req' = [req EXCEPT ![n] = i]
          /\ task' = [task EXCEPT ![i] = [nf |-> n, op |-> op, pc |-> pc, ul |-> {}, new |-> FALSE]]
    BY DEF Request, Busy
  <1>2. PICK r \in Task : /\ r = [nf |-> n, op |-> op, pc |-> pc, ul |-> {}, new |-> FALSE]
                          /\ r.nf = n /\ r.op = op /\ r.pc = pc
    <2>1. [nf |-> n, op |-> op, pc |-> pc, ul |-> {}, new |-> FALSE] \in Task
      BY SMT DEF Task
    <2> QED
      BY <2>1
  <1>3. Entered(i, n, op, pc)
    BY <1>1, <1>2, SMT DEF Entered, Types, Ids
  <1>4. /\ clash' = IF {k \in Ids : task[k].nf = n} # {} THEN clash \cup {n}
                    ELSE IF op = "register" THEN clash \ {n} ELSE clash
        /\ double' = (double \/ (op = "deregister"
                        /\ \E k \in {k \in Ids : task[k].nf = n} : task[k].op = "deregister"))
        /\ nrf # "down"
    BY DEF Request, Serving
  <1>5. /\ clash' \subseteq clash \cup {n} /\ clash \subseteq clash' \cup {n}
        /\ op = "deregister" => clash \subseteq clash'
    BY <1>4, SMT DEF Op
  <1>6. n \notin clash' => \A k \in Ids : task[k].nf # n
    BY <1>4
  <1> QED
    BY <1>3, <1>4, <1>5, <1>6 DEF Types

\* One field of a task is set.
WithPc(t, pc) == [t EXCEPT !.pc = pc]
WithUl(t, u) == [t EXCEPT !.ul = u]
WithNew(t, b) == [t EXCEPT !.new = b]

\* Setting one field keeps the others.
LEMMA WithField ==
    ASSUME NEW t \in Task
    PROVE  /\ \A pc \in Pc :
                /\ WithPc(t, pc) \in Task /\ WithPc(t, pc).nf = t.nf /\ WithPc(t, pc).op = t.op
                /\ WithPc(t, pc).pc = pc /\ WithPc(t, pc).ul = t.ul /\ WithPc(t, pc).new = t.new
           /\ \A u \in SUBSET NF :
                /\ WithUl(t, u) \in Task /\ WithUl(t, u).nf = t.nf /\ WithUl(t, u).op = t.op
                /\ WithUl(t, u).pc = t.pc /\ WithUl(t, u).ul = u
           /\ \A b \in BOOLEAN :
                /\ WithNew(t, b) \in Task /\ WithNew(t, b).nf = t.nf /\ WithNew(t, b).op = t.op
                /\ WithNew(t, b).pc = t.pc /\ WithNew(t, b).new = b
  BY SMT DEF Task, WithPc, WithUl, WithNew

\* Goto moves the handler and keeps its data.
LEMMA GotoMoves ==
    ASSUME Types, NEW i \in Ids, task[i].op \in Op, NEW pc \in Pc, Goto(i, pc),
           UNCHANGED <<nf, req, known>>
    PROVE  Moved(i, pc) /\ task'[i].ul = task[i].ul /\ task'[i].new = task[i].new
  <1>1. /\ task'[i] = WithPc(task[i], pc) /\ \A j \in Ids \ {i} : task'[j] = task[j]
        /\ DOMAIN task' = Ids
    BY SMT DEF Goto, Types, WithPc
  <1>2. task[i] \in Task
    BY AtWork
  <1>3. /\ task'[i] \in Task /\ task'[i].nf = task[i].nf /\ task'[i].op = task[i].op
        /\ task'[i].pc = pc /\ task'[i].ul = task[i].ul /\ task'[i].new = task[i].new
    BY <1>1, <1>2, WithField, SMT
  <1> QED
    BY <1>1, <1>3 DEF Moved

\* A handler goes on with another copy of the list.
LEMMA GotoWithList ==
    ASSUME Types, NEW i \in Ids, task[i].op \in Op, NEW pc \in Pc, NEW u \in SUBSET NF,
           task' = [task EXCEPT ![i].pc = pc, ![i].ul = u], UNCHANGED <<nf, req, known>>
    PROVE  Moved(i, pc) /\ task'[i].ul = u
  <1>1. /\ task'[i] = WithUl(WithPc(task[i], pc), u) /\ \A j \in Ids \ {i} : task'[j] = task[j]
        /\ DOMAIN task' = Ids
    BY SMT DEF Types, WithPc, WithUl
  <1>2. task[i] \in Task
    BY AtWork
  <1>3. /\ task'[i] \in Task /\ task'[i].nf = task[i].nf /\ task'[i].op = task[i].op
        /\ task'[i].pc = pc /\ task'[i].ul = u
    BY <1>1, <1>2, WithField, SMT
  <1> QED
    BY <1>1, <1>3 DEF Moved

\* A handler goes on with what it learnt of the stored profile.
LEMMA GotoWithNew ==
    ASSUME Types, NEW i \in Ids, task[i].op \in Op, NEW pc \in Pc, NEW b \in BOOLEAN,
           task' = [task EXCEPT ![i].pc = pc, ![i].new = b], UNCHANGED <<nf, req, known>>
    PROVE  Moved(i, pc) /\ task'[i].new = b
  <1>1. /\ task'[i] = WithNew(WithPc(task[i], pc), b) /\ \A j \in Ids \ {i} : task'[j] = task[j]
        /\ DOMAIN task' = Ids
    BY SMT DEF Types, WithPc, WithNew
  <1>2. task[i] \in Task
    BY AtWork
  <1>3. /\ task'[i] \in Task /\ task'[i].nf = task[i].nf /\ task'[i].op = task[i].op
        /\ task'[i].pc = pc /\ task'[i].new = b
    BY <1>1, <1>2, WithField, SMT
  <1> QED
    BY <1>1, <1>3 DEF Moved

-----------------------------------------------------------------------------
(* Who waits for whom. *)

\* An idle entry works for nobody, and an NF waits for an entry of the table.
LEMMA IdleFacts == Idle.op = "none" /\ "none" \notin Op /\ Idle \notin Task
  BY SMT DEF Idle, Op, Task

\* What an NF waits for is an entry of the table.
LEMMA ReqId ==
    ASSUME Types, NEW n \in NF, req[n] # 0
    PROVE  req[n] \in Ids
  BY SMT DEF Types, Ids

\* A handler at work has an NRF that is not down.
LEMMA Alive ==
    ASSUME Waits, NEW i \in Ids, task[i].op \in Op
    PROVE  nrf # "down" /\ task[i] # Idle
  BY IdleFacts, SMT DEF Waits

\* A handler that goes on keeps its client.
LEMMA MovedWaits ==
    ASSUME Types, Waits, NEW i \in Ids, task[i].op \in Op, NEW pc, Moved(i, pc), nrf' = nrf
    PROVE  Waits'
  <1>1. \A j \in Ids : task'[j].nf = task[j].nf /\ task'[j].op = task[j].op
    BY DEF Moved
  <1>2. nrf' # "down"
    BY Alive
  <1>3. req' = req /\ nf' = nf
    BY DEF Moved
  <1> QED
    BY <1>1, <1>2, <1>3, ReqId, ZenonT(60) DEF Waits

\* A handler that ends leaves no client waiting for it.
LEMMA EndedWaits ==
    ASSUME Types, Waits, NEW i \in Ids, task[i].op \in Op, NEW ok, Ended(i, ok), nrf' = nrf
    PROVE  Waits'
  <1>1. nrf' # "down"
    BY Alive
  <1>2. ASSUME NEW m \in NF, req'[m] # 0
        PROVE  /\ task'[req'[m]].nf = m
               /\ \/ task'[req'[m]].op = "register" /\ nf'[m] = "registering"
                  \/ task'[req'[m]].op = "deregister" /\ nf'[m] = "leaving"
    <2>1. req[m] # i /\ req'[m] = req[m] /\ nf'[m] = nf[m]
      BY <1>2 DEF Ended
    <2>2. task'[req[m]] = task[req[m]]
      BY <1>2, <2>1, ReqId DEF Ended
    <2> QED
      BY <1>2, <2>1, <2>2, SMT DEF Waits
  <1> QED
    BY <1>1, <1>2 DEF Waits

\* The NF that sent a request waits for its new handler.
LEMMA EnteredWaits ==
    ASSUME Types, Waits, NEW n \in NF, NEW i \in Ids, NEW op \in Op, NEW pc, Entered(i, n, op, pc),
           nrf # "down", nrf' = nrf, \A m \in NF \ {n} : nf'[m] = nf[m],
           op = "register" => nf'[n] = "registering", op = "deregister" => nf'[n] = "leaving"
    PROVE  Waits'
  <1>1. ASSUME NEW m \in NF, req'[m] # 0
        PROVE  /\ task'[req'[m]].nf = m
               /\ \/ task'[req'[m]].op = "register" /\ nf'[m] = "registering"
                  \/ task'[req'[m]].op = "deregister" /\ nf'[m] = "leaving"
    <2>1. CASE m = n
      BY <2>1 DEF Entered, Op
    <2>2. CASE m # n
      <3>1. req'[m] = req[m] /\ nf'[m] = nf[m]
        BY <2>2 DEF Entered
      <3>2. req[m] # i
        BY <1>1, <3>1, IdleFacts DEF Waits, Entered, Op
      <3>3. task'[req[m]] = task[req[m]]
        BY <1>1, <3>1, <3>2, ReqId DEF Entered
      <3> QED
        BY <1>1, <3>1, <3>3, SMT DEF Waits
    <2> QED
      BY <2>1, <2>2
  <1> QED
    BY <1>1 DEF Waits

\* The handlers stay the same, and whoever waits goes on in the same state.
LEMMA SameWaits ==
    ASSUME Types, Waits, task' = task, nrf' # "down" \/ nrf = "down",
           \A n \in NF : req'[n] = 0 \/ (req'[n] = req[n] /\ nf'[n] = nf[n])
    PROVE  Waits'
  BY SMT DEF Waits

-----------------------------------------------------------------------------
(* Who has been answered. *)

\* A handler may go on to count a profile only once it is stored, and to pull the URI
\* only once the profile is gone.
LEMMA MovedAnswers ==
    ASSUME Types, Waits, Answers, NEW i \in Ids, task[i].op \in Op, NEW pc, Moved(i, pc),
           UNCHANGED <<clash, nrf>>, NEW n \in NF, n = task[i].nf,
           \A m \in NF \ {n} : m \in profiles' <=> m \in profiles,
           pc = "count" => n \in profiles', pc = "pull" => n \notin profiles'
    PROVE  Answers'
  <1>1. /\ \A j \in Ids : task'[j].nf = task[j].nf /\ task'[j].op = task[j].op
        /\ \A j \in Ids \ {i} : task'[j].pc = task[j].pc
        /\ task'[i].pc = pc /\ nf' = nf /\ known' = known
    BY DEF Moved
  <1>2. ASSUME NEW m \in NF \ clash, m # n
        PROVE  Alone(m)'
    <2>1. Alone(m)
      BY DEF Answers
    <2>2. \A j \in Ids : task[j].nf = m => j # i
      BY <1>2
    <2> QED
      BY <1>1, <1>2, <2>1, <2>2, ZenonT(60) DEF Alone, At
  <1>3. ASSUME n \notin clash
        PROVE  Alone(n)'
    <2>1. Alone(n)
      BY <1>3 DEF Answers
    <2>2. \A j \in Ids : task[j].op \in Op /\ task[j].nf = n => j = i
      BY <2>1 DEF Alone
    <2>3. nf[n] # "up"
      BY <2>1 DEF Alone
    <2>4. \A j \in Ids : task[j].nf = n /\ task[j].op = "register" => n \notin known
      BY <2>1 DEF Alone
    <2>5. "register" \in Op /\ "deregister" \in Op
      BY DEF Op
    <2> QED
      BY <1>1, <2>2, <2>3, <2>4, <2>5, ZenonT(60) DEF Alone, At
  <1> QED
    BY <1>1, <1>2, <1>3 DEF Answers

\* A handler tells its NF that it is registered only when it has stored the profile.
LEMMA EndedAnswers ==
    ASSUME Types, Waits, Answers, NEW i \in Ids, task[i].op \in Op, NEW ok, Ended(i, ok),
           UNCHANGED <<clash, nrf>>, NEW n \in NF, n = task[i].nf,
           \A m \in NF \ {n} : m \in profiles' <=> m \in profiles,
           ok /\ task[i].op = "register" => task[i].pc = "count" /\ profiles' = profiles
    PROVE  Answers'
  <1>1. /\ \A j \in Ids \ {i} : task'[j] = task[j]
        /\ task'[i].op \notin Op /\ "register" \in Op /\ "deregister" \in Op
    BY IdleFacts DEF Ended, Op
  <1>2. ASSUME NEW m \in NF, nf'[m] = "registering"
        PROVE  m \notin known'
    BY <1>2 DEF Ended, Answers
  <1>3. ASSUME NEW m \in NF \ clash, m # n
        PROVE  Alone(m)'
    <2>1. Alone(m)
      BY DEF Answers
    <2>2. nf'[m] = nf[m] /\ (m \in known' <=> m \in known)
      BY <1>3 DEF Ended
    <2>3. \A j \in Ids : task'[j].op \in Op /\ task'[j].nf = m => j # i /\ task'[j] = task[j]
      BY <1>1
    <2> QED
      BY <1>1, <1>3, <2>1, <2>2, <2>3, ZenonT(60) DEF Alone, At
  <1>4. ASSUME n \notin clash
        PROVE  Alone(n)'
    <2>1. Alone(n)
      BY <1>4 DEF Answers
    <2>2. \A j \in Ids : task'[j].op \in Op => task'[j].nf # n
      BY <1>1, <2>1 DEF Alone
    <2>3. nf'[n] = "up" => (n \in known' => n \in profiles')
      <3> SUFFICES ASSUME nf'[n] = "up", n \in known'
                   PROVE  n \in profiles'
        OBVIOUS
      <3>1. nf[n] # "up"
        BY <2>1 DEF Alone
      <3>2. ok /\ task[i].op = "register" /\ nrf # "dropped"
        BY <3>1 DEF Ended
      <3> QED
        BY <2>1, <3>2 DEF Alone, At
    <2> QED
      BY <1>1, <2>2, <2>3 DEF Alone, At
  <1> QED
    BY <1>2, <1>3, <1>4 DEF Answers

\* A new handler is the only one of its instance, or the instance clashes.
LEMMA EnteredAnswers ==
    ASSUME Types, Answers, NEW n \in NF, NEW i \in Ids, NEW op \in Op, NEW pc, Entered(i, n, op, pc),
           pc \notin {"count", "pull"}, UNCHANGED <<profiles, known, nrf>>,
           \A m \in NF \ {n} : nf'[m] = nf[m], nf'[n] \in {"registering", "leaving"},
           op = "register" \/ nf'[n] = "registering" => n \notin known,
           clash \subseteq clash' \cup {n}, n \notin clash' => \A j \in Ids : task[j].nf # n
    PROVE  Answers'
  <1>1. /\ \A j \in Ids \ {i} : task'[j] = task[j]
        /\ task'[i].nf = n /\ task'[i].op = op /\ task'[i].pc = pc
    BY DEF Entered
  <1>2. ASSUME NEW m \in NF \ clash', m # n
        PROVE  Alone(m)'
    <2>1. Alone(m)
      BY <1>2 DEF Answers
    <2>2. \A j \in Ids : task'[j].nf = m => j # i /\ task'[j] = task[j]
      BY <1>1, <1>2
    <2>3. nf'[m] = nf[m]
      BY <1>2
    <2> QED
      BY <2>1, <2>2, <2>3, ZenonT(120) DEF Alone, At
  <1>3. ASSUME n \notin clash'
        PROVE  Alone(n)'
    <2>1. \A j \in Ids : task'[j].nf = n => j = i
      BY <1>1, <1>3
    <2> QED
      BY <1>1, <2>1 DEF Alone, At
  <1>4. \A m \in NF : nf'[m] = "registering" => m \notin known'
    BY DEF Answers
  <1> QED
    BY <1>2, <1>3, <1>4 DEF Answers

\* The handlers stay the same; the clients may leave or start again.
LEMMA SameAnswers ==
    ASSUME Answers, task' = task, clash' = clash, known' \subseteq known,
           nrf = "dropped" => nrf' = "dropped",
           profiles' = profiles \/ (profiles' = {} /\ known' = {} /\ nrf' = "dropped"),
           \A n \in NF : nf'[n] = nf[n] \/ (nf'[n] # "up" /\ (nf'[n] = "registering" => n \notin known'))
    PROVE  Answers'
  <1>1. ASSUME NEW n \in NF \ clash
        PROVE  Alone(n)'
    <2>1. Alone(n)
      BY DEF Answers
    <2>2. nf'[n] = "up" => nf[n] = "up"
      OBVIOUS
    <2> QED
      BY <2>1, <2>2 DEF Alone, At
  <1> QED
    BY <1>1 DEF Answers

\* The handlers are gone.
LEMMA IdleAnswers ==
    ASSUME Answers, \A i \in Ids : task'[i] = Idle, UNCHANGED <<clash, known, profiles>>,
           \A n \in NF : nf'[n] = nf[n] \/ nf'[n] = "down"
    PROVE  Answers'
  <1>1. \A i \in Ids : task'[i].op \notin Op
    BY IdleFacts
  <1>2. ASSUME NEW n \in NF \ clash
        PROVE  Alone(n)'
    <2>1. Alone(n)
      BY DEF Answers
    <2> QED
      BY <1>1, <2>1 DEF Alone, At, Op
  <1> QED
    BY <1>2 DEF Answers

-----------------------------------------------------------------------------
(* Whose URI is listed. *)

\* Nobody takes a copy of the list, and the URIs in question do not become more.
LEMMA KeepLists ==
    ASSUME Lists, excused \subseteq excused',
           \A j \in Ids : At(j, "register", "list")' => At(j, "register", "list") /\ task'[j] = task[j],
           \A m \in NF \ (clash' \cup excused') : Listed(m)' =>
             m \notin clash /\ Listed(m) /\ (m \in urilist => m \in urilist')
    PROVE  Lists'
  <1>1. ASSUME NEW m \in NF \ (clash' \cup excused'), Listed(m)'
        PROVE  m \in urilist' /\ \A j \in Ids : At(j, "register", "list")' => m \in task'[j].ul
    <2>1. m \in NF \ (clash \cup excused) /\ Listed(m) /\ (m \in urilist => m \in urilist')
      BY <1>1
    <2> QED
      BY <2>1 DEF Lists, Writing
  <1>2. ASSUME NEW i \in Ids, NEW j \in Ids, At(i, "register", "list")', At(j, "register", "list")',
               i # j
        PROVE  task'[i].nf \in excused'
    BY <1>2 DEF Lists, Writing
  <1> QED
    BY <1>1, <1>2 DEF Lists, Writing

\* A handler goes on to a step that is not the one with the copy.
LEMMA MovedLists ==
    ASSUME Lists, NEW i \in Ids, NEW pc, Moved(i, pc), pc # "list",
           UNCHANGED <<clash, excused, urilist>>,
           pc \in {"put", "count"} => At(i, "register", "put") \/ task[i].op # "register",
           \A m \in NF : m \in profiles' => m \in profiles
                           \/ (m = task[i].nf /\ At(i, "register", "put"))
    PROVE  Lists'
  <1>1. /\ \A j \in Ids \ {i} : task'[j] = task[j]
        /\ task'[i].nf = task[i].nf /\ task'[i].op = task[i].op /\ task'[i].pc = pc /\ known' = known
    BY DEF Moved
  <1>2. \A j \in Ids : At(j, "register", "list")' => At(j, "register", "list") /\ task'[j] = task[j]
    BY <1>1 DEF At
  <1>3. ASSUME NEW m \in NF, Listed(m)'
        PROVE  Listed(m)
    BY <1>1, <1>3 DEF Listed, At
  <1>4. excused \subseteq excused'
    OBVIOUS
  <1>5. \A m \in NF \ (clash' \cup excused') : Listed(m)' =>
             m \notin clash /\ Listed(m) /\ (m \in urilist => m \in urilist')
    BY <1>3
  <1> QED
    BY <1>2, <1>4, <1>5, KeepLists

\* A handler answers; a deregistration takes its own URI off the list.
LEMMA EndedLists ==
    ASSUME Types, Answers, Lists, NEW i \in Ids, task[i].op \in Op, NEW ok, Ended(i, ok),
           UNCHANGED <<clash, excused>>, profiles' \subseteq profiles,
           ok /\ task[i].op = "register" => At(i, "register", "count"),
           \/ urilist' = urilist
           \/ At(i, "deregister", "pull") /\ profiles' = profiles /\ urilist' = urilist \ {task[i].nf}
    PROVE  Lists'
  <1>1. /\ \A j \in Ids \ {i} : task'[j] = task[j]
        /\ task'[i].op \notin Op /\ "register" \in Op
    BY IdleFacts DEF Ended, Op
  <1>2. \A j \in Ids : At(j, "register", "list")' => At(j, "register", "list") /\ task'[j] = task[j]
    BY <1>1 DEF At
  <1>3. \A m \in NF : m \in known' => m \in known \/ (m = task[i].nf /\ At(i, "register", "count"))
    BY DEF Ended
  <1>4. \A j \in Ids : task'[j].op \in Op => j # i /\ task'[j] = task[j]
    BY <1>1
  <1>5. ASSUME NEW m \in NF, Listed(m)'
        PROVE  Listed(m)
    BY <1>1, <1>3, <1>4, <1>5 DEF Listed, At
  <1>6. ASSUME NEW m \in NF \ clash, Listed(m)', m \in urilist
        PROVE  m \in urilist'
    <2>1. CASE At(i, "deregister", "pull") /\ profiles' = profiles /\ m = task[i].nf
      <3>1. Alone(m)
        BY DEF Answers
      <3>2. m \notin profiles'
        BY <2>1, <3>1 DEF Alone
      <3>3. \A j \in Ids : task'[j].op \in Op => task'[j].nf # m
        BY <1>1, <2>1, <3>1 DEF Alone
      <3> QED
        BY <1>1, <1>6, <3>2, <3>3 DEF Listed, At
    <2> QED
      BY <1>6, <2>1
  <1>7. excused \subseteq excused'
    OBVIOUS
  <1>8. \A m \in NF \ (clash' \cup excused') : Listed(m)' =>
             m \notin clash /\ Listed(m) /\ (m \in urilist => m \in urilist')
    BY <1>5, <1>6
  <1> QED
    BY <1>2, <1>7, <1>8, KeepLists

\* A new handler has not written the list yet.
LEMMA EnteredLists ==
    ASSUME Lists, NEW n \in NF, NEW i \in Ids, NEW op \in Op, NEW pc, Entered(i, n, op, pc),
           pc \notin {"list", "put", "count"}, UNCHANGED <<profiles, known, urilist, excused>>,
           clash \subseteq clash' \cup {n}, op = "register" => n \notin known,
           op # "register" => clash \subseteq clash', n \notin clash' => \A j \in Ids : task[j].nf # n
    PROVE  Lists'
  <1>1. /\ \A j \in Ids \ {i} : task'[j] = task[j]
        /\ task'[i].nf = n /\ task'[i].op = op /\ task'[i].pc = pc
    BY DEF Entered
  <1>2. \A j \in Ids : At(j, "register", "list")' => At(j, "register", "list") /\ task'[j] = task[j]
    BY <1>1 DEF At
  <1>3. ASSUME NEW m \in NF, Listed(m)'
        PROVE  Listed(m)
    BY <1>1, <1>3 DEF Listed, At
  <1>4. ASSUME n \notin clash', Listed(n)'
        PROVE  n \notin clash
    <2>1. Listed(n)
      BY <1>3, <1>4
    <2>2. n \in known
      BY <1>4, <2>1 DEF Listed
    <2> QED
      BY <1>4, <2>2
  <1>5. excused \subseteq excused'
    OBVIOUS
  <1>6. \A m \in NF \ (clash' \cup excused') : Listed(m)' =>
             m \notin clash /\ Listed(m) /\ (m \in urilist => m \in urilist')
    BY <1>3, <1>4
  <1> QED
    BY <1>2, <1>5, <1>6, KeepLists

\* The handlers stay the same or are gone.
LEMMA SameLists ==
    ASSUME Lists, task' = task \/ \A i \in Ids : task'[i] = Idle,
           UNCHANGED <<clash, excused, urilist>>, known' \subseteq known, profiles' \subseteq profiles
    PROVE  Lists'
  <1>1. \A j \in Ids : task'[j].op \in Op => task'[j] = task[j]
    BY IdleFacts
  <1>2. \A j \in Ids : At(j, "register", "list")' => At(j, "register", "list") /\ task'[j] = task[j]
    BY <1>1 DEF At, Op
  <1>3. ASSUME NEW m \in NF, Listed(m)'
        PROVE  Listed(m)
    BY <1>1, <1>3 DEF Listed, At, Op
  <1>4. excused \subseteq excused'
    OBVIOUS
  <1>5. \A m \in NF \ (clash' \cup excused') : Listed(m)' =>
             m \notin clash /\ Listed(m) /\ (m \in urilist => m \in urilist')
    BY <1>3
  <1> QED
    BY <1>2, <1>4, <1>5, KeepLists

\* After a failed call of the database every URI is excused.
LEMMA FaultLists ==
    ASSUME Types', excused' = NF
    PROVE  Lists'
  <1>1. ASSUME NEW i \in Ids, At(i, "register", "list")'
        PROVE  task'[i].nf \in NF
    <2>1. task'[i] \in Task \cup {Idle} /\ task'[i].op = "register"
      BY <1>1 DEF Types, At
    <2> QED
      BY <2>1, SMT DEF Task, Idle
  <1> QED
    BY <1>1 DEF Lists, Writing

\* The list is read: the copy has every URI that is there to stay.
LEMMA ReadLists ==
    ASSUME Lists, NEW i \in Ids, Moved(i, "list"), At(i, "register", "read"), task'[i].ul = urilist,
           UNCHANGED <<clash, urilist, profiles>>,
           excused' = IF \E j \in Ids : Writing(j)
                      THEN excused \cup {task[j].nf : j \in {i} \cup {k \in Ids : Writing(k)}}
                      ELSE excused
    PROVE  Lists'
  <1>1. /\ \A j \in Ids \ {i} : task'[j] = task[j]
        /\ task'[i].nf = task[i].nf /\ task'[i].op = task[i].op /\ task'[i].pc = "list" /\ known' = known
    BY DEF Moved
  <1>2. \A j \in Ids \ {i} : At(j, "register", "list")' => At(j, "register", "list") /\ task'[j] = task[j]
    BY <1>1 DEF At
  <1>3. excused \subseteq excused'
    OBVIOUS
  <1>4. \A j \in Ids : At(j, "register", "list") => task[j].nf \in excused' /\ task[i].nf \in excused'
    BY DEF Writing
  <1>5. ASSUME NEW m \in NF, Listed(m)'
        PROVE  Listed(m)
    BY <1>1, <1>5 DEF Listed, At
  <1>6. ASSUME NEW m \in NF \ (clash' \cup excused'), Listed(m)'
        PROVE  m \in urilist' /\ \A j \in Ids : At(j, "register", "list")' => m \in task'[j].ul
    <2>1. m \in urilist /\ \A j \in Ids : At(j, "register", "list") => m \in task[j].ul
      BY <1>3, <1>5, <1>6 DEF Lists, Writing
    <2> QED
      BY <1>2, <2>1
  <1>7. ASSUME NEW k \in Ids, NEW j \in Ids, At(k, "register", "list")', At(j, "register", "list")',
               k # j
        PROVE  task'[k].nf \in excused'
    BY <1>1, <1>2, <1>4, <1>7
  <1> QED
    BY <1>6, <1>7 DEF Lists, Writing

\* The list is written back: what is there to stay was in the copy.
LEMMA WriteLists ==
    ASSUME Lists, NEW i \in Ids, Moved(i, "put"), At(i, "register", "list"),
           UNCHANGED <<clash, excused, profiles>>, urilist' = task[i].ul \cup {task[i].nf}
    PROVE  Lists'
  <1>1. /\ \A j \in Ids \ {i} : task'[j] = task[j]
        /\ task'[i].nf = task[i].nf /\ task'[i].op = task[i].op /\ task'[i].pc = "put" /\ known' = known
    BY DEF Moved
  <1>2. \A j \in Ids : At(j, "register", "list")'
                       => j # i /\ At(j, "register", "list") /\ task'[j] = task[j]
    BY <1>1 DEF At
  <1>3. ASSUME NEW m \in NF, Listed(m)', m # task[i].nf
        PROVE  Listed(m)
    BY <1>1, <1>3 DEF Listed, At
  <1>4. ASSUME NEW m \in NF \ (clash' \cup excused'), Listed(m)'
        PROVE  m \in urilist' /\ \A j \in Ids : At(j, "register", "list")' => m \in task'[j].ul
    <2>1. CASE m = task[i].nf
      BY <1>2, <1>4, <2>1 DEF Lists, Writing
    <2>2. CASE m # task[i].nf
      <3>1. \A j \in Ids : At(j, "register", "list") => m \in task[j].ul
        BY <1>3, <1>4, <2>2 DEF Lists, Writing
      <3> QED
        BY <1>2, <3>1
    <2> QED
      BY <2>1, <2>2
  <1>5. ASSUME NEW k \in Ids, NEW j \in Ids, At(k, "register", "list")', At(j, "register", "list")',
               k # j
        PROVE  task'[k].nf \in excused'
    BY <1>2, <1>5 DEF Lists, Writing
  <1> QED
    BY <1>4, <1>5 DEF Lists, Writing

-----------------------------------------------------------------------------
(* What is counted. *)

\* The handlers about to count, and those that owe, are finitely many.
LEMMA Sizes ==
    /\ IsFiniteSet(Counting) /\ Cardinality(Counting) \in Nat
    /\ IsFiniteSet(Owing) /\ Cardinality(Owing) \in Nat
    /\ IsFiniteSet(Counting') /\ Cardinality(Counting') \in Nat
    /\ IsFiniteSet(Owing') /\ Cardinality(Owing') \in Nat
  <1>1. 1 \in Int /\ MaxTasks \in Int
    BY RegistryAssumption, SMT
  <1>2. IsFiniteSet(Ids)
    BY <1>1, FS_Interval DEF Ids
  <1>3. Counting \subseteq Ids /\ Owing \subseteq Ids /\ Counting' \subseteq Ids /\ Owing' \subseteq Ids
    BY DEF Counting, Owing
  <1> QED
    BY <1>2, <1>3, FS_Subset, FS_CardinalityType

\* The balance of the counter is kept by a step that does not lower it.
LEMMA KeepCounts ==
    ASSUME Types, Counts, IsFiniteSet(profiles'), ~double' => Singly' /\ ~double,
           nrf' # "down" => nrf # "down", clean' = clean, count' \in Int,
           ~double' => count' + Cardinality(Counting') + Cardinality(profiles) + Cardinality(Owing)
                       >= count + Cardinality(Counting) + Cardinality(profiles') + Cardinality(Owing')
    PROVE  Counts'
  <1>1. Cardinality(profiles) \in Nat /\ Cardinality(profiles') \in Nat
    BY FS_CardinalityType DEF Counts
  <1>2. ASSUME nrf' # "down", clean', ~double'
        PROVE  count' + Cardinality(Counting') >= Cardinality(profiles') + Cardinality(Owing')
    <2>1. count + Cardinality(Counting) >= Cardinality(profiles) + Cardinality(Owing)
      BY <1>2 DEF Counts
    <2>2. count \in Int
      BY DEF Types
    <2> QED
      BY <1>1, <1>2, <2>1, <2>2, Sizes, SMT
  <1> QED
    BY <1>2 DEF Counts

\* A handler's step does not concern what the others count, except that it may
\* take a profile away from a deregistration that has read it.
LEMMA OthersCount ==
    ASSUME NEW i \in Ids, \A j \in Ids \ {i} : task'[j] = task[j],
           \A j \in Ids \ {i} : At(j, "deregister", "delete") /\ task[j].nf \in profiles
                                => task[j].nf \in profiles'
    PROVE  /\ \A j \in Ids \ {i} : j \in Counting' <=> j \in Counting
           /\ \A j \in Ids \ {i} : j \in Owing' => j \in Owing
  BY DEF Counting, Owing, At

\* A handler goes on with its request or ends.
GoesOn(i) == /\ \A j \in Ids \ {i} : task'[j] = task[j]
             /\ task'[i].op = "deregister" => /\ task[i].op = "deregister"
                                              /\ task'[i].nf = task[i].nf

\* A handler that goes on or ends adds no second deregistration.
LEMMA KeepSingly ==
    ASSUME NEW i \in Ids, GoesOn(i), Singly
    PROVE  Singly'
  <1>1. \A j \in Ids : task'[j].op = "deregister" => /\ task[j].op = "deregister"
                                                     /\ task'[j].nf = task[j].nf
    BY DEF GoesOn
  <1> QED
    BY <1>1 DEF Singly

\* A step that stores and counts nothing.
LEMMA QuietCounts ==
    ASSUME Types, Counts, NEW i \in Ids, GoesOn(i), UNCHANGED <<profiles, count, nrf, clean, double>>,
           i \notin Counting, i \notin Counting', i \in Owing' => i \in Owing
    PROVE  Counts'
  <1>1. \A j \in Ids \ {i} : (j \in Counting' <=> j \in Counting) /\ (j \in Owing' => j \in Owing)
    BY OthersCount DEF GoesOn
  <1>2. Counting' \subseteq Ids /\ Counting \subseteq Ids /\ Owing' \subseteq Ids
    BY DEF Counting, Owing
  <1>3. Counting' = Counting /\ Owing' \subseteq Owing
    BY <1>1, <1>2, SMT
  <1>4. Cardinality(Owing') <= Cardinality(Owing)
    BY <1>3, Sizes, FS_Subset
  <1>5. Cardinality(profiles) \in Nat /\ IsFiniteSet(profiles') /\ count \in Int
    BY FS_CardinalityType DEF Counts, Types
  <1>6. count' + Cardinality(Counting') + Cardinality(profiles) + Cardinality(Owing)
        >= count + Cardinality(Counting) + Cardinality(profiles') + Cardinality(Owing')
    BY <1>3, <1>4, <1>5, Sizes, SMT
  <1>7. ~double' => Singly' /\ ~double
    BY KeepSingly DEF Counts
  <1> QED
    BY <1>5, <1>6, <1>7, KeepCounts

\* The Put of a new profile makes its handler one that will count it.
LEMMA PutCounts ==
    ASSUME Types, Counts, NEW i \in Ids, GoesOn(i), UNCHANGED <<count, nrf, clean, double>>,
           NEW n \in NF, profiles' = profiles \cup {n},
           i \notin Counting, i \in Counting' <=> n \notin profiles, i \notin Owing'
    PROVE  Counts'
  <1>1. \A j \in Ids \ {i} : (j \in Counting' <=> j \in Counting) /\ (j \in Owing' => j \in Owing)
    BY OthersCount DEF GoesOn
  <1>2. Counting' \subseteq Ids /\ Counting \subseteq Ids /\ Owing' \subseteq Ids
    BY DEF Counting, Owing
  <1>3. Cardinality(Owing') <= Cardinality(Owing)
    BY <1>1, <1>2, Sizes, FS_Subset
  <1>4. Cardinality(profiles) \in Nat /\ IsFiniteSet(profiles') /\ count \in Int
    BY FS_CardinalityType, FS_AddElement DEF Counts, Types
  <1>5. CASE n \in profiles
    <2>1. Counting' = Counting /\ profiles' = profiles
      BY <1>1, <1>2, <1>5, SMT
    <2>2. count' + Cardinality(Counting') + Cardinality(profiles) + Cardinality(Owing)
          >= count + Cardinality(Counting) + Cardinality(profiles') + Cardinality(Owing')
      BY <2>1, <1>3, <1>4, Sizes, SMT
    <2> QED
      BY <2>2, <1>4, KeepCounts, KeepSingly DEF Counts
  <1>6. CASE n \notin profiles
    <2>1. Counting' = Counting \cup {i}
      BY <1>1, <1>2, <1>6
    <2>2. Cardinality(Counting') = Cardinality(Counting) + 1
      BY <2>1, Sizes, FS_AddElement
    <2>3. Cardinality(profiles') = Cardinality(profiles) + 1
      BY <1>6, FS_AddElement DEF Counts
    <2> QED
      BY <2>2, <2>3, <1>3, <1>4, Sizes, KeepCounts, KeepSingly, SMT DEF Counts
  <1> QED
    BY <1>5, <1>6

\* AddNfRegister counts the profile of a handler that was about to.
LEMMA CountCounts ==
    ASSUME Types, Counts, NEW i \in Ids, GoesOn(i), UNCHANGED <<profiles, nrf, clean, double>>,
           count' = count + (IF i \in Counting THEN 1 ELSE 0), i \notin Counting', i \notin Owing'
    PROVE  Counts'
  <1>1. \A j \in Ids \ {i} : (j \in Counting' <=> j \in Counting) /\ (j \in Owing' => j \in Owing)
    BY OthersCount DEF GoesOn
  <1>2. Counting' \subseteq Ids /\ Counting \subseteq Ids /\ Owing' \subseteq Ids
    BY DEF Counting, Owing
  <1>3. Cardinality(Owing') <= Cardinality(Owing)
    BY <1>1, <1>2, Sizes, FS_Subset
  <1>4. Cardinality(profiles) \in Nat /\ IsFiniteSet(profiles') /\ count \in Int
    BY FS_CardinalityType DEF Counts, Types
  <1>5. Counting' = Counting \ {i}
    BY <1>1, <1>2
  <1>6. Cardinality(Counting') = IF i \in Counting THEN Cardinality(Counting) - 1
                                 ELSE Cardinality(Counting)
    BY <1>5, Sizes, FS_RemoveElement
  <1> QED
    BY <1>3, <1>4, <1>6, Sizes, KeepCounts, KeepSingly, SMT DEF Counts

\* The Delete of a stored profile makes its handler owe one; without a second
\* deregistration of the instance nobody else owes for it.
LEMMA DeleteCounts ==
    ASSUME Types, Counts, NEW i \in Ids, GoesOn(i), UNCHANGED <<count, nrf, clean, double>>,
           At(i, "deregister", "delete"), profiles' = profiles \ {task[i].nf},
           i \notin Counting', i \in Owing' => i \in Owing \/ task[i].nf \in profiles
    PROVE  Counts'
  <1>1. Cardinality(profiles) \in Nat /\ count \in Int /\ IsFiniteSet(profiles')
        /\ Cardinality(profiles') = IF task[i].nf \in profiles THEN Cardinality(profiles) - 1
                                    ELSE Cardinality(profiles)
    <2>1. IsFiniteSet(profiles) /\ count \in Int
      BY DEF Counts, Types
    <2>2. Cardinality(profiles) \in Nat
      BY <2>1, FS_CardinalityType
    <2>3. IsFiniteSet(profiles \ {task[i].nf})
          /\ Cardinality(profiles \ {task[i].nf}) =
               IF task[i].nf \in profiles THEN Cardinality(profiles) - 1 ELSE Cardinality(profiles)
      BY <2>1, FS_RemoveElement
    <2> QED
      BY <2>1, <2>2, <2>3
  <1>2. ASSUME ~double'
        PROVE  count' + Cardinality(Counting') + Cardinality(profiles) + Cardinality(Owing)
               >= count + Cardinality(Counting) + Cardinality(profiles') + Cardinality(Owing')
    <2>1. Singly
      BY <1>2 DEF Counts
    <2>2. \A j \in Ids \ {i} : At(j, "deregister", "delete") => task[j].nf # task[i].nf
      BY <2>1 DEF Singly, At
    <2>3. \A j \in Ids \ {i} : (j \in Counting' <=> j \in Counting) /\ (j \in Owing' => j \in Owing)
      BY <2>2, OthersCount DEF GoesOn
    <2>4. Counting' \subseteq Ids /\ Counting \subseteq Ids /\ Owing' \subseteq Ids /\ i \notin Counting
      BY DEF Counting, Owing, At
    <2>5. Counting' = Counting
      BY <2>3, <2>4, SMT
    <2>6. CASE task[i].nf \in profiles
      <3>1. Owing' \subseteq Owing \cup {i}
        BY <2>3, <2>4
      <3>2. Cardinality(Owing') <= Cardinality(Owing \cup {i})
            /\ Cardinality(Owing \cup {i}) = IF i \in Owing THEN Cardinality(Owing)
                                             ELSE Cardinality(Owing) + 1
        BY <3>1, Sizes, FS_AddElement, FS_Subset
      <3> QED
        BY <1>1, <2>5, <2>6, <3>2, Sizes, SMT
    <2>7. CASE task[i].nf \notin profiles
      <3>1. Owing' \subseteq Owing
        BY <2>3, <2>4, <2>7
      <3>2. Cardinality(Owing') <= Cardinality(Owing)
        BY <3>1, Sizes, FS_Subset
      <3> QED
        BY <1>1, <2>5, <2>7, <3>2, Sizes, SMT
    <2> QED
      BY <2>6, <2>7
  <1>3. count' \in Int /\ (~double' => Singly' /\ ~double)
    BY <1>1, KeepSingly DEF Counts
  <1> QED
    BY <1>1, <1>2, <1>3, KeepCounts

\* DelNfRegister pays what its handler owed.
LEMMA PullCounts ==
    ASSUME Types, Counts, NEW i \in Ids, GoesOn(i), UNCHANGED <<profiles, nrf, clean, double>>,
           count' = count - 1, At(i, "deregister", "pull"), i \notin Counting', i \notin Owing'
    PROVE  Counts'
  <1>1. \A j \in Ids \ {i} : (j \in Counting' <=> j \in Counting) /\ (j \in Owing' => j \in Owing)
    BY OthersCount DEF GoesOn
  <1>2. Counting' \subseteq Ids /\ Counting \subseteq Ids /\ Owing' \subseteq Ids
        /\ i \notin Counting /\ i \in Owing
    BY DEF Counting, Owing, At
  <1>3. Counting' = Counting
    BY <1>1, <1>2, SMT
  <1>4. Owing' \subseteq Owing \ {i}
    BY <1>1, <1>2
  <1>5. Cardinality(Owing') <= Cardinality(Owing \ {i})
        /\ Cardinality(Owing \ {i}) = Cardinality(Owing) - 1
    BY <1>2, <1>4, Sizes, FS_RemoveElement, FS_Subset
  <1>6. Cardinality(profiles) \in Nat /\ IsFiniteSet(profiles') /\ count \in Int
    BY FS_CardinalityType DEF Counts, Types
  <1>7. count' \in Int /\ count' + Cardinality(Counting') + Cardinality(profiles) + Cardinality(Owing)
        >= count + Cardinality(Counting) + Cardinality(profiles') + Cardinality(Owing')
    BY <1>3, <1>5, <1>6, Sizes, SMT
  <1> QED
    BY <1>6, <1>7, KeepCounts, KeepSingly DEF Counts

\* A new handler neither counts nor owes.
LEMMA EnteredCounts ==
    ASSUME Types, Counts, NEW n \in NF, NEW i \in Ids, NEW op \in Op, NEW pc, Entered(i, n, op, pc),
           pc \notin {"count", "delete", "pull"}, UNCHANGED <<profiles, count, nrf, clean>>,
           double => double', op = "deregister" /\ ~double' =>
             \A j \in Ids : task[j].nf = n => task[j].op # "deregister"
    PROVE  Counts'
  <1>1. /\ \A j \in Ids \ {i} : task'[j] = task[j]
        /\ task'[i].nf = n /\ task'[i].op = op /\ task'[i].pc = pc /\ task[i].op \notin Op
    BY IdleFacts DEF Entered
  <1>2. \A j \in Ids \ {i} : (j \in Counting' <=> j \in Counting) /\ (j \in Owing' => j \in Owing)
    BY <1>1, OthersCount
  <1>3. Counting' \subseteq Ids /\ Counting \subseteq Ids /\ Owing' \subseteq Ids
        /\ i \notin Counting' /\ i \notin Counting /\ i \notin Owing'
    BY <1>1 DEF Counting, Owing, At, Op
  <1>4. Counting' = Counting
    BY <1>2, <1>3, SMT
  <1>5. Owing' \subseteq Owing
    BY <1>2, <1>3
  <1>6. Cardinality(Owing') <= Cardinality(Owing)
    BY <1>5, Sizes, FS_Subset
  <1>7. Cardinality(profiles) \in Nat /\ IsFiniteSet(profiles') /\ count \in Int
    BY FS_CardinalityType DEF Counts, Types
  <1>8. count' + Cardinality(Counting') + Cardinality(profiles) + Cardinality(Owing)
        >= count + Cardinality(Counting) + Cardinality(profiles') + Cardinality(Owing')
    BY <1>4, <1>6, <1>7, Sizes, SMT
  <1>9. ASSUME ~double'
        PROVE  Singly' /\ ~double
    <2>1. Singly
      BY <1>9 DEF Counts
    <2>2. op = "deregister" => \A j \in Ids \ {i} : task'[j].nf = n => task'[j].op # "deregister"
      BY <1>1, <1>9
    <2> QED
      BY <1>1, <1>9, <2>1, <2>2, ZenonT(60) DEF Singly
  <1> QED
    BY <1>7, <1>8, <1>9, KeepCounts

\* The collection is dropped: as many deregistrations as there were profiles may
\* find theirs gone.
LEMMA DropCounts ==
    ASSUME Types, Counts, UNCHANGED <<task, count, clean, double>>, profiles' = {}, nrf # "down"
    PROVE  Counts'
  <1> DEFINE X == {i \in Ids : task[i].op = "deregister" /\ task[i].nf \in profiles}
             f == [i \in X |-> task[i].nf]
  <1>1. Cardinality(profiles) \in Nat /\ IsFiniteSet(profiles) /\ count \in Int
        /\ IsFiniteSet(profiles') /\ Cardinality(profiles') = 0
    BY FS_CardinalityType, FS_EmptySet DEF Counts, Types
  <1>2. Counting' = Counting
    BY DEF Counting, At
  <1>3. Owing' \subseteq Owing \cup X
    BY DEF Owing, At
  <1>4. ASSUME ~double'
        PROVE  count' + Cardinality(Counting') + Cardinality(profiles) + Cardinality(Owing)
               >= count + Cardinality(Counting) + Cardinality(profiles') + Cardinality(Owing')
    <2>1. \A i, j \in X : f[i] = f[j] => i = j
      BY <1>4 DEF Counts, Singly
    <2>2. f \in Injection(X, profiles)
      BY <2>1 DEF Injection, IsInjective
    <2> HIDE DEF f
    <2>3. IsFiniteSet(X) /\ Cardinality(X) <= Cardinality(profiles)
      BY <1>1, <2>2, FS_Injection
    <2> HIDE DEF X
    <2>4. IsFiniteSet(Owing \cup X)
          /\ Cardinality(Owing \cup X) = Cardinality(Owing) + Cardinality(X) - Cardinality(Owing \cap X)
      BY <2>3, Sizes, FS_Union
    <2>5. IsFiniteSet(Owing \cap X)
      BY <2>3, FS_Intersection
    <2>6. Cardinality(Owing \cap X) \in Nat /\ Cardinality(X) \in Nat
      BY <2>3, <2>5, FS_CardinalityType
    <2>7. Cardinality(Owing') <= Cardinality(Owing \cup X)
      BY <1>3, <2>4, FS_Subset
    <2> QED
      BY <1>1, <1>2, <2>3, <2>4, <2>6, <2>7, Sizes, SMT
  <1>5. count' \in Int /\ (~double' => Singly' /\ ~double)
    BY <1>1 DEF Counts, Singly
  <1> QED
    BY <1>1, <1>4, <1>5, KeepCounts

\* The NRF is down, or starts with no handler.
LEMMA IdleCounts ==
    ASSUME Counts, \A i \in Ids : task'[i] = Idle, profiles' = profiles,
           nrf' = "down" \/ (count' = 0 /\ (clean' => profiles = {}))
    PROVE  Counts'
  <1>1. \A i \in Ids : task'[i].op \notin Op
    BY IdleFacts
  <1>2. Singly' /\ Counting' = {} /\ Owing' = {}
    BY <1>1 DEF Singly, Counting, Owing, At, Op
  <1>3. Cardinality({}) = 0
    BY FS_EmptySet
  <1>4. ASSUME nrf' # "down", clean'
        PROVE  count' + Cardinality(Counting') >= Cardinality(profiles') + Cardinality(Owing')
    <2>1. profiles' = {} /\ count' = 0
      BY <1>4
    <2> QED
      BY <1>2, <1>3, <2>1, SMT
  <1> QED
    BY <1>2, <1>4 DEF Counts

-----------------------------------------------------------------------------
(* The handlers keep the invariant. *)

\* Types after a handler went on.
LEMMA MovedTypes ==
    ASSUME Types, NEW i \in Ids, NEW pc, Moved(i, pc), UNCHANGED <<deaf, nrf, clash, double, clean>>,
           profiles' \subseteq NF, urilist' \subseteq NF, excused' \subseteq NF, count' \in Int
    PROVE  Types'
  <1>1. \A j \in Ids : task'[j] \in Task \cup {Idle}
    BY DEF Types, Moved
  <1> QED
    BY <1>1 DEF Types, Moved

\* Types after a handler ended.
LEMMA EndedTypes ==
    ASSUME Types, NEW i \in Ids, NEW ok, Ended(i, ok),
           UNCHANGED <<deaf, nrf, clash, excused, double, clean>>,
           profiles' \subseteq NF, urilist' \subseteq NF, count' \in Int
    PROVE  Types'
  <1>1. \A j \in Ids : task'[j] \in Task \cup {Idle}
    BY DEF Types, Ended
  <1> QED
    BY <1>1 DEF Types, Ended

\* What a handler that went on counts and owes.
LEMMA MovedGoesOn ==
    ASSUME NEW i \in Ids, NEW pc, Moved(i, pc)
    PROVE  /\ GoesOn(i)
           /\ i \in Counting' <=> task[i].op = "register" /\ pc = "count" /\ task'[i].new
           /\ i \in Owing' <=>
                \/ task[i].op = "deregister" /\ pc = "pull"
                \/ /\ task[i].op = "deregister" /\ pc = "delete" /\ ~task'[i].new
                   /\ task[i].nf \notin profiles'
  BY DEF Moved, GoesOn, Counting, Owing, At

\* A handler that ended counts and owes nothing.
LEMMA EndedGoesOn ==
    ASSUME NEW i \in Ids, NEW ok, Ended(i, ok)
    PROVE  GoesOn(i) /\ i \notin Counting' /\ i \notin Owing'
  <1>1. (\A j \in Ids \ {i} : task'[j] = task[j]) /\ task'[i].op \notin Op
    BY IdleFacts DEF Ended
  <1> QED
    BY <1>1 DEF GoesOn, Counting, Owing, At, Op

\* A handler that has not stored a profile gives up.
LEMMA GivesUp ==
    ASSUME IInv, NEW i \in Ids, task[i].op \in Op, Answer(i, FALSE), ~At(i, "register", "count"),
           UNCHANGED <<profiles, urilist, deaf, count, nrf, clash, excused, double, clean>>
    PROVE  IInv'
  <1>1. Types /\ Waits /\ Answers /\ Lists /\ Counts
    BY DEF IInv
  <1>2. Ended(i, FALSE)
    BY <1>1, AnswerEnds
  <1>3. PICK n \in NF : n = task[i].nf
    BY <1>1, AtWork
  <1>4. Types'
    BY <1>1, <1>2, EndedTypes DEF Types
  <1>5. Waits'
    BY <1>1, <1>2, EndedWaits
  <1>6. Answers'
    BY <1>1, <1>2, <1>3, EndedAnswers
  <1>7. Lists'
    BY <1>1, <1>2, EndedLists
  <1>8. i \notin Counting
    BY DEF Counting
  <1>9. Counts'
    BY <1>1, <1>2, <1>8, EndedGoesOn, QuietCounts
  <1> QED
    BY <1>4, <1>5, <1>6, <1>7, <1>9 DEF IInv

\* Reading the list keeps the invariant.
LEMMA ReadListIInv ==
    ASSUME IInv, NEW i \in Ids, ReadList(i)
    PROVE  IInv'
  <1>1. Types /\ Waits /\ Answers /\ Lists /\ Counts
    BY DEF IInv
  <1>2. /\ At(i, "register", "read") /\ task[i].op \in Op /\ "list" \in Pc
        /\ UNCHANGED <<nf, req, profiles, urilist, deaf, count, nrf, known, clash, double, clean>>
    BY DEF ReadList, At, Op, Pc, db
  <1>3. PICK n \in NF : n = task[i].nf
    BY <1>1, <1>2, AtWork
  <1>4. Moved(i, "list") /\ (task'[i].ul = urilist \/ excused' = NF)
    <2>1. urilist \in SUBSET NF
      BY <1>1 DEF Types
    <2>2. CASE task' = [task EXCEPT ![i].pc = "list", ![i].ul = urilist]
      BY <1>1, <1>2, <2>1, <2>2, GotoWithList
    <2>3. CASE Goto(i, "list") /\ excused' = NF
      BY <1>1, <1>2, <2>3, GotoMoves
    <2> QED
      BY <2>2, <2>3 DEF ReadList
  <1>5. \/ excused' = NF
        \/ /\ task'[i].ul = urilist
           /\ excused' = IF \E j \in Ids : Writing(j)
                         THEN excused \cup {task[j].nf : j \in {i} \cup {k \in Ids : Writing(k)}}
                         ELSE excused
    <2>1. urilist \in SUBSET NF
      BY <1>1 DEF Types
    <2> QED
      BY <1>1, <1>2, <2>1, GotoWithList DEF ReadList
  <1>6. \A j \in Ids : Writing(j) => task[j].nf \in NF
    BY <1>1, AtWork DEF Writing, At, Op
  <1>7. excused' \subseteq NF
    BY <1>1, <1>3, <1>5, <1>6, SMT DEF Types
  <1>8. Types'
    BY <1>1, <1>2, <1>4, <1>7, MovedTypes DEF Types
  <1>9. Waits' /\ Answers'
    <2>1. Waits'
      BY <1>1, <1>2, <1>4, MovedWaits
    <2>2. /\ clash' = clash /\ nrf' = nrf /\ \A m \in NF \ {n} : m \in profiles' <=> m \in profiles
          /\ "list" # "count" /\ "list" # "pull"
      BY <1>2
    <2>3. Answers'
      BY <1>1, <1>2, <1>3, <1>4, <2>2, MovedAnswers
    <2> QED
      BY <2>1, <2>3
  <1>10. Lists'
    BY <1>1, <1>2, <1>4, <1>5, <1>8, ReadLists, FaultLists
  <1>11. i \notin Counting /\ i \notin Counting' /\ i \notin Owing' /\ GoesOn(i)
    BY <1>2, <1>4, MovedGoesOn DEF Counting, At
  <1>12. Counts'
    BY <1>1, <1>2, <1>11, QuietCounts
  <1> QED
    BY <1>8, <1>9, <1>10, <1>12 DEF IInv

\* Writing the list back keeps the invariant.
LEMMA WriteListIInv ==
    ASSUME IInv, NEW i \in Ids, WriteList(i)
    PROVE  IInv'
  <1>1. Types /\ Waits /\ Answers /\ Lists /\ Counts
    BY DEF IInv
  <1>2. /\ At(i, "register", "list") /\ task[i].op \in Op
        /\ UNCHANGED <<nf, req, profiles, deaf, count, nrf, known, clash, double, clean>>
        /\ \/ urilist' = task[i].ul \cup {task[i].nf} /\ UNCHANGED excused
           \/ excused' = NF /\ UNCHANGED urilist
    BY DEF WriteList, Writing, At, Op, Pc
  <1>3. PICK n \in NF : n = task[i].nf
    BY <1>1, <1>2, AtWork
  <1>4. Moved(i, "put")
    <2>1. "put" \in Pc /\ {} \in SUBSET NF /\ task' = [task EXCEPT ![i].pc = "put", ![i].ul = {}]
      BY DEF Pc, WriteList
    <2> QED
      BY <1>1, <1>2, <2>1, GotoWithList
  <1>5. task[i] \in Task
    BY <1>1, <1>2, AtWork
  <1>6. task[i].ul \subseteq NF
    BY <1>5, SMT DEF Task
  <1>7. urilist' \subseteq NF /\ excused' \subseteq NF
    BY <1>1, <1>2, <1>3, <1>6 DEF Types
  <1>8. Types'
    BY <1>1, <1>2, <1>4, <1>7, MovedTypes DEF Types
  <1>9. Waits' /\ Answers'
    <2>1. Waits'
      BY <1>1, <1>2, <1>4, MovedWaits
    <2>2. /\ clash' = clash /\ nrf' = nrf /\ \A m \in NF \ {n} : m \in profiles' <=> m \in profiles
          /\ "put" # "count" /\ "put" # "pull"
      BY <1>2
    <2>3. Answers'
      BY <1>1, <1>2, <1>3, <1>4, <2>2, MovedAnswers
    <2> QED
      BY <2>1, <2>3
  <1>10. Lists'
    BY <1>1, <1>2, <1>4, <1>8, WriteLists, FaultLists
  <1>11. i \notin Counting /\ i \notin Counting' /\ i \notin Owing' /\ GoesOn(i)
    BY <1>2, <1>4, MovedGoesOn DEF Counting, At
  <1>12. Counts'
    BY <1>1, <1>2, <1>11, QuietCounts
  <1> QED
    BY <1>8, <1>9, <1>10, <1>12 DEF IInv

\* Storing the profile keeps the invariant.
LEMMA PutProfileIInv ==
    ASSUME IInv, NEW i \in Ids, PutProfile(i)
    PROVE  IInv'
  <1>1. Types /\ Waits /\ Answers /\ Lists /\ Counts
    BY DEF IInv
  <1>2. /\ At(i, "register", "put") /\ task[i].op \in Op /\ "count" \in Pc
        /\ UNCHANGED <<urilist, deaf, count, nrf, clash, excused, double, clean>>
    BY DEF PutProfile, At, Op, Pc
  <1>3. PICK n \in NF : n = task[i].nf
    BY <1>1, <1>2, AtWork
  <1>4. CASE Answer(i, FALSE) /\ UNCHANGED profiles
    BY <1>2, <1>4, GivesUp DEF At
  <1>5. ASSUME /\ profiles' = profiles \cup {n}
               /\ task' = [task EXCEPT ![i].pc = "count", ![i].new = n \notin profiles]
               /\ UNCHANGED <<nf, req, known>>
        PROVE  IInv'
    <2>1. PICK b \in BOOLEAN : b = (n \notin profiles)
      OBVIOUS
    <2>2. Moved(i, "count") /\ task'[i].new = b
      BY <1>1, <1>2, <1>5, <2>1, GotoWithNew
    <2>3. profiles' \subseteq NF
      BY <1>1, <1>5 DEF Types
    <2>4. Types'
      BY <1>1, <1>2, <2>2, <2>3, MovedTypes DEF Types
    <2>5. Waits'
      BY <1>1, <1>2, <2>2, MovedWaits
    <2>6. /\ clash' = clash /\ nrf' = nrf /\ \A m \in NF \ {n} : m \in profiles' <=> m \in profiles
          /\ n \in profiles' /\ "count" # "pull"
      BY <1>2, <1>5
    <2>7. Answers'
      BY <1>1, <1>2, <1>3, <2>2, <2>6, MovedAnswers
    <2>8. "count" # "list" /\ \A m \in NF : m \in profiles' => m \in profiles
                                                \/ (m = task[i].nf /\ At(i, "register", "put"))
      BY <1>2, <1>3, <1>5
    <2>9. Lists'
      BY <1>1, <1>2, <2>2, <2>8, MovedLists
    <2>10. /\ GoesOn(i) /\ i \notin Counting /\ (i \in Counting' <=> n \notin profiles)
           /\ i \notin Owing'
      BY <1>2, <2>1, <2>2, MovedGoesOn DEF Counting, At
    <2>11. Counts'
      BY <1>1, <1>2, <1>5, <2>10, PutCounts
    <2> QED
      BY <2>4, <2>5, <2>7, <2>9, <2>11 DEF IInv
  <1> QED
    BY <1>3, <1>4, <1>5 DEF PutProfile

\* Counting, notifying and answering keeps the invariant.
LEMMA CountAndNotifyIInv ==
    ASSUME IInv, NEW i \in Ids, CountAndNotify(i)
    PROVE  IInv'
  <1>1. Types /\ Waits /\ Answers /\ Lists /\ Counts
    BY DEF IInv
  <1>2. /\ At(i, "register", "count") /\ task[i].op \in Op /\ Answer(i, ~deaf)
        /\ UNCHANGED <<profiles, urilist, deaf, nrf, clash, excused, double, clean>>
    BY DEF CountAndNotify, At, Op, db
  <1>3. PICK n \in NF : n = task[i].nf
    BY <1>1, <1>2, AtWork
  <1>4. PICK ok \in BOOLEAN : Ended(i, ok)
    BY <1>1, <1>2, AnswerEnds DEF Types
  <1>5. count' = count + (IF i \in Counting THEN 1 ELSE 0)
    BY <1>2 DEF CountAndNotify, Counting
  <1>6. count' \in Int
    BY <1>1, <1>5, SMT DEF Types
  <1>7. Types'
    BY <1>1, <1>2, <1>4, <1>6, EndedTypes DEF Types
  <1>8. Waits'
    BY <1>1, <1>2, <1>4, EndedWaits
  <1>9. Answers'
    BY <1>1, <1>2, <1>3, <1>4, EndedAnswers DEF At
  <1>10. Lists'
    BY <1>1, <1>2, <1>4, EndedLists
  <1>11. Counts'
    BY <1>1, <1>2, <1>4, <1>5, EndedGoesOn, CountCounts
  <1> QED
    BY <1>7, <1>8, <1>9, <1>10, <1>11 DEF IInv

\* Reading the profile to be deleted keeps the invariant.
LEMMA FindProfileIInv ==
    ASSUME IInv, NEW i \in Ids, FindProfile(i)
    PROVE  IInv'
  <1>1. Types /\ Waits /\ Answers /\ Lists /\ Counts
    BY DEF IInv
  <1>2. /\ At(i, "deregister", "find") /\ task[i].op \in Op /\ "delete" \in Pc
        /\ UNCHANGED <<profiles, urilist, deaf, count, nrf, clash, excused, double, clean>>
    BY DEF FindProfile, At, Op, Pc, db
  <1>3. PICK n \in NF : n = task[i].nf
    BY <1>1, <1>2, AtWork
  <1>4. CASE Answer(i, FALSE)
    BY <1>2, <1>4, GivesUp DEF At
  <1>5. ASSUME /\ task' = [task EXCEPT ![i].pc = "delete", ![i].new = n \notin profiles]
               /\ UNCHANGED <<nf, req, known>>
        PROVE  IInv'
    <2>1. PICK b \in BOOLEAN : b = (n \notin profiles)
      OBVIOUS
    <2>2. Moved(i, "delete")
      BY <1>1, <1>2, <1>5, <2>1, GotoWithNew
    <2>3. Types'
      BY <1>1, <1>2, <2>2, MovedTypes DEF Types
    <2>4. Waits'
      BY <1>1, <1>2, <2>2, MovedWaits
    <2>5. /\ clash' = clash /\ nrf' = nrf /\ \A m \in NF \ {n} : m \in profiles' <=> m \in profiles
          /\ "delete" # "count" /\ "delete" # "pull"
      BY <1>2
    <2>6. Answers'
      BY <1>1, <1>2, <1>3, <2>2, <2>5, MovedAnswers
    <2>7. Lists'
      BY <1>1, <1>2, <2>2, MovedLists
    <2>8. GoesOn(i) /\ i \notin Counting /\ i \notin Counting' /\ i \notin Owing'
      <3>1. task'[i].new \/ task[i].nf \in profiles'
        <4>1. task'[i].new = b
          BY <1>1, <1>2, <1>5, <2>1, GotoWithNew
        <4> QED
          BY <1>2, <1>3, <2>1, <4>1
      <3>2. task[i].op = "deregister" /\ i \notin Counting
        BY <1>2 DEF Counting, At
      <3>3. /\ GoesOn(i)
            /\ i \in Counting' => task[i].op = "register"
            /\ i \in Owing' => ~task'[i].new /\ task[i].nf \notin profiles'
        BY <2>2, MovedGoesOn, SMT
      <3> QED
        BY <3>1, <3>2, <3>3
    <2>9. Counts'
      BY <1>1, <1>2, <2>8, QuietCounts
    <2> QED
      BY <2>3, <2>4, <2>6, <2>7, <2>9 DEF IInv
  <1> QED
    BY <1>3, <1>4, <1>5 DEF FindProfile

\* Deleting the profile keeps the invariant.
LEMMA DeleteProfileIInv ==
    ASSUME IInv, NEW i \in Ids, DeleteProfile(i)
    PROVE  IInv'
  <1>1. Types /\ Waits /\ Answers /\ Lists /\ Counts
    BY DEF IInv
  <1>2. /\ At(i, "deregister", "delete") /\ task[i].op \in Op /\ "pull" \in Pc
        /\ UNCHANGED <<urilist, deaf, count, nrf, clash, excused, double, clean>>
    BY DEF DeleteProfile, At, Op, Pc
  <1>3. PICK n \in NF : n = task[i].nf
    BY <1>1, <1>2, AtWork
  <1>4. CASE Answer(i, FALSE) /\ UNCHANGED profiles
    BY <1>2, <1>4, GivesUp DEF At
  <1>5. ASSUME profiles' = profiles \ {n}
        PROVE  /\ profiles' \subseteq NF /\ profiles' \subseteq profiles
               /\ n \notin profiles' /\ \A m \in NF \ {n} : m \in profiles' <=> m \in profiles
    BY <1>1, <1>5 DEF Types
  <1>6. ASSUME profiles' = profiles \ {n}, Answer(i, FALSE)
        PROVE  IInv'
    <2>1. Ended(i, FALSE)
      BY <1>1, <1>2, <1>6, AnswerEnds
    <2>2. Types'
      BY <1>1, <1>2, <1>5, <1>6, <2>1, EndedTypes DEF Types
    <2>3. Waits'
      BY <1>1, <1>2, <2>1, EndedWaits
    <2>4. Answers'
      BY <1>1, <1>2, <1>3, <1>5, <1>6, <2>1, EndedAnswers
    <2>5. Lists'
      BY <1>1, <1>2, <1>5, <1>6, <2>1, EndedLists
    <2>6. Counts'
      BY <1>1, <1>2, <1>3, <1>6, <2>1, EndedGoesOn, DeleteCounts
    <2> QED
      BY <2>2, <2>3, <2>4, <2>5, <2>6 DEF IInv
  <1>7. ASSUME profiles' = profiles \ {n}, ~task[i].new, Goto(i, "pull"), UNCHANGED <<nf, req, known>>
        PROVE  IInv'
    <2>1. Moved(i, "pull")
      BY <1>1, <1>2, <1>7, GotoMoves
    <2>2. Types'
      BY <1>1, <1>2, <1>5, <1>7, <2>1, MovedTypes DEF Types
    <2>3. Waits'
      BY <1>1, <1>2, <2>1, MovedWaits
    <2>4. Answers'
      <3>1. clash' = clash /\ nrf' = nrf /\ "pull" # "count" /\ n \notin profiles'
        BY <1>2, <1>5, <1>7
      <3>2. \A m \in NF \ {n} : m \in profiles' <=> m \in profiles
        BY <1>5, <1>7
      <3> QED
        BY <1>1, <1>2, <1>3, <2>1, <3>1, <3>2, MovedAnswers
    <2>5. Lists'
      BY <1>1, <1>2, <1>5, <1>7, <2>1, MovedLists
    <2>6. i \in Owing \/ task[i].nf \in profiles
      BY <1>2, <1>7 DEF Owing
    <2>7. GoesOn(i) /\ i \notin Counting'
      BY <1>2, <2>1, MovedGoesOn DEF At
    <2>8. Counts'
      BY <1>1, <1>2, <1>3, <1>7, <2>6, <2>7, DeleteCounts
    <2> QED
      BY <2>2, <2>3, <2>4, <2>5, <2>8 DEF IInv
  <1> QED
    BY <1>3, <1>4, <1>6, <1>7 DEF DeleteProfile

\* Taking the URI off the list and the counter down keeps the invariant.
LEMMA PullUriIInv ==
    ASSUME IInv, NEW i \in Ids, PullUri(i)
    PROVE  IInv'
  <1>1. Types /\ Waits /\ Answers /\ Lists /\ Counts
    BY DEF IInv
  <1>2. /\ At(i, "deregister", "pull") /\ task[i].op \in Op
        /\ UNCHANGED <<profiles, deaf, nrf, clash, excused, double, clean>>
    BY DEF PullUri, At, Op
  <1>3. PICK n \in NF : n = task[i].nf
    BY <1>1, <1>2, AtWork
  <1>4. CASE Answer(i, FALSE) /\ UNCHANGED <<urilist, count>>
    BY <1>2, <1>4, GivesUp DEF At
  <1>5. ASSUME urilist' = urilist \ {n}, count' = count - 1, Answer(i, TRUE)
        PROVE  IInv'
    <2>1. Ended(i, TRUE)
      BY <1>1, <1>2, <1>5, AnswerEnds
    <2>2. urilist' \subseteq NF
      BY <1>1, <1>5 DEF Types
    <2>3. count' \in Int
      BY <1>1, <1>5, SMT DEF Types
    <2>4. Types'
      BY <1>1, <1>2, <2>1, <2>2, <2>3, EndedTypes DEF Types
    <2>5. Waits'
      BY <1>1, <1>2, <2>1, EndedWaits
    <2>6. task[i].op # "register"
      BY <1>2 DEF At
    <2>7. Answers'
      BY <1>1, <1>2, <1>3, <2>1, <2>6, EndedAnswers
    <2>8. Lists'
      BY <1>1, <1>2, <1>3, <1>5, <2>1, <2>6, EndedLists
    <2>9. Counts'
      BY <1>1, <1>2, <1>5, <2>1, EndedGoesOn, PullCounts
    <2> QED
      BY <2>4, <2>5, <2>7, <2>8, <2>9 DEF IInv
  <1> QED
    BY <1>3, <1>4, <1>5 DEF PullUri

-----------------------------------------------------------------------------
(* The clients and the life of the NRF keep the invariant. *)

\* The clients leave or start again on their own.
LEMMA ClientKeeps ==
    ASSUME IInv, UNCHANGED <<task, profiles, urilist, deaf, count, nrf, clash, excused, double, clean>>,
           nf' \in [NF -> {"down", "registering", "up", "leaving", "left"}],
           req' \in [NF -> 0 .. MaxTasks], known' \subseteq known,
           \A n \in NF : /\ req'[n] = 0 \/ (req'[n] = req[n] /\ nf'[n] = nf[n])
                         /\ nf'[n] = nf[n] \/ (nf'[n] # "up" /\ (nf'[n] = "registering" => n \notin known'))
    PROVE  IInv'
  <1>1. Types /\ Waits /\ Answers /\ Lists /\ Counts
    BY DEF IInv
  <1>2. Types'
    BY <1>1 DEF Types
  <1>3. Waits'
    BY <1>1, SameWaits
  <1>4. Answers'
    BY <1>1, SameAnswers
  <1>5. Lists'
    BY <1>1, SameLists
  <1>6. Counts'
    BY <1>1 DEF Counts, Singly, Counting, Owing, At
  <1> QED
    BY <1>2, <1>3, <1>4, <1>5, <1>6 DEF IInv

\* A client sends a request.
LEMMA RequestKeeps ==
    ASSUME IInv, NEW n \in NF, NEW op \in Op, NEW pc \in {"read", "find"}, Request(n, op, pc),
           UNCHANGED <<profiles, urilist, deaf, count, nrf, known, excused, clean>>,
           nf' \in [NF -> {"down", "registering", "up", "leaving", "left"}],
           \A m \in NF \ {n} : nf'[m] = nf[m],
           \/ op = "register" /\ nf'[n] = "registering" /\ nf[n] = "registering"
           \/ op = "deregister" /\ nf'[n] = "leaving"
    PROVE  IInv'
  <1>1. Types /\ Waits /\ Answers /\ Lists /\ Counts
    BY DEF IInv
  <1>2. pc \in Pc /\ pc \notin {"list", "put", "count", "delete", "pull"}
    BY DEF Pc
  <1>3. PICK i \in Ids : Entered(i, n, op, pc)
    BY <1>1, <1>2, RequestEnters
  <1>4. /\ nrf # "down" /\ clash' \subseteq clash \cup {n} /\ clash \subseteq clash' \cup {n}
        /\ n \notin clash' => \A j \in Ids : task[j].nf # n
        /\ op = "deregister" => clash \subseteq clash'
        /\ double' \in BOOLEAN /\ (double => double')
        /\ op = "deregister" /\ ~double' =>
             \A j \in Ids : task[j].nf = n => task[j].op # "deregister"
    BY <1>1, <1>2, RequestEnters
  <1>5. op = "register" \/ nf'[n] = "registering" => n \notin known
    BY <1>1 DEF Answers
  <1>6. Types'
    <2>1. \A j \in Ids : task'[j] \in Task \cup {Idle}
      BY <1>1, <1>3 DEF Types, Entered
    <2>2. clash' \subseteq NF
      BY <1>1, <1>4 DEF Types
    <2> QED
      BY <1>1, <1>3, <1>4, <2>1, <2>2 DEF Types, Entered
  <1>7. Waits'
    BY <1>1, <1>3, <1>4, EnteredWaits
  <1>8. Answers'
    BY <1>1, <1>2, <1>3, <1>4, <1>5, EnteredAnswers
  <1>9. Lists'
    <2>1. op # "register" => clash \subseteq clash'
      BY <1>4 DEF Op
    <2>2. pc \notin {"list", "put", "count"} /\ (op = "register" => n \notin known)
      BY <1>2, <1>5
    <2> QED
      BY <1>1, <1>3, <1>4, <2>1, <2>2, EnteredLists
  <1>10. Counts'
    BY <1>1, <1>2, <1>3, <1>4, EnteredCounts
  <1> QED
    BY <1>6, <1>7, <1>8, <1>9, <1>10 DEF IInv

\* The NFs keep the invariant.
LEMMA ClientIInv ==
    ASSUME IInv, NEW n \in NF, NFLife(n)
    PROVE  IInv'
  <1>1. Types
    BY DEF IInv
  <1>2. CASE NFStart(n)
    <2>1. nf[n] \in {"down", "left"} /\ nf' = [nf EXCEPT ![n] = "registering"] /\ known' = known \ {n}
          /\ UNCHANGED <<req, task, profiles, urilist, deaf, count, nrf, clash, excused, double, clean>>
      BY <1>2 DEF NFStart, db
    <2>2. /\ nf' \in [NF -> {"down", "registering", "up", "leaving", "left"}] /\ known' \subseteq known
          /\ nf'[n] = "registering" /\ n \notin known' /\ \A m \in NF \ {n} : nf'[m] = nf[m]
      BY <1>1, <2>1, SMT DEF Types
    <2>3. req[n] = 0
      BY <2>1 DEF IInv, Waits
    <2>4. req' \in [NF -> 0 .. MaxTasks]
      BY <1>1, <2>1 DEF Types
    <2> QED
      BY <2>1, <2>2, <2>3, <2>4, ClientKeeps
  <1>3. CASE SendRegister(n)
    <2>1. /\ nf[n] = "registering" /\ Request(n, "register", "read") /\ nf' = nf
          /\ UNCHANGED <<profiles, urilist, deaf, count, nrf, known, excused, clean>>
      BY <1>3 DEF SendRegister, db
    <2>2. nf' \in [NF -> {"down", "registering", "up", "leaving", "left"}] /\ "register" \in Op
      BY <1>1, <2>1 DEF Types, Op
    <2> QED
      BY <2>1, <2>2, RequestKeeps
  <1>4. CASE Terminate(n)
    <2>1. UNCHANGED <<profiles, urilist, deaf, count, nrf, known, excused, clean>>
      BY <1>4 DEF Terminate, db
    <2>2. CASE nf' = [nf EXCEPT ![n] = "leaving"] /\ Request(n, "deregister", "find")
      <3>1. /\ nf' \in [NF -> {"down", "registering", "up", "leaving", "left"}]
            /\ nf'[n] = "leaving" /\ \A m \in NF \ {n} : nf'[m] = nf[m]
        BY <1>1, <2>2, SMT DEF Types
      <3>2. "deregister" \in Op
        BY DEF Op
      <3> QED
        BY <2>1, <2>2, <3>1, <3>2, RequestKeeps
    <2>3. CASE ~Serving /\ nf' = [nf EXCEPT ![n] = "down"] /\ UNCHANGED <<req, task, clash, double>>
      <3>1. /\ nf' \in [NF -> {"down", "registering", "up", "leaving", "left"}]
            /\ nf'[n] = "down" /\ \A m \in NF \ {n} : nf'[m] = nf[m]
        BY <1>1, <2>3, SMT DEF Types
      <3>2. req[n] = 0
        <4>1. ASSUME req[n] # 0
              PROVE  FALSE
          <5>1. req[n] \in Ids /\ task[req[n]].op \in Op
            BY <1>1, <4>1, ReqId DEF IInv, Waits, Op
          <5> QED
            BY <2>3, <5>1, Alive DEF IInv, Serving
        <4> QED
          BY <4>1
      <3>3. req' \in [NF -> 0 .. MaxTasks]
        BY <1>1, <2>3 DEF Types
      <3> QED
        BY <2>1, <2>3, <3>1, <3>2, <3>3, ClientKeeps
    <2> QED
      BY <1>4, <2>2, <2>3 DEF Terminate
  <1>5. CASE Kill(n)
    <2>1. /\ nf' = [nf EXCEPT ![n] = "down"] /\ req' = [req EXCEPT ![n] = 0] /\ known' = known
          /\ UNCHANGED <<task, profiles, urilist, deaf, count, nrf, clash, excused, double, clean>>
      BY <1>5 DEF Kill, db, hist
    <2>2. /\ nf' \in [NF -> {"down", "registering", "up", "leaving", "left"}]
          /\ nf'[n] = "down" /\ \A m \in NF \ {n} : nf'[m] = nf[m]
          /\ req' \in [NF -> 0 .. MaxTasks] /\ req'[n] = 0 /\ \A m \in NF \ {n} : req'[m] = req[m]
      BY <1>1, <2>1, RegistryAssumption, SMT DEF Types
    <2> QED
      BY <2>1, <2>2, ClientKeeps
  <1>6. CASE LoseConnection(n)
    <2>1. /\ nf' = [nf EXCEPT ![n] = AfterError(n)] /\ req' = [req EXCEPT ![n] = 0] /\ known' = known
          /\ UNCHANGED <<task, profiles, urilist, deaf, count, nrf, clash, excused, double, clean>>
      BY <1>6 DEF LoseConnection, db, hist
    <2>2. /\ nf' \in [NF -> {"down", "registering", "up", "leaving", "left"}]
          /\ (nf'[n] = "down" \/ nf'[n] = nf[n]) /\ \A m \in NF \ {n} : nf'[m] = nf[m]
          /\ req' \in [NF -> 0 .. MaxTasks] /\ req'[n] = 0 /\ \A m \in NF \ {n} : req'[m] = req[m]
      BY <1>1, <2>1, RegistryAssumption, SMT DEF Types, AfterError
    <2> QED
      BY <2>1, <2>2, ClientKeeps
  <1> QED
    BY <1>2, <1>3, <1>4, <1>5, <1>6 DEF NFLife

\* Subscriptions and the life of the NRF keep the invariant.
LEMMA LifeIInv ==
    ASSUME IInv, NrfLife
    PROVE  IInv'
  <1>1. Types /\ Waits /\ Answers /\ Lists /\ Counts
    BY DEF IInv
  <1>2. CASE Subscription \/ TerminateNrf
    <2>1. /\ UNCHANGED <<nf, req, task, profiles, urilist, count, known, clash, excused, double, clean>>
          /\ deaf' \in BOOLEAN
          /\ nrf' \in {"up", "wait", "dropped", "down"} /\ (nrf' = nrf \/ (nrf = "up" /\ nrf' = "wait"))
      <3>1. CASE Subscription
        BY <1>1, <3>1 DEF Subscription, hist, Types
      <3>2. CASE TerminateNrf
        BY <1>1, <3>2 DEF TerminateNrf, db, hist, Types
      <3> QED
        BY <1>2, <3>1, <3>2
    <2>2. Types'
      BY <1>1, <2>1 DEF Types
    <2>3. Waits'
      BY <1>1, <2>1, SameWaits
    <2>4. Answers'
      BY <1>1, <2>1, SameAnswers
    <2>5. Lists'
      BY <1>1, <2>1, SameLists
    <2>6. Counts'
      BY <1>1, <2>1 DEF Counts, Singly, Counting, Owing, At
    <2> QED
      BY <2>2, <2>3, <2>4, <2>5, <2>6 DEF IInv
  <1>3. CASE DropProfiles
    <2>1. /\ nrf = "wait" /\ nrf' = "dropped" /\ profiles' = {} /\ known' = {}
          /\ UNCHANGED <<nf, req, task, urilist, deaf, count, clash, excused, double, clean>>
      BY <1>3 DEF DropProfiles
    <2>2. Types'
      BY <1>1, <2>1 DEF Types
    <2>3. Waits'
      BY <1>1, <2>1, SameWaits
    <2>4. Answers'
      BY <1>1, <2>1, SameAnswers
    <2>5. Lists'
      BY <1>1, <2>1, SameLists
    <2>6. Counts'
      BY <1>1, <2>1, DropCounts
    <2> QED
      BY <2>2, <2>3, <2>4, <2>5, <2>6 DEF IInv
  <1>4. CASE ServerStop \/ Crash
    <2>1. /\ nrf' = "down" /\ Disconnect
          /\ UNCHANGED <<profiles, urilist, deaf, count, known, clash, excused, double, clean>>
      BY <1>4 DEF ServerStop, Crash, db, hist
    <2>2. /\ DOMAIN task' = Ids /\ \A i \in Ids : task'[i] = Idle
          /\ req' \in [NF -> 0 .. MaxTasks] /\ \A n \in NF : req'[n] = 0
      BY <2>1, RegistryAssumption, SMT DEF Disconnect
    <2>3. /\ nf' \in [NF -> {"down", "registering", "up", "leaving", "left"}]
          /\ \A n \in NF : nf'[n] = nf[n] \/ nf'[n] = "down"
      BY <1>1, <2>1, SMT DEF Disconnect, AfterError, Types
    <2>4. Types'
      BY <1>1, <2>1, <2>2, <2>3 DEF Types
    <2>5. Waits'
      BY <2>2 DEF Waits
    <2>6. Answers'
      BY <1>1, <2>1, <2>2, <2>3, IdleAnswers
    <2>7. Lists'
      BY <1>1, <2>1, <2>2, SameLists
    <2>8. Counts'
      BY <1>1, <2>1, <2>2, IdleCounts
    <2> QED
      BY <2>4, <2>5, <2>6, <2>7, <2>8 DEF IInv
  <1>5. CASE StartNrf
    <2>1. /\ nrf = "down" /\ nrf' = "up" /\ count' = 0 /\ clean' = (profiles = {}) /\ double' = FALSE
          /\ UNCHANGED <<nf, req, task, profiles, urilist, deaf, known, clash, excused>>
      BY <1>5 DEF StartNrf, db
    <2>2. \A i \in Ids : task'[i] = Idle
      BY <1>1, <2>1 DEF Waits
    <2>3. count' \in Int /\ clean' \in BOOLEAN
      BY <2>1, SMT
    <2>4. Types'
      BY <1>1, <2>1, <2>3 DEF Types
    <2>5. Waits'
      BY <1>1, <2>1, SameWaits
    <2>6. Answers'
      BY <1>1, <2>1, <2>2, IdleAnswers
    <2>7. Lists'
      BY <1>1, <2>1, SameLists
    <2>8. Counts'
      BY <1>1, <2>1, <2>2, IdleCounts
    <2> QED
      BY <2>4, <2>5, <2>6, <2>7, <2>8 DEF IInv
  <1> QED
    BY <1>2, <1>3, <1>4, <1>5 DEF NrfLife

-----------------------------------------------------------------------------
(* The theorems. *)

\* An empty database and no handlers.
LEMMA InitIInv == Init => IInv
  <1> SUFFICES ASSUME Init
               PROVE  IInv
    OBVIOUS
  <1>1. \A i \in Ids : task[i] = Idle
    BY DEF Init
  <1>2. \A i \in Ids : task[i].op \notin Op
    BY <1>1, IdleFacts
  <1>3. Types
    <2>1. req \in [NF -> 0 .. MaxTasks] /\ count \in Int
      BY RegistryAssumption, SMT DEF Init
    <2>2. DOMAIN task = Ids /\ nf \in [NF -> {"down", "registering", "up", "leaving", "left"}]
      BY SMT DEF Init
    <2> QED
      BY <1>1, <2>1, <2>2 DEF Init, Types
  <1>4. Waits
    BY DEF Init, Waits
  <1>5. Answers
    BY <1>2 DEF Init, Answers, Alone, At, Op
  <1>6. Lists
    BY <1>2 DEF Init, Lists, Listed, Writing, At, Op
  <1>7. Counts
    <2>1. Singly /\ Counting = {} /\ Owing = {}
      BY <1>2 DEF Singly, Counting, Owing, At, Op
    <2>2. count = 0 /\ profiles = {} /\ IsFiniteSet(profiles) /\ Cardinality({}) = 0
      BY FS_EmptySet DEF Init
    <2>3. count + Cardinality(Counting) >= Cardinality(profiles) + Cardinality(Owing)
      BY <2>1, <2>2, SMT
    <2> QED
      BY <2>1, <2>2, <2>3 DEF Counts
  <1> QED
    BY <1>3, <1>4, <1>5, <1>6, <1>7 DEF IInv

\* Every step of the handlers, the NFs and the NRF keeps the invariant.
LEMMA NextIInv == IInv /\ [Next]_vars => IInv'
  <1> SUFFICES ASSUME IInv, [Next]_vars
               PROVE  IInv'
    OBVIOUS
  <1>1. ASSUME NEW n \in NF, NFLife(n)
        PROVE  IInv'
    BY <1>1, ClientIInv
  <1>2. ASSUME NEW i \in Ids, Handler(i)
        PROVE  IInv'
    BY <1>2, ReadListIInv, WriteListIInv, PutProfileIInv, CountAndNotifyIInv, FindProfileIInv,
       DeleteProfileIInv, PullUriIInv DEF Handler
  <1>3. CASE NrfLife
    BY <1>3, LifeIInv
  <1>4. CASE UNCHANGED vars
    <2>1. UNCHANGED <<nf, req, task, profiles, urilist, deaf, count, nrf, known, clash, excused,
                      double, clean>>
      BY <1>4 DEF vars, db, hist
    <2>2. nf' \in [NF -> {"down", "registering", "up", "leaving", "left"}]
          /\ req' \in [NF -> 0 .. MaxTasks]
      BY <2>1 DEF IInv, Types
    <2> QED
      BY <2>1, <2>2, ClientKeeps
  <1> QED
    BY <1>1, <1>2, <1>3, <1>4 DEF Next

\* Every variable keeps its type, and an NF never waits for a handler that works for
\* another one: a handler's answer goes to the NF whose request it handles.
THEOREM TypeCorrect == Spec => []TypeOK
  <1>1. ASSUME Types, NEW i \in Ids, Busy(i)
        PROVE  task[i].nf \in NF /\ task[i].ul \subseteq NF
    <2>1. task[i] \in Task
      BY <1>1 DEF Types, Busy
    <2> QED
      BY <2>1, SMT DEF Task
  <1>2. IInv => TypeOK
    BY <1>1 DEF IInv, Types, Waits, TypeOK
  <1> QED
    BY <1>2, InitIInv, NextIInv, PTL DEF Spec

\* The counter NfRegistNum, with the registrations about to call AddNfRegister,
\* covers the stored profiles at every moment: no deregistration of another NF, no
\* repeated registration and no failed call takes it below them, as long as the NRF
\* began with an empty collection and no instance is deregistered twice at once.
THEOREM CounterCovers == Spec => []CountCovers
  <1>1. IInv => CountCovers
    <2> SUFFICES ASSUME IInv, nrf # "down", clean, ~double
                 PROVE  count + Cardinality(Counting) >= Cardinality(profiles)
      BY DEF CountCovers, Counting
    <2>1. count + Cardinality(Counting) >= Cardinality(profiles) + Cardinality(Owing)
      BY DEF IInv, Counts
    <2>2. Cardinality(profiles) \in Nat /\ count \in Int
      BY FS_CardinalityType DEF IInv, Counts, Types
    <2> QED
      BY <2>1, <2>2, Sizes, SMT
  <1> QED
    BY <1>1, InitIInv, NextIInv, PTL DEF Spec

\* An NF that SendRegisterNFInstance told it is registered has a stored profile,
\* through crashes and restarts of the NRF, until it deregisters or the NRF drops
\* the collection, unless two handlers of the instance were at work together.
THEOREM AnsweredAreStored == Spec => []AnsweredStored
  <1>1. IInv => AnsweredStored
    BY DEF IInv, Types, Answers, Alone, AnsweredStored
  <1> QED
    BY <1>1, InitIInv, NextIInv, PTL DEF Spec

\* SetLocationHeader's read and write of the whole list lose no URI of a registered
\* NF but those that were read and written back together with another one, or while
\* the database failed.
THEOREM UrisAreListed == Spec => []UriListed
  <1>1. IInv => UriListed
    BY DEF IInv, Types, Lists, Listed, UriListed
  <1> QED
    BY <1>1, InitIInv, NextIInv, PTL DEF Spec
=============================================================================

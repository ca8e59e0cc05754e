-------------------------- MODULE EpollServerProofs --------------------------
(***************************************************************************)
(* The safety of EpollServer for any number of workers, slots and clients, *)
(* any batch of events, and any pool and buffer sizes.                     *)
(*                                                                         *)
(* IInv is inductive.  Most steps of main, of the clients and of a worker  *)
(* leave the tables alone (lemma Quiet); the six that do not, from the     *)
(* initialisation over accept4, the allocation of the buffers and          *)
(* EPOLL_CTL_ADD to the decision to close and conn_free, have a lemma each.*)
(***************************************************************************)
EXTENDS EpollServer, FiniteSetTheorems, SequenceTheorems, TLAPS

IInv ==
    /\ TypeOK /\ MainInTurn /\ NothingYet
    /\ WorkersSound /\ SocketsOwned /\ ActiveExact /\ BuffersAccounted

LEMMA WorkersFinite ==
    /\ Workers \in Nat \ {0} /\ PerWorker \in Nat \ {0}
    /\ IsFiniteSet(Worker) /\ IsFiniteSet(Slot) /\ IsFiniteSet(Buffer)
    /\ IsFiniteSet(Worker \X Slot) /\ Cardinality(Worker \X Slot) = Workers * PerWorker
    /\ IsFiniteSet(Worker \X Slot \X Buffer)
<1>1. Workers \in Nat \ {0} /\ PerWorker \in Nat \ {0}
  BY CountsAssumption
<1>2. IsFiniteSet(Worker) /\ Cardinality(Worker) = Workers
  BY <1>1, FS_Interval DEF Worker
<1>3. IsFiniteSet(Slot) /\ Cardinality(Slot) = PerWorker
  BY <1>1, FS_Interval DEF Slot
<1>4. IsFiniteSet(Buffer)
  <2>1. /\ IsFiniteSet({}) /\ IsFiniteSet({} \cup {"recv"})
        /\ IsFiniteSet(({} \cup {"recv"}) \cup {"send"})
        /\ IsFiniteSet((({} \cup {"recv"}) \cup {"send"}) \cup {"payload"})
    BY FS_EmptySet, FS_AddElement
  <2>2. Buffer = ((({} \cup {"recv"}) \cup {"send"}) \cup {"payload"})
    BY DEF Buffer
  <2> QED
    BY <2>1, <2>2
<1>5. IsFiniteSet(Worker \X Slot) /\ Cardinality(Worker \X Slot) = Workers * PerWorker
  BY <1>2, <1>3, FS_Product
<1>6. IsFiniteSet(Worker \X Slot \X Buffer)
  <2>1. IsFiniteSet(Slot \X Buffer) /\ IsFiniteSet(Worker \X (Slot \X Buffer))
    BY <1>2, <1>3, <1>4, FS_Product
  <2> DEFINE f == [x \in Worker \X (Slot \X Buffer) |-> <<x[1], x[2][1], x[2][2]>>]
  <2>2. f \in Surjection(Worker \X (Slot \X Buffer), Worker \X Slot \X Buffer)
    <3>1. f \in [Worker \X (Slot \X Buffer) -> Worker \X Slot \X Buffer]
      OBVIOUS
    <3>2. ASSUME NEW w \in Worker, NEW s \in Slot, NEW b \in Buffer
          PROVE  \E x \in Worker \X (Slot \X Buffer) : f[x] = <<w, s, b>>
      <4>1. <<w, <<s, b>>>> \in Worker \X (Slot \X Buffer)
        OBVIOUS
      <4> QED
        BY <4>1
    <3>3. ASSUME NEW t \in Worker \X Slot \X Buffer
          PROVE  \E x \in Worker \X (Slot \X Buffer) : f[x] = t
      <4>1. PICK w \in Worker, s \in Slot, b \in Buffer : t = <<w, s, b>>
        OBVIOUS
      <4> HIDE DEF f
      <4> QED
        BY <3>2, <4>1
    <3> HIDE DEF f
    <3> QED
      BY <3>1, <3>3 DEF Surjection
  <2> QED
    BY <2>1, <2>2, FS_Surjection
<1> QED
  BY <1>1, <1>2, <1>3, <1>4, <1>5, <1>6

\* Both sets that are counted are finite.
LEMMA CountedFinite ==
    /\ IsFiniteSet(Active) /\ Cardinality(Active) \in 0..(Workers * PerWorker)
    /\ IsFiniteSet(Held) /\ Cardinality(Held) \in Nat
<1>1. Active \in SUBSET (Worker \X Slot) /\ Held \in SUBSET (Worker \X Slot \X Buffer)
  BY DEF Active, Held
<1>2. IsFiniteSet(Active) /\ Cardinality(Active) <= Workers * PerWorker
  BY <1>1, WorkersFinite, FS_Subset
<1>3. IsFiniteSet(Held)
  BY <1>1, WorkersFinite, FS_Subset
<1>4. Cardinality(Active) \in Nat /\ Cardinality(Held) \in Nat
  BY <1>2, <1>3, FS_CardinalityType
<1>5. Workers * PerWorker \in Nat
  BY WorkersFinite
<1> QED
  BY <1>2, <1>3, <1>4, <1>5

LEMMA InitIInv == Init => IInv
<1> SUFFICES ASSUME Init
             PROVE  IInv
  OBVIOUS
<1> USE CountsAssumption, PoolAssumption, NilAssumption DEF Init
<1>1. Active = {} /\ Held = {}
  BY DEF Active, Held
<1>2. Cardinality(Active) = 0 /\ Cardinality(Held) = 0
  BY <1>1, FS_EmptySet
<1>3. TypeOK
  <2>1. 1 \in Slot /\ 0 \in 0..PerWorker /\ 0 \in 0..(Workers * PerWorker)
    BY WorkersFinite DEF Slot
  <2>2. <<>> \in Seq(Slot)
    BY EmptySeq
  <2>3. /\ running \in [Worker -> BOOLEAN]
        /\ edge \in [Client -> BOOLEAN] /\ gone \in [Client -> BOOLEAN]
        /\ unread \in [Client -> BOOLEAN]
        /\ g_running \in BOOLEAN /\ listening \in BOOLEAN /\ pool \in BOOLEAN
    BY Zenon
  <2> QED
    BY <2>1, <2>2, <2>3 DEF TypeOK
<1>4. MainInTurn /\ NothingYet
  BY DEF MainInTurn, NothingYet
<1>5. \A w \in Worker : AtHand(w)
  BY DEF AtHand, SettingUp
<1>6. WorkersSound
  BY <1>5 DEF WorkersSound
<1>7. SocketsOwned
  BY DEF SocketsOwned, Owners
<1>8. ActiveExact /\ BuffersAccounted
  BY <1>2 DEF ActiveExact, BuffersAccounted
<1> QED
  BY <1>3, <1>4, <1>6, <1>7, <1>8 DEF IInv

\* The places at which a worker has no slot at hand.
Loose(where) == where \notin DOMAIN SettingUp \cup {"free"}

\* A step that changes no table, and moves a worker only between such places, keeps all
\* if a worker that reads has a connection it has taken the event of.
ReadsOpen(w) == pc[w] = "read" => fd[w][slot[w]] # Nil /\ slot[w] \notin batch[w]

LEMMA Quiet ==
    ASSUME IInv, TypeOK', MainInTurn', NothingYet',
           UNCHANGED <<free_list, fd, have, conn_count, active_connections, hand,
                       total_alloc, total_free>>,
           listening' => listening,
           \A c \in Client : socket'[c] = "open" <=> socket[c] = "open",
           \A w \in Worker : pc'[w] = pc[w] \/ (Loose(pc[w]) /\ Loose(pc'[w])),
           \A w \in Worker : slot'[w] = slot[w] \/ Loose(pc[w]),
           \A w \in Worker : \/ batch'[w] \subseteq batch[w]
                             \/ /\ Loose(pc'[w])
                                /\ \A s \in batch'[w] \ {Listen} : fd[w][s] # Nil,
           \A w \in Worker : ReadsOpen(w)'
    PROVE  IInv'
<1>0. \A w \in Worker : AtHand(w) /\ (listening => SlotsConserved(w))
  BY DEF IInv, WorkersSound
<1>1. ASSUME NEW w \in Worker
      PROVE  AtHand(w)'
  <2>1. /\ hand[w] # Nil <=> pc[w] \in DOMAIN SettingUp
        /\ hand[w] # Nil =>
              /\ slot[w] \notin Range(free_list[w]) /\ fd[w][slot[w]] = Nil
              /\ have[w][slot[w]] \subseteq SettingUp[pc[w]]
        /\ pc[w] = "free" => fd[w][slot[w]] # Nil /\ slot[w] \notin batch[w]
        /\ \A s \in batch[w] \ {Listen} : fd[w][s] # Nil
    BY <1>0 DEF AtHand
  <2>2. /\ hand[w] # Nil <=> pc'[w] \in DOMAIN SettingUp
        /\ hand[w] # Nil =>
              /\ slot'[w] \notin Range(free_list[w]) /\ fd[w][slot'[w]] = Nil
              /\ have[w][slot'[w]] \subseteq SettingUp[pc'[w]]
        /\ pc'[w] = "free" => fd[w][slot'[w]] # Nil /\ slot'[w] \notin batch'[w]
        /\ \A s \in batch'[w] \ {Listen} : fd[w][s] # Nil
    BY <2>1 DEF Loose
  <2>3. pc'[w] = "read" => fd[w][slot'[w]] # Nil /\ slot'[w] \notin batch'[w]
    BY DEF ReadsOpen
  <2> QED
    BY <2>2, <2>3 DEF AtHand, SettingUp
<1>2. ASSUME NEW w \in Worker, listening'
      PROVE  SlotsConserved(w)'
  <2>1. hand[w] # Nil => slot'[w] = slot[w]
    BY <1>0 DEF AtHand, Loose
  <2> QED
    BY <1>0, <1>2, <2>1 DEF SlotsConserved
<1>3. \A w \in Worker : hand[w] \in Client => slot'[w] = slot[w]
  BY <1>0, NilAssumption DEF AtHand, Loose
<1>4. SocketsOwned'
  <2>1. ASSUME NEW c \in Client
        PROVE  Owners(c)' = Owners(c)
    BY <1>3 DEF Owners
  <2> QED
    BY <2>1 DEF IInv, SocketsOwned
<1>5. Active' = Active
  <2>1. ASSUME NEW w \in Worker, NEW s \in Slot
        PROVE  (pc'[w] = "free" /\ slot'[w] = s) <=> (pc[w] = "free" /\ slot[w] = s)
    BY DEF Loose
  <2> QED
    BY <2>1 DEF Active
<1>6. Held' = Held
  BY DEF Held
<1>7. ActiveExact' /\ BuffersAccounted'
  BY <1>5, <1>6 DEF IInv, ActiveExact, BuffersAccounted
<1> QED
  BY <1>1, <1>2, <1>4, <1>7 DEF IInv, WorkersSound

\* A step of a worker leaves main where it is, and there is one only while main is
\* between the start and the end of the workers.
LEMMA WorkerInTurn ==
    ASSUME IInv, NEW w \in Worker, NEW where, where # "none",
           pc[w] \notin {"none", "exited"}, pc' = [pc EXCEPT ![w] = where],
           UNCHANGED process
    PROVE  MainInTurn' /\ listening /\ main # "init"
<1> USE DEF process
<1>1. pc \in [Worker -> {"none", "top", "wait", "events", "read", "accept", "recv", "send",
                         "payload", "add", "free", "exited"}]
  BY DEF IInv, TypeOK
<1>2. /\ listening <=> main \in {"start", "loop", "stop", "join", "close"}
      /\ main = "start" => turn \in Worker /\ \A v \in turn..Workers : pc[v] = "none"
      /\ ~listening => \A v \in Worker : pc[v] \in {"none", "exited"}
      /\ \A v \in freed : pc[v] = "exited"
  BY DEF IInv, MainInTurn
<1>3. listening /\ main # "init"
  BY <1>2
<1>4. main = "start" => \A v \in turn..Workers : pc'[v] = "none"
  BY <1>1, <1>2
<1>5. \A v \in freed : pc'[v] = "exited"
  BY <1>1, <1>2 DEF IInv, TypeOK
<1> QED
  BY <1>2, <1>3, <1>4, <1>5 DEF IInv, MainInTurn

\* The same of a step that moves no worker.
LEMMA Still ==
    ASSUME IInv, TypeOK', MainInTurn', NothingYet', listening' => listening,
           UNCHANGED <<thread, table, active_connections, total_alloc, total_free>>,
           \A c \in Client : socket'[c] = "open" <=> socket[c] = "open"
    PROVE  IInv'
<1>1. /\ UNCHANGED <<free_list, fd, have, conn_count, active_connections, hand,
                     total_alloc, total_free>>
      /\ UNCHANGED <<pc, slot, batch>>
  BY DEF thread, table
<1>2. \A w \in Worker : ReadsOpen(w)'
  BY <1>1 DEF IInv, WorkersSound, AtHand, ReadsOpen
<1> QED
  BY <1>1, <1>2, Quiet

-----------------------------------------------------------------------------
(* Steps of main and of the clients. *)

LEMMA SignalStep ==
    ASSUME IInv, Signal
    PROVE  IInv'
<1>1. TypeOK'
  BY DEF IInv, TypeOK, Signal, memory, thread, table, clients, traffic
<1>2. MainInTurn' /\ NothingYet'
  BY DEF IInv, MainInTurn, NothingYet, Signal, memory, thread, table
<1> QED
  BY <1>1, <1>2, Still DEF Signal, memory, clients, traffic

LEMMA ServerInitFailsStep ==
    ASSUME IInv, ServerInitFails
    PROVE  IInv'
<1>1. TypeOK'
  BY PoolAssumption DEF IInv, TypeOK, ServerInitFails, InitDefault, thread, table, clients, traffic
<1>2. MainInTurn'
  BY DEF IInv, MainInTurn, ServerInitFails, thread
<1>3. NothingYet'
  BY DEF IInv, NothingYet, ServerInitFails, InitDefault
<1>4. listening' = listening
  BY DEF ServerInitFails
<1> QED
  BY <1>1, <1>2, <1>3, <1>4, Still DEF ServerInitFails, clients, traffic

LEMMA ServerStartStep ==
    ASSUME IInv, ServerStart
    PROVE  IInv'
<1>0. /\ main = "start" /\ pc' = [pc EXCEPT ![turn] = "top"]
      /\ turn' = (IF turn = Workers THEN 1 ELSE turn + 1)
      /\ main' = (IF turn = Workers THEN "loop" ELSE "start")
      /\ UNCHANGED <<g_running, running, listening, pool, freed, left, total_alloc, total_free,
                     hand, slot, batch, free_list, fd, have, conn_count,
                     active_connections, socket, edge, unread, gone>>
  BY DEF ServerStart, memory, table, clients, traffic
<1>1. turn \in Worker /\ pc[turn] = "none" /\ turn \in Nat /\ Workers \in Nat
  BY <1>0, WorkersFinite DEF IInv, MainInTurn, Worker
<1>2. TypeOK'
  <2>1. turn' \in 1..(Workers + 1) /\ main' \in {"loop", "start"}
    <3>1. 1 \in 1..(Workers + 1) /\ turn + 1 \in 1..(Workers + 1)
      BY <1>1 DEF Worker
    <3> QED
      BY <1>0, <3>1
  <2>2. pc' \in [Worker -> {"none", "top", "wait", "events", "read", "accept", "recv", "send",
                            "payload", "add", "free", "exited"}]
    BY <1>0 DEF IInv, TypeOK
  <2> QED
    BY <1>0, <2>1, <2>2 DEF IInv, TypeOK
<1>3. MainInTurn'
  <2>1. turn # Workers => turn' = turn + 1 /\ turn + 1 \in Worker
    BY <1>0, <1>1 DEF Worker
  <2>2. turn # Workers => \A v \in (turn + 1)..Workers : pc'[v] = "none"
    BY <1>0, <1>1 DEF IInv, TypeOK, MainInTurn, Worker
  <2>3. listening /\ freed = {}
    BY <1>0 DEF IInv, MainInTurn
  <2> QED
    BY <1>0, <2>1, <2>2, <2>3 DEF IInv, MainInTurn
<1>4. NothingYet'
  BY <1>0 DEF IInv, NothingYet
<1>5. \A w \in Worker : pc'[w] = pc[w] \/ (pc[w] = "none" /\ pc'[w] = "top")
  BY <1>0, <1>1 DEF IInv, TypeOK
<1>6. \A w \in Worker : pc'[w] = pc[w] \/ (Loose(pc[w]) /\ Loose(pc'[w]))
  BY <1>5 DEF Loose, SettingUp
<1>7. \A w \in Worker : ReadsOpen(w)'
  BY <1>0, <1>5 DEF IInv, WorkersSound, AtHand, ReadsOpen
<1> QED
  BY <1>0, <1>2, <1>3, <1>4, <1>6, <1>7, Quiet

LEMMA ServerStopStep ==
    ASSUME IInv, ServerStop
    PROVE  IInv'
<1> USE DEF ServerStop, memory, thread, table, clients, traffic
<1>1. TypeOK'
  <2>1. running' \in [Worker -> BOOLEAN]
    BY DEF IInv, TypeOK
  <2> QED
    BY <2>1 DEF IInv, TypeOK
<1>2. MainInTurn'
  <2>1. 1 \in Worker /\ 1..(1 - 1) = {}
    BY WorkersFinite DEF Worker
  <2>2. turn \in Worker /\ freed = 1..(turn - 1)
    BY <2>1 DEF IInv, MainInTurn
  <2> QED
    BY <2>2 DEF IInv, MainInTurn
<1>3. NothingYet'
  BY DEF IInv, NothingYet
<1> HIDE DEF thread, table
<1> QED
  BY <1>1, <1>2, <1>3, Still

LEMMA ServerJoinStep ==
    ASSUME IInv, ServerJoin
    PROVE  IInv'
<1> USE DEF ServerJoin, memory, thread, table, clients, traffic
<1>1. /\ turn \in Worker /\ turn \in Nat \ {0} /\ Workers \in Nat \ {0} /\ turn <= Workers
      /\ freed = 1..(turn - 1)
  BY WorkersFinite DEF IInv, MainInTurn, Worker
<1>2. freed' = 1..turn
  BY <1>1
<1>3. TypeOK'
  BY <1>1 DEF IInv, TypeOK, Worker
<1>4. MainInTurn'
  <2>1. PICK n \in Nat : n = turn + 1
    BY <1>1
  <2>2. turn # Workers => n \in Worker /\ freed' = 1..(n - 1)
    BY <1>1, <1>2, <2>1 DEF Worker
  <2>3. turn = Workers => freed' = Worker
    BY <1>2 DEF Worker
  <2>4. \A w \in freed' : pc[w] = "exited"
    BY DEF IInv, MainInTurn, Joined
  <2>5. turn' = n /\ listening /\ main = "join"
    BY <2>1 DEF IInv, MainInTurn
  <2> QED
    BY <2>2, <2>3, <2>4, <2>5 DEF IInv, MainInTurn
<1>5. NothingYet'
  <2>1. freed # Worker
    BY <1>1 DEF Worker
  <2> QED
    BY <2>1 DEF IInv, NothingYet
<1> HIDE DEF thread, table
<1> QED
  BY <1>3, <1>4, <1>5, Still

LEMMA ServerCloseStep ==
    ASSUME IInv, ServerClose
    PROVE  IInv'
<1> USE DEF ServerClose, DeinitDefault, thread, table, clients, traffic
<1>1. TypeOK'
  <2>1. 0 \in 0..Room /\ left' = 0
    BY PoolAssumption
  <2>2. pool' \in BOOLEAN /\ listening' \in BOOLEAN
    BY Zenon
  <2> QED
    BY <2>1, <2>2 DEF IInv, TypeOK
<1>2. freed = Worker /\ \A w \in Worker : pc[w] = "exited"
  BY DEF IInv, MainInTurn
<1>3. MainInTurn' /\ NothingYet'
  BY <1>2 DEF MainInTurn, NothingYet
<1> HIDE DEF thread, table
<1> QED
  BY <1>1, <1>3, Still

LEMMA ConnectStep ==
    ASSUME IInv, NEW c \in Client, Connect(c)
    PROVE  IInv'
<1> USE DEF Connect, process, memory, thread, table, traffic
<1>1. TypeOK'
  BY DEF IInv, TypeOK
<1>2. MainInTurn' /\ NothingYet'
  BY DEF IInv, MainInTurn, NothingYet
<1>3. \A d \in Client : socket'[d] = "open" <=> socket[d] = "open"
  BY DEF IInv, TypeOK
<1> HIDE DEF thread, table
<1> QED
  BY <1>1, <1>2, <1>3, Still

LEMMA ArriveStep ==
    ASSUME IInv, NEW c \in Client, NEW leaves \in BOOLEAN, Arrive(c, leaves)
    PROVE  IInv'
<1> USE DEF Arrive, process, memory, thread, table
<1>1. TypeOK'
  <2>1. /\ gone' \in [Client -> BOOLEAN] /\ edge' \in [Client -> BOOLEAN]
        /\ unread' \in [Client -> BOOLEAN]
    BY DEF IInv, TypeOK
  <2> QED
    BY <2>1 DEF IInv, TypeOK
<1>2. MainInTurn' /\ NothingYet'
  BY DEF IInv, MainInTurn, NothingYet
<1> HIDE DEF thread, table
<1> QED
  BY <1>1, <1>2, Still

-----------------------------------------------------------------------------
(* Steps of a worker that leave its table alone.  Those of the event loop only move   *)
(* pc[w] among places at which no slot is set up or given back.                       *)

Between == {"top", "wait", "events", "read", "accept", "exited"}

LEMMA LoopStep ==
    ASSUME IInv, NEW w \in Worker, NEW where \in Between,
           pc[w] \in Between \ {"exited"}, pc' = [pc EXCEPT ![w] = where],
           UNCHANGED <<process, memory, hand, table, active_connections>>,
           slot' \in [Worker -> Slot], \A v \in Worker \ {w} : slot'[v] = slot[v],
           batch' \in [Worker -> SUBSET (Slot \cup {Listen})],
           \A v \in Worker \ {w} : batch'[v] = batch[v],
           \A s \in batch'[w] \ {Listen} : fd[w][s] # Nil,
           where = "read" => fd[w][slot'[w]] # Nil /\ slot'[w] \notin batch'[w],
           socket' \in [Client -> {"closed", "backlog", "open"}],
           \A c \in Client : socket'[c] = "open" <=> socket[c] = "open",
           edge' \in [Client -> BOOLEAN], unread' \in [Client -> BOOLEAN],
           gone' \in [Client -> BOOLEAN]
    PROVE  IInv'
<1> USE DEF process, memory, table
<1>1. MainInTurn' /\ listening /\ main # "init"
  BY WorkerInTurn DEF Between
<1>2. TypeOK'
  <2>1. pc' \in [Worker -> {"none", "top", "wait", "events", "read", "accept", "recv", "send",
                            "payload", "add", "free", "exited"}]
    BY DEF IInv, TypeOK, Between
  <2> QED
    BY <2>1 DEF IInv, TypeOK
<1>3. NothingYet'
  BY <1>1 DEF IInv, NothingYet
<1>4. \A v \in Worker : pc'[v] = IF v = w THEN where ELSE pc[v]
  BY DEF IInv, TypeOK
<1>5. Loose(pc[w]) /\ Loose(where)
  BY DEF Between, Loose, SettingUp
<1>6. \A v \in Worker : pc'[v] = pc[v] \/ (Loose(pc[v]) /\ Loose(pc'[v]))
  BY <1>4, <1>5
<1>7. \A v \in Worker : slot'[v] = slot[v] \/ Loose(pc[v])
  BY <1>5
<1>8. \A v \in Worker : \/ batch'[v] \subseteq batch[v]
                        \/ /\ Loose(pc'[v])
                           /\ \A s \in batch'[v] \ {Listen} : fd[v][s] # Nil
  <2> TAKE v \in Worker
  <2>1. CASE v = w
    BY <1>4, <1>5, <2>1
  <2>2. CASE v # w
    BY <2>2
  <2> QED
    BY <2>1, <2>2
<1>9. ASSUME NEW v \in Worker
      PROVE  ReadsOpen(v)'
  <2>1. CASE v = w
    BY <1>4, <2>1 DEF ReadsOpen
  <2>2. CASE v # w
    <3>1. AtHand(v) /\ pc'[v] = pc[v] /\ slot'[v] = slot[v] /\ batch'[v] = batch[v]
      BY <1>4, <2>2 DEF IInv, WorkersSound
    <3> QED
      BY <3>1 DEF AtHand, ReadsOpen
  <2> QED
    BY <2>1, <2>2
<1> QED
  BY <1>1, <1>2, <1>3, <1>6, <1>7, <1>8, <1>9, Quiet

LEMMA WaitingSteps ==
    ASSUME IInv, NEW w \in Worker, Top(w) \/ EventsDone(w) \/ AcceptNone(w) \/ ReadDone(w)
    PROVE  IInv'
<1> USE DEF Go, thread, clients, traffic
<1>1. UNCHANGED <<process, memory, hand, slot, batch, table, active_connections, clients>>
  BY DEF Top, EventsDone, AcceptNone, ReadDone
<1>2. \A s \in batch[w] \ {Listen} : fd[w][s] # Nil
  BY DEF IInv, WorkersSound, AtHand
<1>3. PICK where \in Between \ {"read"} : pc' = [pc EXCEPT ![w] = where]
  BY DEF Top, EventsDone, AcceptNone, ReadDone, Between
<1>4. pc[w] \in Between \ {"exited"}
  BY DEF Top, EventsDone, AcceptNone, ReadDone, Between
<1>5. /\ slot \in [Worker -> Slot] /\ batch \in [Worker -> SUBSET (Slot \cup {Listen})]
      /\ socket \in [Client -> {"closed", "backlog", "open"}]
      /\ edge \in [Client -> BOOLEAN] /\ unread \in [Client -> BOOLEAN]
      /\ gone \in [Client -> BOOLEAN]
  BY DEF IInv, TypeOK
<1> QED
  BY <1>1, <1>2, <1>3, <1>4, <1>5, LoopStep

LEMMA EpollWaitStep ==
    ASSUME IInv, NEW w \in Worker, EpollWait(w)
    PROVE  IInv'
<1> USE DEF EpollWait, Go
<1>1. /\ pc[w] \in Between \ {"exited"} /\ "events" \in Between /\ "events" # "read"
      /\ pc' = [pc EXCEPT ![w] = "events"]
      /\ UNCHANGED <<process, memory, hand, slot, table, active_connections, socket, unread,
                     gone>>
  BY DEF Between
<1>2. PICK reported \in SUBSET Ready(w) :
          /\ batch' = [batch EXCEPT ![w] = reported]
          /\ edge' = [c \in Client |-> edge[c] /\ \A s \in reported \ {Listen} : fd[w][s] # c]
  OBVIOUS
<1>3. Ready(w) \subseteq Slot \cup {Listen} /\ \A s \in Ready(w) \ {Listen} : fd[w][s] # Nil
  BY DEF Ready
<1>4. edge' \in [Client -> BOOLEAN]
  BY <1>2
<1>5. /\ batch' \in [Worker -> SUBSET (Slot \cup {Listen})]
      /\ \A v \in Worker \ {w} : batch'[v] = batch[v]
      /\ \A s \in batch'[w] \ {Listen} : fd[w][s] # Nil
  BY <1>2, <1>3 DEF IInv, TypeOK
<1>6. /\ slot \in [Worker -> Slot]
      /\ socket \in [Client -> {"closed", "backlog", "open"}]
      /\ unread \in [Client -> BOOLEAN] /\ gone \in [Client -> BOOLEAN]
  BY DEF IInv, TypeOK
<1> QED
  BY <1>1, <1>4, <1>5, <1>6, LoopStep

\* accept4 with no slot left: the client is turned away.
LEMMA TurnAwayStep ==
    ASSUME IInv, NEW w \in Worker, NEW c \in Client, Accept(w, c), free_list[w] = <<>>
    PROVE  IInv'
<1>1. /\ pc[w] = "accept" /\ socket[c] = "backlog"
      /\ socket' = [socket EXCEPT ![c] = "closed"]
      /\ UNCHANGED <<pc, hand, slot, free_list, conn_count>>
      /\ UNCHANGED <<process, memory, batch, fd, have, active_connections>>
      /\ edge' = [edge EXCEPT ![c] = FALSE] /\ unread' = [unread EXCEPT ![c] = FALSE]
      /\ gone' = [gone EXCEPT ![c] = FALSE]
  BY DEF Accept, TurnAway, Close
<1>2. pc' = [pc EXCEPT ![w] = "accept"]
  BY <1>1 DEF IInv, TypeOK
<1>3. \A s \in batch[w] \ {Listen} : fd[w][s] # Nil
  BY DEF IInv, WorkersSound, AtHand
<1>4. /\ slot \in [Worker -> Slot] /\ batch \in [Worker -> SUBSET (Slot \cup {Listen})]
      /\ socket' \in [Client -> {"closed", "backlog", "open"}]
      /\ \A d \in Client : socket'[d] = "open" <=> socket[d] = "open"
      /\ edge' \in [Client -> BOOLEAN] /\ unread' \in [Client -> BOOLEAN]
      /\ gone' \in [Client -> BOOLEAN]
  BY <1>1 DEF IInv, TypeOK
<1>5. pc[w] \in Between \ {"exited"} /\ "accept" \in Between \ {"read"}
  BY <1>1 DEF Between
<1> QED
  BY <1>1, <1>2, <1>3, <1>4, <1>5, LoopStep DEF table

\* The worker turns to one of its events.
LEMMA EventStep ==
    ASSUME IInv, NEW w \in Worker, Event(w)
    PROVE  IInv'
<1>1. PICK e \in batch[w] :
          /\ batch' = [batch EXCEPT ![w] = Rest(w, e)]
          /\ slot' = [slot EXCEPT ![w] = IF e = Listen THEN @ ELSE e]
          /\ pc' = [pc EXCEPT ![w] = IF e = Listen THEN "accept" ELSE "read"]
  BY Zenon DEF Event, Go
<1>2. pc[w] = "events" /\ UNCHANGED <<process, memory, hand, table, active_connections, clients>>
  BY DEF Event
<1>3. PICK where \in Between :
          where = (IF e = Listen THEN "accept" ELSE "read") /\ pc' = [pc EXCEPT ![w] = where]
  BY <1>1 DEF Between
<1>4. \A s \in batch[w] \ {Listen} : fd[w][s] # Nil
  BY DEF IInv, WorkersSound, AtHand
<1>5. /\ slot \in [Worker -> Slot] /\ batch \in [Worker -> SUBSET (Slot \cup {Listen})]
      /\ socket \in [Client -> {"closed", "backlog", "open"}]
      /\ edge \in [Client -> BOOLEAN] /\ unread \in [Client -> BOOLEAN]
      /\ gone \in [Client -> BOOLEAN]
  BY DEF IInv, TypeOK
<1>6. e = Listen \/ e \in Slot
  BY <1>5
<1>7. /\ slot' \in [Worker -> Slot] /\ \A v \in Worker \ {w} : slot'[v] = slot[v]
      /\ e # Listen => slot'[w] = e
  BY <1>1, <1>5, <1>6
<1>8. /\ batch' \in [Worker -> SUBSET (Slot \cup {Listen})]
      /\ \A v \in Worker \ {w} : batch'[v] = batch[v]
      /\ \A s \in batch'[w] \ {Listen} : fd[w][s] # Nil
      /\ e \notin batch'[w]
  BY <1>1, <1>4, <1>5 DEF Rest
<1>9. where = "read" => fd[w][slot'[w]] # Nil /\ slot'[w] \notin batch'[w]
  BY <1>3, <1>4, <1>7, <1>8
<1>10. pc[w] \in Between \ {"exited"}
  BY <1>2 DEF Between
<1> QED
  BY <1>2, <1>3, <1>5, <1>7, <1>8, <1>9, <1>10, LoopStep DEF clients, traffic

LEMMA RecvStep ==
    ASSUME IInv, NEW w \in Worker, Recv(w)
    PROVE  IInv'
<1> USE DEF Recv, process, memory, thread, table
<1>1. TypeOK'
  <2>1. unread' \in [Client -> BOOLEAN]
    BY DEF IInv, TypeOK
  <2> QED
    BY <2>1 DEF IInv, TypeOK
<1>2. MainInTurn' /\ NothingYet'
  BY DEF IInv, MainInTurn, NothingYet
<1> HIDE DEF thread, table
<1> QED
  BY <1>1, <1>2, Still

-----------------------------------------------------------------------------
(* The free list as a stack. *)

LEMMA PushFront ==
    ASSUME NEW S, NEW q \in Seq(S), IsInjective(q), NEW s \in S, s \notin Range(q)
    PROVE  /\ <<s>> \o q \in Seq(S) /\ Len(<<s>> \o q) = Len(q) + 1
           /\ IsInjective(<<s>> \o q) /\ Range(<<s>> \o q) = Range(q) \cup {s}
<1> DEFINE r == <<s>> \o q
<1>1. Len(q) \in Nat /\ DOMAIN q = 1..Len(q)
  BY LenProperties
<1>2. <<s>> \in Seq(S) /\ Len(<<s>>) = 1 /\ <<s>>[1] = s
  OBVIOUS
<1>3. /\ r \in Seq(S) /\ Len(r) = Len(q) + 1
      /\ \A i \in 1..(Len(q) + 1) : r[i] = IF i <= 1 THEN s ELSE q[i - 1]
  <2>1. /\ r \in Seq(S) /\ Len(r) = Len(<<s>>) + Len(q)
        /\ \A i \in 1..(Len(<<s>>) + Len(q)) :
              r[i] = IF i <= Len(<<s>>) THEN <<s>>[i] ELSE q[i - Len(<<s>>)]
    BY <1>2, ConcatProperties
  <2>2. Len(<<s>>) + Len(q) = Len(q) + 1
    BY <1>1, <1>2
  <2>3. ASSUME NEW i \in 1..(Len(q) + 1)
        PROVE  r[i] = IF i <= 1 THEN s ELSE q[i - 1]
    <3>1. i <= 1 => i = 1
      BY <1>1
    <3> QED
      BY <1>2, <2>1, <2>2, <3>1
  <2> QED
    BY <2>1, <2>2, <2>3
<1>4. DOMAIN r = 1..(Len(q) + 1)
  BY <1>3, LenProperties
<1> HIDE DEF r
<1>5. r[1] = s /\ \A i \in 1..Len(q) : i + 1 \in DOMAIN r /\ r[i + 1] = q[i]
  <2>1. 1 \in 1..(Len(q) + 1)
    BY <1>1
  <2>2. ASSUME NEW i \in 1..Len(q)
        PROVE  i + 1 \in 1..(Len(q) + 1) /\ ~(i + 1 <= 1) /\ i + 1 - 1 = i
    BY <1>1
  <2> QED
    BY <1>3, <1>4, <2>1, <2>2
<1>6. \A i \in DOMAIN r : i = 1 \/ \E k \in 1..Len(q) : i = k + 1
  <2> TAKE i \in DOMAIN r
  <2>1. CASE i # 1
    <3>1. i - 1 \in 1..Len(q) /\ i = (i - 1) + 1
      BY <1>1, <1>4, <2>1
    <3> QED
      BY <3>1
  <2> QED
    BY <2>1
<1>7. Range(r) = Range(q) \cup {s}
  <2>1. Range(r) \subseteq Range(q) \cup {s}
    BY <1>1, <1>5, <1>6 DEF Range
  <2>2. s \in Range(r)
    BY <1>1, <1>4, <1>5 DEF Range
  <2>3. Range(q) \subseteq Range(r)
    BY <1>1, <1>5 DEF Range
  <2> QED
    BY <2>1, <2>2, <2>3
<1>8. IsInjective(r)
  <2> SUFFICES ASSUME NEW a \in DOMAIN r, NEW b \in DOMAIN r, r[a] = r[b]
               PROVE  a = b
    BY DEF IsInjective
  <2>1. \A k \in 1..Len(q) : q[k] # s
    BY <1>1 DEF Range
  <2>2. CASE a = 1 \/ b = 1
    BY <1>5, <1>6, <2>1, <2>2
  <2>3. CASE a # 1 /\ b # 1
    <3>1. PICK k \in 1..Len(q), m \in 1..Len(q) : a = k + 1 /\ b = m + 1
      BY <1>6, <2>3
    <3>2. k = m
      BY <1>1, <1>5, <3>1 DEF IsInjective
    <3> QED
      BY <3>1, <3>2
  <2> QED
    BY <2>2, <2>3
<1> QED
  BY <1>3, <1>7, <1>8 DEF r

LEMMA PopFront ==
    ASSUME NEW S, NEW q \in Seq(S), IsInjective(q), q # <<>>
    PROVE  /\ Tail(q) \in Seq(S) /\ Len(q) \in Nat \ {0} /\ Len(Tail(q)) = Len(q) - 1
           /\ IsInjective(Tail(q)) /\ Head(q) \in Range(q)
           /\ Range(Tail(q)) = Range(q) \ {Head(q)}
<1> DEFINE r == Tail(q)
<1>1. Len(q) \in Nat \ {0} /\ DOMAIN q = 1..Len(q)
  BY LenProperties, EmptySeq
<1>2. /\ Head(q) = q[1] /\ r \in Seq(S) /\ Len(r) = Len(q) - 1
      /\ \A i \in 1..Len(r) : r[i] = q[i + 1]
  BY HeadTailProperties
<1>3. DOMAIN r = 1..(Len(q) - 1)
  BY <1>2, LenProperties
<1> HIDE DEF r
<1>4. \A i \in DOMAIN r : i + 1 \in DOMAIN q /\ i + 1 # 1 /\ r[i] = q[i + 1]
  BY <1>1, <1>2, <1>3
<1>5. 1 \in DOMAIN q
  BY <1>1
<1>6. \A k \in DOMAIN q : k = 1 \/ \E i \in DOMAIN r : k = i + 1
  <2> TAKE k \in DOMAIN q
  <2>1. CASE k # 1
    <3>1. k - 1 \in 1..(Len(q) - 1) /\ k = (k - 1) + 1
      BY <1>1, <2>1
    <3> QED
      BY <1>3, <3>1
  <2> QED
    BY <2>1
<1>7. Range(r) = Range(q) \ {Head(q)}
  <2>1. Range(r) \subseteq Range(q) \ {Head(q)}
    BY <1>2, <1>4, <1>5 DEF Range, IsInjective
  <2>2. Range(q) \ {Head(q)} \subseteq Range(r)
    BY <1>2, <1>4, <1>6 DEF Range
  <2> QED
    BY <2>1, <2>2
<1>8. IsInjective(r)
  <2> SUFFICES ASSUME NEW a \in DOMAIN r, NEW b \in DOMAIN r, r[a] = r[b]
               PROVE  a = b
    BY DEF IsInjective
  <2>1. a + 1 = b + 1
    BY <1>4 DEF IsInjective
  <2> QED
    BY <1>1, <1>3, <2>1
<1>9. Head(q) \in Range(q)
  BY <1>2, <1>5 DEF Range
<1> QED
  BY <1>1, <1>2, <1>7, <1>8, <1>9 DEF r

\* No slot is twice on a free list, so it is never longer than the table.
LEMMA FreeListFits ==
    ASSUME NEW q \in Seq(Slot), IsInjective(q)
    PROVE  Len(q) \in 0..PerWorker
<1>1. Len(q) \in Nat /\ q \in [1..Len(q) -> Slot]
  BY LenProperties
<1>2. q \in Injection(1..Len(q), Slot)
  BY <1>1 DEF Injection, IsInjective
<1>3. Cardinality(1..Len(q)) = Len(q)
  BY <1>1, FS_Interval
<1>4. IsFiniteSet(Slot) /\ Cardinality(Slot) = PerWorker /\ PerWorker \in Nat
  BY WorkersFinite, FS_Interval DEF Slot
<1>5. Cardinality(1..Len(q)) <= Cardinality(Slot)
  BY <1>2, <1>4, FS_Injection
<1> QED
  BY <1>1, <1>3, <1>4, <1>5

-----------------------------------------------------------------------------
(* Steps that change the table of one worker. *)

Elsewhere(w) ==
    \A v \in Worker \ {w} :
        /\ pc'[v] = pc[v] /\ hand'[v] = hand[v] /\ slot'[v] = slot[v] /\ batch'[v] = batch[v]
        /\ free_list'[v] = free_list[v] /\ fd'[v] = fd[v] /\ have'[v] = have[v]
        /\ conn_count'[v] = conn_count[v]

\* The tables of the other workers stay sound.
LEMMA OnlyOne ==
    ASSUME IInv, NEW w \in Worker, Elsewhere(w), listening, AtHand(w)', SlotsConserved(w)'
    PROVE  WorkersSound'
<1>1. ASSUME NEW v \in Worker, v # w
      PROVE  AtHand(v)' /\ SlotsConserved(v)'
  <2>1. AtHand(v) /\ SlotsConserved(v)
    BY DEF IInv, WorkersSound
  <2>2. /\ pc'[v] = pc[v] /\ hand'[v] = hand[v] /\ slot'[v] = slot[v] /\ batch'[v] = batch[v]
        /\ free_list'[v] = free_list[v] /\ fd'[v] = fd[v] /\ have'[v] = have[v]
        /\ conn_count'[v] = conn_count[v]
    BY <1>1 DEF Elsewhere
  <2>3. AtHand(v)'
    BY <2>1, <2>2 DEF AtHand, SettingUp
  <2>4. SlotsConserved(v)'
    BY <2>1, <2>2 DEF SlotsConserved
  <2> QED
    BY <2>3, <2>4
<1> QED
  BY <1>1 DEF WorkersSound

Places == {"none", "top", "wait", "events", "read", "accept", "recv", "send", "payload", "add",
           "free", "exited"}

\* What the type invariant says, in the form the steps use.
LEMMA Types ==
    ASSUME IInv
    PROVE  /\ pc \in [Worker -> Places] /\ hand \in [Worker -> Client \cup {Nil}]
           /\ slot \in [Worker -> Slot]
           /\ batch \in [Worker -> SUBSET (Slot \cup {Listen})]
           /\ free_list \in [Worker -> Seq(Slot)]
           /\ fd \in [Worker -> [Slot -> Client \cup {Nil}]]
           /\ have \in [Worker -> [Slot -> SUBSET Buffer]]
           /\ conn_count \in [Worker -> 0..PerWorker]
           /\ socket \in [Client -> {"closed", "backlog", "open"}]
           /\ left \in 0..Room /\ Room \in Nat
           /\ total_alloc \in Nat /\ total_free \in 0..total_alloc
           /\ active_connections \in Nat
BY WorkersFinite, PoolAssumption DEF IInv, TypeOK, Places

LEMMA ServerInitStep ==
    ASSUME IInv, ServerInit
    PROVE  IInv'
<1> DEFINE all == [i \in Slot |-> PerWorker + 1 - i]
<1>1. /\ main = "init" /\ main' = "start" /\ turn' = 1 /\ listening' = TRUE
      /\ pool' \in BOOLEAN /\ left' = (IF pool' THEN Room ELSE 0)
      /\ running' = [w \in Worker |-> TRUE] /\ free_list' = [w \in Worker |-> all]
      /\ UNCHANGED <<g_running, freed, total_alloc, total_free, pc, hand, slot, batch,
                     fd, have, conn_count, active_connections, socket, edge, unread, gone>>
  BY DEF ServerInit, InitDefault, thread, clients, traffic
<1>2. PerWorker \in Nat \ {0} /\ Slot = 1..PerWorker /\ Workers \in Nat \ {0}
  BY WorkersFinite DEF Slot
<1>3. ~listening /\ freed = {} /\ (\A w \in Worker : pc[w] \in {"none", "exited"})
  BY <1>1 DEF IInv, MainInTurn
<1>4. /\ total_alloc = 0 /\ \A w \in Worker : conn_count[w] = 0
      /\ \A w \in Worker, s \in Slot : fd[w][s] = Nil /\ have[w][s] = {}
  BY <1>1 DEF IInv, NothingYet
<1>5. all \in Seq(Slot) /\ Len(all) = PerWorker /\ IsInjective(all) /\ Range(all) = Slot
  <2>1. all \in [1..PerWorker -> Slot]
    BY <1>2
  <2>2. all \in Seq(Slot)
    BY <1>2, <2>1, SeqDef
  <2>3. Len(all) = PerWorker
    BY <1>2, <2>1, <2>2, LenProperties
  <2>4. IsInjective(all)
    BY <1>2 DEF IsInjective
  <2>5. Range(all) = Slot
    <3>1. ASSUME NEW s \in Slot
          PROVE  PerWorker + 1 - s \in Slot /\ PerWorker + 1 - (PerWorker + 1 - s) = s
      BY <1>2
    <3>2. ASSUME NEW s \in Slot
          PROVE  \E i \in Slot : all[i] = s
      BY <3>1
    <3>3. DOMAIN all = Slot /\ \A i \in Slot : all[i] \in Slot
      BY <3>1
    <3> HIDE DEF all
    <3> QED
      BY <3>2, <3>3 DEF Range
  <2> QED
    BY <2>2, <2>3, <2>4, <2>5
<1> HIDE DEF all
<1>6. TypeOK'
  <2>1. left' \in 0..Room /\ turn' \in 1..(Workers + 1)
    BY <1>1, <1>2, PoolAssumption
  <2>2. listening' \in BOOLEAN /\ running' \in [Worker -> BOOLEAN]
    BY <1>1, Zenon
  <2>3. free_list' \in [Worker -> Seq(Slot)]
    BY <1>1, <1>5
  <2> QED
    BY <1>1, <2>1, <2>2, <2>3 DEF IInv, TypeOK
<1>7. \A w \in Worker : pc[w] = "none" /\ hand[w] = Nil
  <2>1. ASSUME NEW w \in Worker
        PROVE  pc[w] = "none" /\ hand[w] = Nil
    <3>1. AtHand(w) /\ pc[w] = "none"
      BY <1>1 DEF IInv, WorkersSound, NothingYet
    <3> QED
      BY <3>1 DEF AtHand, SettingUp
  <2> QED
    BY <2>1
<1>8. MainInTurn'
  <2>1. 1 \in Worker /\ 1..Workers = Worker
    BY <1>2 DEF Worker
  <2> QED
    BY <1>1, <1>3, <1>7, <2>1 DEF MainInTurn
<1>9. NothingYet'
  BY <1>1, <1>4 DEF NothingYet
<1>10. WorkersSound'
  <2>1. ASSUME NEW w \in Worker
        PROVE  AtHand(w)'
    <3>1. AtHand(w)
      BY DEF IInv, WorkersSound
    <3> QED
      BY <1>1, <1>7, <3>1 DEF AtHand, SettingUp
  <2>2. ASSUME NEW w \in Worker
        PROVE  SlotsConserved(w)'
    BY <1>1, <1>2, <1>4, <1>5 DEF SlotsConserved
  <2> QED
    BY <2>1, <2>2 DEF WorkersSound
<1>11. SocketsOwned' /\ Active' = Active /\ Held' = Held
  BY <1>1 DEF IInv, SocketsOwned, Owners, Active, Held
<1>12. ActiveExact' /\ BuffersAccounted'
  BY <1>1, <1>11 DEF IInv, ActiveExact, BuffersAccounted
<1> QED
  BY <1>6, <1>8, <1>9, <1>10, <1>11, <1>12 DEF IInv

\* A worker finds that a connection is to be closed: the counter goes down now, the slot
\* comes back with conn_free.
LEMMA ClosingStep ==
    ASSUME IInv, NEW w \in Worker, Closing(w)
    PROVE  IInv'
<1> USE DEF table, memory, clients, traffic
<1> DEFINE e == slot[w]
<1>0. /\ pc[w] = "read" /\ pc' = [pc EXCEPT ![w] = "free"]
      /\ active_connections' = active_connections - 1
      /\ UNCHANGED <<process, memory, hand, slot, batch, table, clients>>
  BY DEF Closing, Go
<1>1. /\ e \in Slot /\ fd[w][e] # Nil /\ hand[w] = Nil /\ e \notin batch[w]
  <2>1. e \in Slot
    BY Types
  <2>2. AtHand(w)
    BY DEF IInv, WorkersSound
  <2> QED
    BY <1>0, <2>1, <2>2 DEF AtHand, SettingUp
<1> HIDE DEF e
<1>2. MainInTurn' /\ listening /\ main # "init"
  BY <1>0, WorkerInTurn
<1>3. Active' = Active \ {<<w, e>>}
  <2>1. ASSUME NEW v \in Worker, NEW s \in Slot
        PROVE  (pc'[v] = "free" /\ slot'[v] = s)
                   <=> ((pc[v] = "free" /\ slot[v] = s) \/ <<v, s>> = <<w, e>>)
    BY <1>0, Types DEF e
  <2>2. ASSUME NEW x \in Worker \X Slot
        PROVE  x \in Active' <=> x \in Active /\ x # <<w, e>>
    <3>1. PICK v \in Worker, s \in Slot : x = <<v, s>>
      OBVIOUS
    <3> QED
      BY <1>0, <2>1, <3>1 DEF Active
  <2> QED
    BY <2>2 DEF Active
<1>4. <<w, e>> \in Active
  BY <1>0, <1>1 DEF Active
<1>5. ActiveExact' /\ active_connections' \in 0..(Workers * PerWorker)
  <2>1. Cardinality(Active') = Cardinality(Active) - 1
    BY <1>3, <1>4, CountedFinite, FS_RemoveElement
  <2>2. active_connections' = Cardinality(Active')
    BY <1>0, <2>1 DEF IInv, ActiveExact
  <2>3. (Cardinality(Active) \in 0..(Workers * PerWorker))'
    BY CountedFinite, PTL
  <2> QED
    BY <2>2, <2>3 DEF ActiveExact
<1>6. TypeOK'
  <2>1. pc' \in [Worker -> Places]
    BY <1>0, Types DEF Places
  <2> QED
    BY <1>0, <1>5, <2>1 DEF IInv, TypeOK, process, Places
<1>7. NothingYet'
  BY <1>0, <1>2 DEF IInv, NothingYet, process
<1>8. WorkersSound'
  <2>1. Elsewhere(w)
    BY <1>0, Types DEF Elsewhere
  <2>2. AtHand(w) /\ SlotsConserved(w)
    BY <1>2 DEF IInv, WorkersSound
  <2>3. pc'[w] = "free" /\ slot'[w] = e /\ batch'[w] = batch[w]
    BY <1>0, Types DEF e
  <2>4. AtHand(w)'
    BY <1>0, <1>1, <2>2, <2>3 DEF AtHand, SettingUp
  <2>5. SlotsConserved(w)'
    BY <1>0, <1>1, <2>2 DEF SlotsConserved
  <2> QED
    BY <1>0, <1>2, <2>1, <2>4, <2>5, OnlyOne
<1>9. SocketsOwned'
  <2>1. \A c \in Client : Owners(c)' = Owners(c)
    BY <1>0 DEF Owners
  <2> QED
    BY <1>0, <2>1 DEF IInv, SocketsOwned
<1>10. Held' = Held
  BY <1>0 DEF Held
<1>11. BuffersAccounted'
  BY <1>0, <1>10 DEF IInv, BuffersAccounted
<1> QED
  BY <1>2, <1>5, <1>6, <1>7, <1>8, <1>9, <1>11 DEF IInv

\* conn_alloc begins: the client's socket is open from now on, and belongs to the slot
\* that leaves the free list.
LEMMA TakeSlotStep ==
    ASSUME IInv, NEW w \in Worker, NEW c \in Client, Accept(w, c), free_list[w] # <<>>
    PROVE  IInv'
<1> DEFINE s == Head(free_list[w])
           x == <<w, s>>
<1>1. /\ pc[w] = "accept" /\ socket[c] = "backlog"
      /\ socket' = [socket EXCEPT ![c] = "open"] /\ hand' = [hand EXCEPT ![w] = c]
      /\ slot' = [slot EXCEPT ![w] = s]
      /\ free_list' = [free_list EXCEPT ![w] = Tail(free_list[w])]
      /\ conn_count' = [conn_count EXCEPT ![w] = conn_count[w] + 1]
      /\ pc' = [pc EXCEPT ![w] = "recv"]
      /\ UNCHANGED <<process, left, total_alloc, total_free, batch, fd, have,
                     active_connections, edge, unread, gone>>
  BY DEF Accept, TakeSlot, Go, memory, traffic
<1>2. MainInTurn' /\ listening /\ main # "init"
  BY <1>1, WorkerInTurn
<1>3. /\ AtHand(w) /\ SlotsConserved(w) /\ hand[w] = Nil
  BY <1>1, <1>2 DEF IInv, WorkersSound, AtHand, SettingUp
<1>4. /\ Tail(free_list[w]) \in Seq(Slot)
      /\ Len(free_list[w]) \in Nat \ {0} /\ Len(Tail(free_list[w])) = Len(free_list[w]) - 1
      /\ IsInjective(Tail(free_list[w])) /\ s \in Range(free_list[w])
      /\ Range(Tail(free_list[w])) = Range(free_list[w]) \ {s}
  BY <1>3, Types, PopFront DEF SlotsConserved
<1>5. /\ s \in Slot /\ fd[w][s] = Nil /\ have[w][s] = {}
      /\ conn_count[w] = PerWorker - Len(free_list[w])
  <2>1. free_list[w] \in Seq(Slot)
    BY Types
  <2>2. Range(free_list[w]) \subseteq Slot
    BY <2>1, ElementOfSeq, LenProperties DEF Range
  <2> QED
    BY <1>3, <1>4, <2>2 DEF SlotsConserved
<1> HIDE DEF s
<1>6. /\ Elsewhere(w) /\ pc'[w] = "recv" /\ slot'[w] = s /\ hand'[w] = c
      /\ free_list'[w] = Tail(free_list[w]) /\ conn_count'[w] = conn_count[w] + 1
  BY <1>1, Types DEF Elsewhere
<1>7. conn_count[w] + 1 \in 0..PerWorker
  BY <1>4, <1>5, Types, WorkersFinite
<1>8. TypeOK'
  <2>1. /\ pc' \in [Worker -> Places] /\ hand' \in [Worker -> Client \cup {Nil}]
        /\ slot' \in [Worker -> Slot] /\ free_list' \in [Worker -> Seq(Slot)]
        /\ conn_count' \in [Worker -> 0..PerWorker]
        /\ socket' \in [Client -> {"closed", "backlog", "open"}]
    BY <1>1, <1>4, <1>5, <1>7, Types DEF Places
  <2> QED
    BY <1>1, <2>1 DEF IInv, TypeOK, process, Places
<1>9. NothingYet'
  BY <1>1, <1>2 DEF IInv, NothingYet, process
<1>10. WorkersSound'
  <2>1. AtHand(w)'
    <3>1. c # Nil /\ s \notin Range(Tail(free_list[w]))
      BY <1>4, NilAssumption
    <3>2. /\ "recv" \in DOMAIN SettingUp /\ {} \subseteq SettingUp["recv"] /\ "recv" # "free"
          /\ SettingUp' = SettingUp
      BY DEF SettingUp
    <3>3. \A t \in batch[w] \ {Listen} : fd[w][t] # Nil
      BY <1>3 DEF AtHand
    <3> QED
      BY <1>1, <1>5, <1>6, <3>1, <3>2, <3>3 DEF AtHand
  <2>2. conn_count[w] + 1 = PerWorker - (Len(free_list[w]) - 1)
    BY <1>4, <1>5, WorkersFinite
  <2>3. SlotsConserved(w)'
    BY <1>1, <1>3, <1>4, <1>6, <2>2, NilAssumption DEF SlotsConserved
  <2> QED
    BY <1>2, <1>6, <2>1, <2>3, OnlyOne
<1>11. SocketsOwned'
  <2>2. ASSUME NEW v \in Worker, NEW t \in Slot, NEW d \in Client
        PROVE  <<v, t>> \in Owners(d)' <=> <<v, t>> \in Owners(d) \/ (d = c /\ <<v, t>> = x)
    <3>1. <<v, t>> \in Owners(d) <=> fd[v][t] = d \/ (hand[v] = d /\ slot[v] = t)
      BY DEF Owners
    <3>2. <<v, t>> \in Owners(d)' <=> fd[v][t] = d \/ (hand'[v] = d /\ slot'[v] = t)
      BY <1>1 DEF Owners
    <3>3. CASE v = w
      BY <1>3, <1>6, <3>1, <3>2, <3>3, NilAssumption
    <3>4. CASE v # w
      BY <1>6, <3>1, <3>2, <3>4 DEF Elsewhere
    <3> QED
      BY <3>3, <3>4
  <2>3. \A d \in Client : Owners(d)' \subseteq Worker \X Slot /\ Owners(d) \subseteq Worker \X Slot
    BY DEF Owners
  <2>4. ASSUME NEW d \in Client, d # c
        PROVE  Owners(d)' = Owners(d)
    <3>1. ASSUME NEW y \in Worker \X Slot
          PROVE  y \in Owners(d)' <=> y \in Owners(d)
      <4>1. PICK v \in Worker, t \in Slot : y = <<v, t>>
        OBVIOUS
      <4> QED
        BY <2>2, <2>4, <4>1
    <3> QED
      BY <2>3, <3>1
  <2>5. Owners(c) = {}
    BY <1>1 DEF IInv, SocketsOwned
  <2>6. Owners(c)' = {x} /\ x \in Worker \X Slot
    BY <1>5, <2>2, <2>3, <2>5
  <2> HIDE DEF x
  <2>7. socket'[c] = "open" /\ \A d \in Client : d # c => socket'[d] = socket[d]
    BY <1>1, Types
  <2> QED
    BY <2>4, <2>6, <2>7 DEF IInv, SocketsOwned
<1>12. Active' = Active
  <2>1. \A v \in Worker : pc[v] = "free" \/ pc'[v] = "free" => pc'[v] = pc[v] /\ slot'[v] = slot[v]
    BY <1>1, <1>6 DEF Elsewhere
  <2> QED
    BY <1>1, <2>1 DEF Active
<1>13. Held' = Held
  BY <1>1 DEF Held
<1>14. ActiveExact' /\ BuffersAccounted'
  BY <1>1, <1>12, <1>13 DEF IInv, ActiveExact, BuffersAccounted
<1> QED
  BY <1>2, <1>8, <1>9, <1>10, <1>11, <1>14 DEF IInv

\* conn_alloc takes a buffer of the slot, or the pool has none left.
LEMMA ConnAllocStep ==
    ASSUME IInv, NEW w \in Worker, NEW b \in Buffer, ConnAlloc(w, b)
    PROVE  IInv'
<1> DEFINE s == slot[w]
           x == <<w, s, b>>
<1>1. /\ pc[w] = b /\ pc' = [pc EXCEPT ![w] = AfterBuffer[b]]
      /\ UNCHANGED <<process, total_free, hand, slot, batch, free_list, fd, conn_count,
                     active_connections, socket, edge, unread, gone>>
  BY DEF ConnAlloc, Go, clients, traffic
<1>2. /\ AfterBuffer[b] \in Places \ {"none", "free"} /\ AfterBuffer[b] \in DOMAIN SettingUp
      /\ SettingUp[AfterBuffer[b]] = SettingUp[b] \cup {b} /\ b \notin SettingUp[b]
      /\ b \in DOMAIN SettingUp /\ b \notin {"none", "free", "exited"}
  BY DEF AfterBuffer, SettingUp, Buffer, Places
<1>3. MainInTurn' /\ listening /\ main # "init"
  BY <1>1, <1>2, WorkerInTurn DEF Places
<1>4. /\ AtHand(w) /\ SlotsConserved(w) /\ hand[w] # Nil /\ s \in Slot
      /\ s \notin Range(free_list[w]) /\ have[w][s] \subseteq SettingUp[b]
  BY <1>1, <1>2, <1>3, Types DEF IInv, WorkersSound, AtHand
<1>5. PICK got \in SUBSET {b} :
          /\ have' = [have EXCEPT ![w][s] = have[w][s] \cup got]
          /\ \/ got = {} /\ UNCHANGED <<left, total_alloc>>
             \/ /\ got = {b} /\ Need[b] <= left
                /\ left' = left - Need[b] /\ total_alloc' = total_alloc + 1
  <2>1. CASE Need[b] <= left
    <3>1. {b} \in SUBSET {b}
      OBVIOUS
    <3> QED
      BY <2>1, <3>1 DEF ConnAlloc
  <2>2. CASE ~(Need[b] <= left)
    <3>1. have' = [have EXCEPT ![w][s] = have[w][s] \cup {}] /\ UNCHANGED <<left, total_alloc>>
      BY <2>2, Types, <1>4 DEF ConnAlloc
    <3> QED
      BY <3>1
  <2> QED
    BY <2>1, <2>2
<1>6. \A v \in Worker, t \in Slot :
          have'[v][t] = have[v][t] \cup IF <<v, t>> = <<w, s>> THEN got ELSE {}
  BY <1>4, <1>5, Types
<1> HIDE DEF s
<1>7. have' \in [Worker -> [Slot -> SUBSET Buffer]]
  BY <1>4, <1>5, Types
<1>8. Need[b] \in Nat \ {0}
  BY PoolAssumption
<1>9. TypeOK'
  <2>1. pc' \in [Worker -> Places]
    BY <1>1, <1>2, Types
  <2>2. left' \in 0..Room /\ total_alloc' \in Nat /\ total_free \in 0..total_alloc'
    BY <1>5, <1>8, Types
  <2> QED
    BY <1>1, <1>7, <2>1, <2>2 DEF IInv, TypeOK, process, Places
<1>10. NothingYet'
  BY <1>1, <1>3, <1>5, <1>8 DEF IInv, NothingYet, process
<1>11. WorkersSound'
  <2>1. Elsewhere(w)
    BY <1>1, <1>5, Types DEF Elsewhere
  <2>2. pc'[w] = AfterBuffer[b] /\ have'[w][s] \subseteq SettingUp[AfterBuffer[b]]
    BY <1>1, <1>2, <1>4, <1>6, Types
  <2>3. AtHand(w)'
    BY <1>1, <1>2, <1>4, <2>2 DEF AtHand, SettingUp, s
  <2>4. ASSUME NEW t \in Slot, t \in Range(free_list[w])
        PROVE  have'[w][t] = have[w][t]
    <3>1. <<w, t>> # <<w, s>>
      BY <1>4, <2>4
    <3> QED
      BY <1>6, <3>1
  <2>5. Range(free_list[w]) \subseteq Slot
    BY Types, ElementOfSeq, LenProperties DEF Range
  <2>6. SlotsConserved(w)'
    BY <1>1, <1>4, <2>4, <2>5 DEF SlotsConserved
  <2> QED
    BY <1>3, <2>1, <2>3, <2>6, OnlyOne
<1>12. SocketsOwned'
  BY <1>1 DEF IInv, SocketsOwned, Owners
<1>13. Active' = Active
  <2>1. \A v \in Worker : pc'[v] = "free" <=> pc[v] = "free"
    BY <1>1, <1>2, Types
  <2> QED
    BY <1>1, <2>1 DEF Active
<1>14. BuffersAccounted'
  <2>1. total_alloc - total_free = Cardinality(Held)
    BY DEF IInv, BuffersAccounted
  <2>2. CASE got = {}
    <3>1. Held' = Held
      BY <1>6, <2>2 DEF Held
    <3> QED
      BY <1>1, <1>5, <2>1, <2>2, <3>1 DEF BuffersAccounted
  <2>3. CASE got = {b}
    <3>1. Held' = Held \cup {x}
      <4>1. ASSUME NEW v \in Worker, NEW t \in Slot, NEW d \in Buffer
            PROVE  <<v, t, d>> \in Held' <=> <<v, t, d>> \in Held \cup {x}
        BY <1>6, <2>3 DEF Held
      <4>2. Held' \subseteq Worker \X Slot \X Buffer /\ Held \cup {x} \subseteq Worker \X Slot \X Buffer
        BY <1>4 DEF Held
      <4> QED
        BY <4>1, <4>2
    <3>2. x \notin Held
      BY <1>2, <1>4 DEF Held
    <3>3. Cardinality(Held') = Cardinality(Held) + 1
      BY <3>1, <3>2, CountedFinite, FS_AddElement
    <3>4. total_alloc' = total_alloc + 1
      BY <1>5, <2>3
    <3> QED
      BY <1>1, <2>1, <3>3, <3>4, Types DEF BuffersAccounted
  <2> QED
    BY <2>2, <2>3
<1>15. ActiveExact'
  BY <1>1, <1>13 DEF IInv, ActiveExact
<1> QED
  BY <1>3, <1>9, <1>10, <1>11, <1>12, <1>14, <1>15 DEF IInv

\* EPOLL_CTL_ADD: the slot is in use, and the connection is counted.
LEMMA AcceptedStep ==
    ASSUME IInv, NEW w \in Worker, Accepted(w)
    PROVE  IInv'
<1> DEFINE s == slot[w]
           c == hand[w]
           x == <<w, s>>
<1>1. /\ pc[w] = "add" /\ fd' = [fd EXCEPT ![w][s] = c] /\ hand' = [hand EXCEPT ![w] = Nil]
      /\ active_connections' = active_connections + 1 /\ pc' = [pc EXCEPT ![w] = "accept"]
      /\ UNCHANGED <<process, left, total_alloc, total_free, slot, batch, free_list, have,
                     conn_count, socket, edge, unread, gone>>
  BY DEF Accepted, Go, Counted, memory, clients, traffic
<1>2. MainInTurn' /\ listening /\ main # "init"
  BY <1>1, WorkerInTurn
<1>3. /\ AtHand(w) /\ SlotsConserved(w) /\ s \in Slot
      /\ c \in Client /\ c # Nil /\ s \notin Range(free_list[w]) /\ fd[w][s] = Nil
  BY <1>1, <1>2, Types DEF IInv, WorkersSound, AtHand, SettingUp
<1> HIDE DEF s, c
<1>4. /\ pc'[w] = "accept" /\ hand'[w] = Nil /\ fd'[w] = [fd[w] EXCEPT ![s] = c]
      /\ Elsewhere(w) /\ slot'[w] = s
  BY <1>1, <1>3, Types DEF Elsewhere, s
<1>5. \A v \in Worker, t \in Slot : fd'[v][t] = IF <<v, t>> = x THEN c ELSE fd[v][t]
  BY <1>1, <1>3, Types
<1>6. Active' = Active \cup {x} /\ x \notin Active
  <2>1. ASSUME NEW v \in Worker, NEW t \in Slot
        PROVE  <<v, t>> \in Active' <=> <<v, t>> \in Active \/ <<v, t>> = x
    <3>1. pc'[v] = "free" <=> pc[v] = "free"
      BY <1>1, <1>4, Types
    <3>2. <<v, t>> \in Active'
              <=> fd'[v][t] # Nil /\ ~(pc'[v] = "free" /\ slot'[v] = t)
      BY DEF Active
    <3>3. <<v, t>> \in Active <=> fd[v][t] # Nil /\ ~(pc[v] = "free" /\ slot[v] = t)
      BY DEF Active
    <3>4. CASE <<v, t>> = x
      BY <1>1, <1>3, <1>5, <3>1, <3>2, <3>4
    <3>5. CASE <<v, t>> # x
      BY <1>1, <1>5, <3>1, <3>2, <3>3, <3>5
    <3> QED
      BY <3>4, <3>5
  <2>2. Active' \subseteq Worker \X Slot /\ Active \subseteq Worker \X Slot /\ x \in Worker \X Slot
    BY <1>3 DEF Active
  <2>3. x \notin Active
    BY <1>3 DEF Active
  <2>4. ASSUME NEW y \in Worker \X Slot
        PROVE  y \in Active' <=> y \in Active \cup {x}
    <3>1. PICK v \in Worker, t \in Slot : y = <<v, t>>
      OBVIOUS
    <3> QED
      BY <2>1, <3>1
  <2> HIDE DEF x
  <2> QED
    BY <2>2, <2>3, <2>4
<1>7. ActiveExact' /\ active_connections' \in 0..(Workers * PerWorker)
  <2>1. Cardinality(Active') = Cardinality(Active) + 1
    BY <1>6, CountedFinite, FS_AddElement
  <2>2. active_connections' = Cardinality(Active')
    BY <1>1, <2>1 DEF IInv, ActiveExact
  <2>3. (Cardinality(Active) \in 0..(Workers * PerWorker))'
    BY CountedFinite, PTL
  <2> QED
    BY <2>2, <2>3 DEF ActiveExact
<1>8. TypeOK'
  <2>1. /\ pc' \in [Worker -> Places] /\ hand' \in [Worker -> Client \cup {Nil}]
        /\ fd' \in [Worker -> [Slot -> Client \cup {Nil}]]
    BY <1>1, <1>3, Types DEF Places
  <2> QED
    BY <1>1, <1>7, <2>1 DEF IInv, TypeOK, process, Places
<1>9. NothingYet'
  BY <1>1, <1>2 DEF IInv, NothingYet, process
<1>10. WorkersSound'
  <2>1. \A t \in Slot : t # s => fd'[w][t] = fd[w][t]
    BY <1>5
  <2>2. fd'[w][s] # Nil
    BY <1>3, <1>5
  <2>3. AtHand(w)'
    <3>1. "accept" \notin DOMAIN SettingUp' /\ pc'[w] # "free"
      BY <1>4 DEF SettingUp
    <3>2. \A t \in batch[w] \ {Listen} : t \in Slot /\ fd[w][t] # Nil
      BY <1>3, Types DEF AtHand
    <3>3. \A t \in batch[w] \ {Listen} : fd'[w][t] # Nil
      BY <2>1, <2>2, <3>2
    <3> QED
      BY <1>1, <1>4, <3>1, <3>3 DEF AtHand
  <2>4. SlotsConserved(w)'
    <3>1. Range(free_list[w]) \subseteq Slot
      BY Types, ElementOfSeq, LenProperties DEF Range
    <3>2. \A t \in Range(free_list[w]) : fd'[w][t] = Nil
      BY <1>3, <2>1, <3>1 DEF SlotsConserved
    <3>3. \A t \in Slot \ Range(free_list[w]) : fd'[w][t] # Nil
      BY <1>3, <2>1, <2>2 DEF SlotsConserved, s
    <3> QED
      BY <1>1, <1>3, <3>2, <3>3 DEF SlotsConserved
  <2> QED
    BY <1>2, <1>4, <2>3, <2>4, OnlyOne
<1>11. SocketsOwned'
  <2>1. ASSUME NEW d \in Client
        PROVE  Owners(d)' = Owners(d)
    <3>1. ASSUME NEW v \in Worker, NEW t \in Slot
          PROVE  <<v, t>> \in Owners(d)' <=> <<v, t>> \in Owners(d)
      <4>1. <<v, t>> \in Owners(d) <=> fd[v][t] = d \/ (hand[v] = d /\ slot[v] = t)
        BY DEF Owners
      <4>2. <<v, t>> \in Owners(d)' <=> fd'[v][t] = d \/ (hand'[v] = d /\ slot[v] = t)
        BY <1>1 DEF Owners
      <4>3. d # Nil
        BY NilAssumption
      <4>4. CASE v = w
        BY <1>3, <1>4, <1>5, <4>1, <4>2, <4>3, <4>4 DEF s, c
      <4>5. CASE v # w
        BY <1>4, <4>1, <4>2, <4>5 DEF Elsewhere
      <4> QED
        BY <4>4, <4>5
    <3>2. Owners(d)' \subseteq Worker \X Slot /\ Owners(d) \subseteq Worker \X Slot
      BY DEF Owners
    <3>3. ASSUME NEW y \in Worker \X Slot
          PROVE  y \in Owners(d)' <=> y \in Owners(d)
      <4>1. PICK v \in Worker, t \in Slot : y = <<v, t>>
        OBVIOUS
      <4> QED
        BY <3>1, <4>1
    <3> QED
      BY <3>2, <3>3
  <2> QED
    BY <1>1, <2>1 DEF IInv, SocketsOwned
<1>12. Held' = Held
  BY <1>1 DEF Held
<1>13. BuffersAccounted'
  BY <1>1, <1>12 DEF IInv, BuffersAccounted
<1> QED
  BY <1>2, <1>7, <1>8, <1>9, <1>10, <1>11, <1>13 DEF IInv

\* conn_free: the slot goes back, the client's socket is closed, and each buffer the
\* connection had is freed once.
LEMMA ConnFreeStep ==
    ASSUME IInv, NEW w \in Worker, ConnFree(w)
    PROVE  IInv'
<1> DEFINE s == slot[w]
           c == fd[w][s]
           x == <<w, s>>
           had == have[w][s]
<1>1. /\ pc[w] = "free" /\ socket' = [socket EXCEPT ![c] = "closed"]
      /\ fd' = [fd EXCEPT ![w][s] = Nil] /\ have' = [have EXCEPT ![w][s] = {}]
      /\ total_free' = total_free + Cardinality((had \cap {"recv", "send"}) \cup (had \cap {"payload"}))
      /\ free_list' = [free_list EXCEPT ![w] = <<s>> \o free_list[w]]
      /\ conn_count' = [conn_count EXCEPT ![w] = conn_count[w] - 1]
      /\ pc' = [pc EXCEPT ![w] = "events"]
      /\ edge' = [edge EXCEPT ![c] = FALSE] /\ unread' = [unread EXCEPT ![c] = FALSE]
      /\ gone' = [gone EXCEPT ![c] = FALSE]
      /\ UNCHANGED <<process, left, total_alloc, hand, slot, batch, active_connections>>
  BY DEF ConnFree, FreeBuffers, ParserDestroyed, Close, Go
<1>2. MainInTurn' /\ listening /\ main # "init"
  BY <1>1, WorkerInTurn
<1>3. /\ AtHand(w) /\ SlotsConserved(w) /\ s \in Slot /\ had \subseteq Buffer
      /\ c \in Client /\ c # Nil /\ hand[w] = Nil /\ s \notin batch[w]
  BY <1>1, <1>2, Types DEF IInv, WorkersSound, AtHand, SettingUp
<1>4. s \notin Range(free_list[w])
  BY <1>3 DEF SlotsConserved
<1> HIDE DEF s, c, had
<1>5. /\ free_list'[w] \in Seq(Slot) /\ Len(free_list'[w]) = Len(free_list[w]) + 1
      /\ IsInjective(free_list'[w]) /\ Range(free_list'[w]) = Range(free_list[w]) \cup {s}
  <2>1. free_list[w] \in Seq(Slot) /\ IsInjective(free_list[w])
    BY <1>3, Types DEF SlotsConserved
  <2>2. free_list'[w] = <<s>> \o free_list[w]
    BY <1>1, Types
  <2> QED
    BY <1>3, <1>4, <2>1, <2>2, PushFront
<1>6. /\ pc'[w] = "events" /\ Elsewhere(w) /\ conn_count'[w] = conn_count[w] - 1
  BY <1>1, Types DEF Elsewhere
<1>7. /\ \A v \in Worker, t \in Slot : fd'[v][t] = IF <<v, t>> = x THEN Nil ELSE fd[v][t]
      /\ \A v \in Worker, t \in Slot : have'[v][t] = IF <<v, t>> = x THEN {} ELSE have[v][t]
  BY <1>1, <1>3, Types
<1>8. /\ conn_count[w] - 1 = PerWorker - Len(free_list'[w])
      /\ conn_count[w] - 1 \in 0..PerWorker
  <2>1. Len(free_list'[w]) \in 0..PerWorker
    BY <1>5, FreeListFits
  <2>2. conn_count[w] = PerWorker - Len(free_list[w]) /\ Len(free_list[w]) \in Nat
    BY <1>3, Types, LenProperties DEF SlotsConserved
  <2> QED
    BY <1>5, <2>1, <2>2, WorkersFinite
<1>9. had \in SUBSET Buffer /\ IsFiniteSet(had) /\ Cardinality(had) \in Nat
      /\ (had \cap {"recv", "send"}) \cup (had \cap {"payload"}) = had
  <2>1. IsFiniteSet(had)
    BY <1>3, WorkersFinite, FS_Subset
  <2>2. (had \cap {"recv", "send"}) \cup (had \cap {"payload"}) = had
    BY <1>3 DEF Buffer
  <2> QED
    BY <1>3, <2>1, <2>2, FS_CardinalityType
<1>10. Cardinality(Held') = Cardinality(Held) - Cardinality(had) /\ Cardinality(Held') \in Nat
  <2> DEFINE H == {<<w, s, b>> : b \in had}
             f == [b \in had |-> <<w, s, b>>]
  <2>1. ExistsBijection(had, H)
    <3>1. f \in Bijection(had, H)
      <4>1. f \in [had -> H] /\ \A a, b \in had : f[a] = f[b] => a = b
        OBVIOUS
      <4>2. \A y \in H : \E b \in had : f[b] = y
        OBVIOUS
      <4> QED
        <5> HIDE DEF f, H
        <5>1. f \in Injection(had, H) /\ f \in Surjection(had, H)
          BY <4>1, <4>2 DEF Injection, Surjection, IsInjective
        <5> QED
          BY <5>1 DEF Bijection
    <3> QED
      BY <3>1 DEF ExistsBijection
  <2>2. Cardinality(H) = Cardinality(had)
    BY <1>9, <2>1, FS_Bijection
  <2>3. Held' = Held \ H
    <3>1. ASSUME NEW v \in Worker, NEW t \in Slot, NEW b \in Buffer
          PROVE  <<v, t, b>> \in Held' <=> <<v, t, b>> \in Held \ H
      <4>1. <<v, t, b>> \in Held' <=> b \in have'[v][t]
        BY DEF Held
      <4>2. <<v, t, b>> \in Held <=> b \in have[v][t]
        BY DEF Held
      <4>3. <<v, t, b>> \in H <=> <<v, t>> = x /\ b \in had
        OBVIOUS
      <4>4. CASE <<v, t>> = x
        <5>1. have[v][t] = had /\ have'[v][t] = {}
          BY <1>7, <4>4 DEF had
        <5> QED
          BY <4>1, <4>2, <4>3, <4>4, <5>1
      <4>5. CASE <<v, t>> # x
        BY <1>7, <4>1, <4>2, <4>3, <4>5
      <4> QED
        BY <4>4, <4>5
    <3>2. Held' \subseteq Worker \X Slot \X Buffer /\ Held \subseteq Worker \X Slot \X Buffer
      BY DEF Held
    <3>3. ASSUME NEW y \in Worker \X Slot \X Buffer
          PROVE  y \in Held' <=> y \in Held \ H
      <4>1. PICK v \in Worker, t \in Slot, b \in Buffer : y = <<v, t, b>>
        OBVIOUS
      <4> HIDE DEF H
      <4> QED
        BY <3>1, <4>1
    <3> HIDE DEF H
    <3> QED
      BY <3>2, <3>3
  <2>4. Held \cap H = H
    BY <1>3 DEF Held, had
  <2> HIDE DEF H
  <2>5. IsFiniteSet(Held)
    BY CountedFinite
  <2>6. Cardinality(Held \ H) = Cardinality(Held) - Cardinality(Held \cap H) /\ IsFiniteSet(Held \ H)
    BY <2>5, FS_Difference
  <2> QED
    BY <2>2, <2>3, <2>4, <2>6, FS_CardinalityType
<1>11. total_free' = total_free + Cardinality(had)
  BY <1>1, <1>9
<1>12. BuffersAccounted' /\ total_free' \in 0..total_alloc
  <2>1. total_alloc - total_free = Cardinality(Held)
    BY DEF IInv, BuffersAccounted
  <2>2. /\ total_alloc - total_free' = Cardinality(Held')
        /\ total_free' \in 0..total_alloc
    BY <1>9, <1>10, <1>11, <2>1, Types
  <2> QED
    BY <1>1, <2>2 DEF BuffersAccounted
<1>13. TypeOK'
  <2>1. /\ pc' \in [Worker -> Places] /\ fd' \in [Worker -> [Slot -> Client \cup {Nil}]]
        /\ socket' \in [Client -> {"closed", "backlog", "open"}]
        /\ conn_count' \in [Worker -> 0..PerWorker]
    BY <1>1, <1>8, Types DEF Places
  <2>2. have' \in [Worker -> [Slot -> SUBSET Buffer]]
    BY <1>1, <1>3, Types
  <2>3. free_list' \in [Worker -> Seq(Slot)]
    <3>1. <<s>> \o free_list[w] \in Seq(Slot)
      BY <1>1, <1>5, Types
    <3> QED
      BY <1>1, <3>1, Types
  <2> QED
    BY <1>1, <1>12, <2>1, <2>2, <2>3 DEF IInv, TypeOK, process, Places
<1>14. NothingYet'
  BY <1>1, <1>2 DEF IInv, NothingYet, process
<1>15. \A t \in Slot : t # s => fd'[w][t] = fd[w][t] /\ have'[w][t] = have[w][t]
  BY <1>7
<1>16. fd'[w][s] = Nil /\ have'[w][s] = {}
  BY <1>3, <1>7
<1>17. WorkersSound'
  <2>1. AtHand(w)'
    <3>1. "events" \notin DOMAIN SettingUp' /\ "events" # "free"
      BY DEF SettingUp
    <3>2. \A t \in batch[w] \ {Listen} : t \in Slot /\ t # s /\ fd[w][t] # Nil
      BY <1>3, Types DEF AtHand
    <3>3. \A t \in batch[w] \ {Listen} : fd'[w][t] # Nil
      BY <1>15, <3>2
    <3> QED
      BY <1>1, <1>3, <1>6, <3>1, <3>3 DEF AtHand
  <2>2. SlotsConserved(w)'
    <3>1. Range(free_list[w]) \subseteq Slot
      BY Types, ElementOfSeq, LenProperties DEF Range
    <3>2. \A t \in Range(free_list'[w]) : fd'[w][t] = Nil /\ have'[w][t] = {}
      BY <1>3, <1>5, <1>15, <1>16, <3>1 DEF SlotsConserved
    <3>3. \A t \in Slot \ Range(free_list'[w]) : fd'[w][t] # Nil
      BY <1>3, <1>5, <1>15 DEF SlotsConserved
    <3> QED
      BY <1>5, <1>6, <1>8, <3>2, <3>3 DEF SlotsConserved
  <2> QED
    BY <1>2, <1>6, <2>1, <2>2, OnlyOne
<1>18. SocketsOwned'
  <2>1. ASSUME NEW v \in Worker, NEW t \in Slot, NEW d \in Client
        PROVE  <<v, t>> \in Owners(d)' <=> <<v, t>> \in Owners(d) /\ <<v, t>> # x
    <3>1. <<v, t>> \in Owners(d) <=> fd[v][t] = d \/ (hand[v] = d /\ slot[v] = t)
      BY DEF Owners
    <3>2. <<v, t>> \in Owners(d)' <=> fd'[v][t] = d \/ (hand[v] = d /\ slot[v] = t)
      BY <1>1 DEF Owners
    <3>3. d # Nil
      BY NilAssumption
    <3>4. CASE <<v, t>> = x
      BY <1>3, <1>7, <3>2, <3>3, <3>4
    <3>5. CASE <<v, t>> # x
      BY <1>7, <3>1, <3>2, <3>5
    <3> QED
      BY <3>4, <3>5
  <2>2. \A d \in Client : Owners(d)' \subseteq Worker \X Slot /\ Owners(d) \subseteq Worker \X Slot
    BY DEF Owners
  <2>3. ASSUME NEW d \in Client
        PROVE  Owners(d)' = Owners(d) \ {x}
    <3>1. ASSUME NEW y \in Worker \X Slot
          PROVE  y \in Owners(d)' <=> y \in Owners(d) \ {x}
      <4>1. PICK v \in Worker, t \in Slot : y = <<v, t>>
        OBVIOUS
      <4> QED
        BY <2>1, <4>1
    <3> HIDE DEF x
    <3> QED
      BY <2>2, <3>1
  <2>4. \A d \in Client : x \in Owners(d) <=> d = c
    BY <1>3, NilAssumption DEF Owners, c
  <2> HIDE DEF x
  <2>5. ASSUME NEW d \in Client, d # c
        PROVE  Owners(d)' = Owners(d) /\ socket'[d] = socket[d]
    BY <1>1, <2>3, <2>4, <2>5, Types
  <2>6. ASSUME NEW d \in Client, d = c
        PROVE  Owners(d) = {x} /\ socket'[d] = "closed"
    BY <1>1, <2>4, <2>6, Types DEF IInv, SocketsOwned
  <2>7. ASSUME NEW d \in Client, d = c
        PROVE  Owners(d)' = {} /\ socket'[d] = "closed"
    BY <2>3, <2>6, <2>7
  <2> QED
    BY <2>5, <2>7 DEF IInv, SocketsOwned
<1>19. Active' = Active
  <2>1. ASSUME NEW v \in Worker, NEW t \in Slot
        PROVE  <<v, t>> \in Active' <=> <<v, t>> \in Active
    <3>1. /\ <<v, t>> \in Active' <=> fd'[v][t] # Nil /\ ~(pc'[v] = "free" /\ slot[v] = t)
          /\ <<v, t>> \in Active <=> fd[v][t] # Nil /\ ~(pc[v] = "free" /\ slot[v] = t)
      BY <1>1 DEF Active
    <3>2. CASE <<v, t>> = x
      BY <1>1, <1>7, <3>1, <3>2 DEF s
    <3>3. CASE v = w /\ t # s
      BY <1>6, <1>7, <3>1, <3>3 DEF s
    <3>4. CASE v # w
      BY <1>6, <1>7, <3>1, <3>4 DEF Elsewhere
    <3> QED
      BY <3>2, <3>3, <3>4
  <2>2. Active' \subseteq Worker \X Slot /\ Active \subseteq Worker \X Slot
    BY DEF Active
  <2>3. ASSUME NEW y \in Worker \X Slot
        PROVE  y \in Active' <=> y \in Active
    <3>1. PICK v \in Worker, t \in Slot : y = <<v, t>>
      OBVIOUS
    <3> QED
      BY <2>1, <3>1
  <2> QED
    BY <2>2, <2>3
<1>20. ActiveExact'
  BY <1>1, <1>19 DEF IInv, ActiveExact
<1> QED
  BY <1>2, <1>12, <1>13, <1>14, <1>17, <1>18, <1>20 DEF IInv

-----------------------------------------------------------------------------
(* All steps together. *)

LEMMA WorkerStepKeeps ==
    ASSUME IInv, NEW w \in Worker, WorkerStep(w) \/ AcceptNone(w)
    PROVE  IInv'
<1>1. CASE Top(w) \/ EventsDone(w) \/ AcceptNone(w) \/ ReadDone(w)
  BY <1>1, WaitingSteps
<1>2. CASE EpollWait(w)
  BY <1>2, EpollWaitStep
<1>3. CASE Event(w)
  BY <1>3, EventStep
<1>4. CASE ConnFree(w)
  BY <1>4, ConnFreeStep
<1>5. CASE \E c \in Client : Accept(w, c)
  BY <1>5, TurnAwayStep, TakeSlotStep
<1>6. CASE \E b \in Buffer : ConnAlloc(w, b)
  BY <1>6, ConnAllocStep
<1>7. CASE Accepted(w)
  BY <1>7, AcceptedStep
<1>8. CASE Recv(w)
  BY <1>8, RecvStep
<1>9. CASE Closing(w)
  BY <1>9, ClosingStep
<1> QED
  BY <1>1, <1>2, <1>3, <1>4, <1>5, <1>6, <1>7, <1>8, <1>9 DEF WorkerStep

LEMMA NextIInv ==
    ASSUME IInv, [Next]_vars
    PROVE  IInv'
<1>1. CASE Signal
  BY <1>1, SignalStep
<1>2. CASE MainStep
  BY <1>2, ServerInitStep, ServerStartStep, ServerStopStep, ServerJoinStep, ServerCloseStep
     DEF MainStep
<1>3. CASE ServerInitFails
  BY <1>3, ServerInitFailsStep
<1>4. CASE \E w \in Worker : WorkerStep(w) \/ AcceptNone(w)
  BY <1>4, WorkerStepKeeps
<1>5. CASE \E c \in Client : Connect(c) \/ \E leaves \in BOOLEAN : Arrive(c, leaves)
  BY <1>5, ConnectStep, ArriveStep
<1>6. CASE UNCHANGED vars
  <2>1. UNCHANGED <<process, memory, thread, table, active_connections, clients>>
    BY <1>6 DEF vars
  <2>2. TypeOK' /\ MainInTurn' /\ NothingYet'
    BY <2>1 DEF IInv, TypeOK, MainInTurn, NothingYet, process, memory, thread, table, clients,
                traffic
  <2> QED
    BY <2>1, <2>2, Still DEF process, memory, clients, traffic
<1> QED
  BY <1>1, <1>2, <1>3, <1>4, <1>5, <1>6 DEF Next

\* The inductive invariant of the server.
THEOREM Invariance == Spec => []IInv
<1>1. Init => IInv
  BY InitIInv
<1>2. IInv /\ [Next]_vars => IInv'
  BY NextIInv
<1> QED
  BY <1>1, <1>2, PTL DEF Spec

\* However many workers, slots and clients there are, the workers' tables, the
\* sockets and the shared counter agree at every step (TablesSound): no slot is
\* lost or given out twice, no socket leaks or has two owners.
THEOREM TablesAreSound == Spec => []TablesSound
<1>1. IInv => TablesSound
  BY DEF IInv, TablesSound
<1> QED
  BY <1>1, Invariance, PTL

\* The pool's two counters differ by the buffers the connections have: conn_free and
\* eg_proto_parser_destroy free each of them once, whatever eg_malloc refused.
THEOREM BuffersAreAccounted == Spec => []BuffersAccounted
<1>1. IInv => BuffersAccounted
  BY DEF IInv
<1> QED
  BY <1>1, Invariance, PTL

\* eg_server_stop joins each worker before it frees its connections, and the pool is
\* there as long as a connection of any worker can have a buffer of it.
THEOREM NothingFreedEarly == Spec => []FreedAfterJoin
<1>1. IInv => FreedAfterJoin
  <2>1. IInv => (total_alloc > total_free /\ freed # Worker => pool)
    BY DEF IInv, TypeOK, NothingYet
  <2> QED
    BY <2>1 DEF IInv, FreedAfterJoin
<1> QED
  BY <1>1, Invariance, PTL

=============================================================================

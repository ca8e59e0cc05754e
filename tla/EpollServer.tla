----------------------------- MODULE EpollServer -----------------------------
(***************************************************************************)
(* The server process around its connections: main starts the workers and  *)
(* stops them one after the other; every worker waits on an epoll instance *)
(* of its own, accepts from the one listening socket and keeps its         *)
(* connections in an array with a free list; the three buffers of a        *)
(* connection come from the default memory pool, which all workers share.  *)
(* What a worker does with the bytes of a connection is module Connection. *)
(***************************************************************************)
EXTENDS Integers, Sequences, FiniteSets, Functions, SequencesExt, FiniteSetsExt

CONSTANTS Workers,     \* num_workers; the workers are 1..Workers
          PerWorker,   \* conn_per_worker
          Client,      \* the clients, each with one connection at a time
          Nil,
          MaxEvents,   \* MAX_EVENTS
          Room,        \* what the pool's large region has room for
          Need         \* what each buffer takes of it

Worker == 1..Workers
Slot   == 1..PerWorker
Buffer == {"recv", "send", "payload"}
Listen == 0            \* the event whose data.ptr is NULL

ASSUME CountsAssumption ==
    /\ Workers \in Nat \ {0} /\ PerWorker \in Nat \ {0} /\ MaxEvents \in Nat \ {0}
ASSUME PoolAssumption == Room \in Nat /\ Need \in [Buffer -> Nat \ {0}]
ASSUME NilAssumption == Nil \notin Client

VARIABLES main, turn,  \* where main is, and the worker its loop is at
          g_running,   \* cleared by the signal handler
          running,     \* of each worker
          listening,   \* the listening socket is open
          pool,        \* the default pool is initialised
          left,        \* what is left of the pool's large region
          total_alloc, total_free,   \* of the pool
          pc, hand, slot,    \* of each worker: where it is, client and slot at hand
          batch,       \* of each worker: the events it has still to handle
          freed,       \* the workers whose connection array is freed
          free_list, fd, have,       \* of each worker: free slots; client and buffers of a slot
          conn_count,
          active_connections,
          socket, edge,        \* of each client: its socket, an unreported edge,
          unread, gone         \* bytes nobody has received, it has left

process == <<main, turn, g_running, running, listening, pool, freed>>
memory  == <<left, total_alloc, total_free>>
thread  == <<pc, hand, slot, batch>>
table   == <<free_list, fd, have, conn_count>>
traffic == <<edge, unread, gone>>
clients == <<socket, traffic>>
vars    == <<process, memory, thread, table, active_connections, clients>>

TypeOK ==
    /\ main \in {"init", "start", "loop", "stop", "join", "close", "exit"}
    /\ turn \in 1..(Workers + 1) /\ g_running \in BOOLEAN /\ listening \in BOOLEAN
    /\ pool \in BOOLEAN
    /\ running \in [Worker -> BOOLEAN] /\ freed \subseteq Worker
    /\ left \in 0..Room /\ total_alloc \in Nat /\ total_free \in 0..total_alloc
    /\ pc \in [Worker -> {"none", "top", "wait", "events", "read", "accept", "recv",
                          "send", "payload", "add", "free", "exited"}]
    /\ hand \in [Worker -> Client \cup {Nil}] /\ slot \in [Worker -> Slot]
    /\ batch \in [Worker -> SUBSET (Slot \cup {Listen})]
    /\ free_list \in [Worker -> Seq(Slot)]
    /\ fd \in [Worker -> [Slot -> Client \cup {Nil}]]
    /\ have \in [Worker -> [Slot -> SUBSET Buffer]]
    /\ conn_count \in [Worker -> 0..PerWorker]
    /\ active_connections \in 0..(Workers * PerWorker)
    /\ socket \in [Client -> {"closed", "backlog", "open"}]
    /\ edge \in [Client -> BOOLEAN] /\ unread \in [Client -> BOOLEAN]
    /\ gone \in [Client -> BOOLEAN]

Init ==
    /\ main = "init" /\ turn = 1 /\ g_running = TRUE
    /\ running = [w \in Worker |-> FALSE] /\ listening = FALSE /\ freed = {}
    /\ pool = FALSE /\ left = 0 /\ total_alloc = 0 /\ total_free = 0
    /\ pc = [w \in Worker |-> "none"] /\ hand = [w \in Worker |-> Nil]
    /\ slot = [w \in Worker |-> 1] /\ batch = [w \in Worker |-> {}]
    /\ free_list = [w \in Worker |-> <<>>] /\ conn_count = [w \in Worker |-> 0]
    /\ fd = [w \in Worker |-> [s \in Slot |-> Nil]]
    /\ have = [w \in Worker |-> [s \in Slot |-> {}]]
    /\ active_connections = 0
    /\ socket = [c \in Client |-> "closed"]
    /\ edge = [c \in Client |-> FALSE] /\ unread = [c \in Client |-> FALSE]
    /\ gone = [c \in Client |-> FALSE]

-----------------------------------------------------------------------------
(* main, eg_server_init, eg_server_start and eg_server_stop *)

\* A signal may arrive at any time; main looks at the flag when sleep returns.
Signal ==
    /\ g_running
    /\ g_running' = FALSE
    /\ UNCHANGED <<main, turn, running, listening, pool, freed, memory, thread, table,
                   active_connections, clients>>

\* eg_server_init does not look whether the default pool could be created: without
\* it every eg_malloc returns NULL.
InitDefault ==
    \E ok \in BOOLEAN : pool' = ok /\ left' = IF ok THEN Room ELSE 0

DeinitDefault == pool' = FALSE /\ left' = 0

\* Slots are pushed from the first to the last, so the last is taken first.
ServerInit ==
    /\ main = "init"
    /\ InitDefault
    /\ main' = "start" /\ turn' = 1 /\ listening' = TRUE
    /\ running' = [w \in Worker |-> TRUE]
    /\ free_list' = [w \in Worker |-> [i \in Slot |-> PerWorker + 1 - i]]
    /\ UNCHANGED <<g_running, freed, total_alloc, total_free, thread, fd, have, conn_count,
                   active_connections, clients>>

\* socket, bind or listen fails: main returns with the pool still there.
ServerInitFails ==
    /\ main = "init"
    /\ InitDefault
    /\ main' = "exit"
    /\ UNCHANGED <<turn, g_running, running, listening, freed, total_alloc, total_free,
                   thread, table, active_connections, clients>>

ServerStart ==
    /\ main = "start"
    /\ pc' = [pc EXCEPT ![turn] = "top"]
    /\ turn' = IF turn = Workers THEN 1 ELSE turn + 1
    /\ main' = IF turn = Workers THEN "loop" ELSE "start"
    /\ UNCHANGED <<g_running, running, listening, pool, freed, memory, hand, slot, batch,
                   table, active_connections, clients>>

\* One worker after the other is told to stop and waited for.
ServerStop ==
    /\ \/ main = "loop" /\ ~g_running
       \/ main = "stop"
    /\ running' = [running EXCEPT ![turn] = FALSE]
    /\ main' = "join"
    /\ UNCHANGED <<turn, g_running, listening, pool, freed, memory, thread, table, active_connections,
                   clients>>

\* Mutant: main does not wait.
JoinedAtOnce(w) == TRUE

Joined(w) == pc[w] = "exited"   \* pthread_join returns

\* The worker's epoll instance and connections go; the sockets of connections
\* that are open are left to the end of the process.
ServerJoin ==
    /\ main = "join" /\ Joined(turn)
    /\ freed' = freed \cup {turn}
    /\ turn' = turn + 1
    /\ main' = IF turn = Workers THEN "close" ELSE "stop"
    /\ UNCHANGED <<g_running, running, listening, pool, memory, thread, table, active_connections,
                   clients>>

ServerClose ==
    /\ main = "close"
    /\ listening' = FALSE
    /\ DeinitDefault
    /\ main' = "exit"
    /\ UNCHANGED <<turn, g_running, running, freed, total_alloc, total_free, thread, table,
                   active_connections, clients>>

-----------------------------------------------------------------------------
(* The clients and the kernel *)

\* For the first time, or again after the server has closed its connection.
Connect(c) ==
    /\ listening /\ socket[c] = "closed"
    /\ socket' = [socket EXCEPT ![c] = "backlog"]
    /\ UNCHANGED <<process, memory, thread, table, active_connections, traffic>>

\* Bytes arrive, or with leaves the end of the stream or an error.
Arrive(c, leaves) ==
    /\ socket[c] \in {"backlog", "open"} /\ ~gone[c]
    /\ gone' = [gone EXCEPT ![c] = leaves]
    /\ unread' = [unread EXCEPT ![c] = @ \/ ~leaves]
    /\ edge' = [edge EXCEPT ![c] = TRUE]
    /\ UNCHANGED <<process, memory, thread, table, active_connections, socket>>

\* close: the socket leaves its epoll instance, and what came for it is dropped.
Close(c) ==
    /\ socket' = [socket EXCEPT ![c] = "closed"]
    /\ edge' = [edge EXCEPT ![c] = FALSE]
    /\ unread' = [unread EXCEPT ![c] = FALSE]
    /\ gone' = [gone EXCEPT ![c] = FALSE]

Ready(w) ==
    (IF \E c \in Client : socket[c] = "backlog" THEN {Listen} ELSE {})
    \cup {s \in Slot : fd[w][s] # Nil /\ edge[fd[w][s]]}

-----------------------------------------------------------------------------
(* A worker *)

Go(w, where) == pc' = [pc EXCEPT ![w] = where]

Top(w) ==
    /\ pc[w] = "top"
    /\ Go(w, IF running[w] THEN "wait" ELSE "exited")
    /\ UNCHANGED <<process, memory, hand, slot, batch, table, active_connections, clients>>

\* Mutant: epoll_wait has no timeout.
EpollWaitForever(w) ==
    /\ pc[w] = "wait" /\ Ready(w) # {}
    /\ \E reported \in SUBSET Ready(w) :
          /\ Cardinality(reported) = Min({MaxEvents, Cardinality(Ready(w))})
          /\ batch' = [batch EXCEPT ![w] = reported]
          /\ edge' = [c \in Client |-> edge[c] /\ \A s \in reported \ {Listen} : fd[w][s] # c]
    /\ Go(w, "events")
    /\ UNCHANGED <<process, memory, hand, slot, table, active_connections, socket, unread, gone>>

\* Edges are reported once, the listening socket as long as it has clients, and
\* to every worker; without any event the call times out.
EpollWait(w) ==
    /\ pc[w] = "wait"
    /\ \E reported \in SUBSET Ready(w) :
          /\ Cardinality(reported) = Min({MaxEvents, Cardinality(Ready(w))})
          /\ batch' = [batch EXCEPT ![w] = reported]
          /\ edge' = [c \in Client |-> edge[c] /\ \A s \in reported \ {Listen} : fd[w][s] # c]
    /\ Go(w, "events")
    /\ UNCHANGED <<process, memory, hand, slot, table, active_connections, socket, unread, gone>>

\* Mutant: whoever has accepted goes back to epoll_wait at once.
RestAfterAccept(w, e) == IF e = Listen THEN {} ELSE batch[w] \ {e}

Rest(w, e) == batch[w] \ {e}

Event(w) ==
    /\ pc[w] = "events"
    /\ \E e \in batch[w] :
          /\ batch' = [batch EXCEPT ![w] = Rest(w, e)]
          /\ slot' = [slot EXCEPT ![w] = IF e = Listen THEN @ ELSE e]
          /\ Go(w, IF e = Listen THEN "accept" ELSE "read")
    /\ UNCHANGED <<process, memory, hand, table, active_connections, clients>>

Peer(w) == fd[w][slot[w]]

\* handle_read goes on until recv has nothing more to give.
Recv(w) ==
    /\ pc[w] = "read" /\ unread[Peer(w)] /\ "recv" \in have[w][slot[w]]
    /\ unread' = [unread EXCEPT ![Peer(w)] = FALSE]
    /\ UNCHANGED <<process, memory, thread, table, active_connections, socket, edge, gone>>

ReadDone(w) ==
    /\ pc[w] = "read" /\ ~unread[Peer(w)] /\ ~gone[Peer(w)]
    /\ Go(w, "events")
    /\ UNCHANGED <<process, memory, hand, slot, batch, table, active_connections, clients>>

\* The client has left, or recv has no buffer to write to.
Closing(w) ==
    /\ pc[w] = "read"
    /\ gone[Peer(w)] \/ (unread[Peer(w)] /\ "recv" \notin have[w][slot[w]])
    /\ active_connections' = active_connections - 1
    /\ Go(w, "free")
    /\ UNCHANGED <<process, memory, hand, slot, batch, table, clients>>

EventsDone(w) ==
    /\ pc[w] = "events" /\ batch[w] = {}
    /\ Go(w, "top")
    /\ UNCHANGED <<process, memory, hand, slot, batch, table, active_connections, clients>>

\* Mutant: the send buffer is forgotten.
FreeBuffersKeepsSend(w, s) ==
    /\ total_free' = total_free + Cardinality(have[w][s] \ {"send"})
    /\ have' = [have EXCEPT ![w][s] = {}]

\* eg_proto_parser_destroy frees the parser's payload buffer, if there is one.
ParserDestroyed(w, s) == have[w][s] \cap {"payload"}

\* A freed buffer of this size goes back on no list of the pool.
FreeBuffers(w, s) ==
    /\ total_free' = total_free + Cardinality((have[w][s] \cap {"recv", "send"})
                                               \cup ParserDestroyed(w, s))
    /\ have' = [have EXCEPT ![w][s] = {}]

ConnFree(w) ==
    LET s == slot[w]
    IN  /\ pc[w] = "free"
        /\ Close(fd[w][s])
        /\ fd' = [fd EXCEPT ![w][s] = Nil]
        /\ FreeBuffers(w, s)
        /\ free_list' = [free_list EXCEPT ![w] = <<s>> \o @]
        /\ conn_count' = [conn_count EXCEPT ![w] = @ - 1]
        /\ Go(w, "events")
        /\ UNCHANGED <<process, left, total_alloc, hand, slot, batch, active_connections>>

\* accept4 finds nobody, or fails although somebody waits.
AcceptNone(w) ==
    /\ pc[w] = "accept"
    /\ Go(w, "events")
    /\ UNCHANGED <<process, memory, hand, slot, batch, table, active_connections, clients>>

\* Mutant: the client's socket stays open.
TurnAwayForgets(w, c) ==
    /\ socket' = [socket EXCEPT ![c] = "open"]
    /\ UNCHANGED <<pc, hand, slot, free_list, conn_count, traffic>>

\* Without a free slot the new socket is closed and the loop goes on.
TurnAway(w, c) ==
    Close(c) /\ UNCHANGED <<pc, hand, slot, free_list, conn_count>>

TakeSlot(w, c) ==
    /\ socket' = [socket EXCEPT ![c] = "open"]
    /\ hand' = [hand EXCEPT ![w] = c]
    /\ slot' = [slot EXCEPT ![w] = Head(free_list[w])]
    /\ free_list' = [free_list EXCEPT ![w] = Tail(@)]
    /\ conn_count' = [conn_count EXCEPT ![w] = @ + 1]
    /\ Go(w, "recv")
    /\ UNCHANGED traffic

Accept(w, c) ==
    /\ pc[w] = "accept" /\ socket[c] = "backlog"
    /\ IF free_list[w] = <<>> THEN TurnAway(w, c) ELSE TakeSlot(w, c)
    /\ UNCHANGED <<process, memory, batch, fd, have, active_connections>>

AfterBuffer == [recv |-> "send", send |-> "payload", payload |-> "add"]

\* conn_alloc and eg_proto_parser_init: one eg_malloc per step, and nobody looks
\* whether it succeeded.
ConnAlloc(w, b) ==
    /\ pc[w] = b
    /\ IF Need[b] <= left
       THEN /\ left' = left - Need[b] /\ total_alloc' = total_alloc + 1
            /\ have' = [have EXCEPT ![w][slot[w]] = @ \cup {b}]
       ELSE UNCHANGED <<left, total_alloc, have>>
    /\ Go(w, AfterBuffer[b])
    /\ UNCHANGED <<process, total_free, hand, slot, batch, free_list, fd, conn_count,
                   active_connections, clients>>

Counted(w) == 1

\* EPOLL_CTL_ADD reports what arrived before it.
Accepted(w) ==
    /\ pc[w] = "add"
    /\ fd' = [fd EXCEPT ![w][slot[w]] = hand[w]]
    /\ hand' = [hand EXCEPT ![w] = Nil]
    /\ active_connections' = active_connections + Counted(w)
    /\ Go(w, "accept")
    /\ UNCHANGED <<process, memory, slot, batch, free_list, have, conn_count, clients>>

-----------------------------------------------------------------------------
WorkerStep(w) ==
    \/ Top(w) \/ EpollWait(w) \/ Event(w) \/ EventsDone(w)
    \/ Recv(w) \/ ReadDone(w) \/ Closing(w) \/ ConnFree(w)
    \/ (\A c \in Client : socket[c] # "backlog") /\ AcceptNone(w)
    \/ \E c \in Client : Accept(w, c)
    \/ \E b \in Buffer : ConnAlloc(w, b)
    \/ Accepted(w)

MainStep == ServerInit \/ ServerStart \/ ServerStop \/ ServerJoin \/ ServerClose

Next ==
    \/ Signal \/ MainStep \/ ServerInitFails
    \/ \E w \in Worker : WorkerStep(w) \/ AcceptNone(w)
    \/ \E c \in Client : Connect(c) \/ \E leaves \in BOOLEAN : Arrive(c, leaves)

Spec == Init /\ [][Next]_vars

-----------------------------------------------------------------------------
(* Properties *)

\* main: the process opens and closes the listening socket around its workers, and
\* deals with them one after the other; one that has left is not run again.
MainInTurn ==
    /\ listening <=> main \in {"start", "loop", "stop", "join", "close"}
    /\ main \in {"init", "start", "loop"} => freed = {}
    /\ main = "start" => turn \in Worker /\ \A w \in turn..Workers : pc[w] = "none"
    /\ main = "loop" => turn = 1
    /\ main \in {"stop", "join"} => turn \in Worker /\ freed = 1..(turn - 1)
    /\ main = "close" => freed = Worker
    /\ ~listening => \A w \in Worker : pc[w] \in {"none", "exited"}
    /\ \A w \in freed : pc[w] = "exited"

\* Until eg_server_init there is nothing, and without the pool nothing is handed out.
NothingYet ==
    /\ main = "init" =>
          /\ total_alloc = 0
          /\ \A w \in Worker : pc[w] = "none" /\ conn_count[w] = 0
          /\ \A w \in Worker, s \in Slot : fd[w][s] = Nil /\ have[w][s] = {}
    /\ ~pool /\ freed # Worker => left = 0 /\ total_alloc = 0

\* worker_thread: what a worker has at hand between two of its steps.  The buffers of
\* the slot it sets up come one by one; no event is left of a slot it closes.
SettingUp == [recv |-> {}, send |-> {"recv"}, payload |-> {"recv", "send"}, add |-> Buffer]
AtHand(w) ==
    /\ hand[w] # Nil <=> pc[w] \in DOMAIN SettingUp
    /\ hand[w] # Nil =>
          /\ slot[w] \notin Range(free_list[w]) /\ fd[w][slot[w]] = Nil
          /\ have[w][slot[w]] \subseteq SettingUp[pc[w]]
    /\ pc[w] \in {"read", "free"} => fd[w][slot[w]] # Nil /\ slot[w] \notin batch[w]
    /\ \A s \in batch[w] \ {Listen} : fd[w][s] # Nil

\* conn_alloc and conn_free: a slot is on the free list once, or in use, or being
\* set up, and conn_count counts those that are not free.
SlotsConserved(w) ==
    /\ IsInjective(free_list[w])
    /\ \A s \in Range(free_list[w]) : fd[w][s] = Nil /\ have[w][s] = {}
    /\ \A s \in Slot \ Range(free_list[w]) :
           fd[w][s] # Nil \/ (s = slot[w] /\ hand[w] # Nil)
    /\ conn_count[w] = PerWorker - Len(free_list[w])

WorkersSound ==
    \A w \in Worker : AtHand(w) /\ (listening => SlotsConserved(w))

\* handle_accept: a socket the server has accepted and not closed belongs to one
\* slot of one worker, in use or being set up; every other to none.
Owners(c) ==
    {x \in Worker \X Slot : fd[x[1]][x[2]] = c \/ (hand[x[1]] = c /\ slot[x[1]] = x[2])}
SocketsOwned ==
    \A c \in Client :
        IF socket[c] = "open" THEN \E x \in Worker \X Slot : Owners(c) = {x}
                              ELSE Owners(c) = {}

\* active_connections, shared by all workers, is the number of connections but
\* for those a worker has begun to close.
Active ==
    {x \in Worker \X Slot :
        fd[x[1]][x[2]] # Nil /\ ~(pc[x[1]] = "free" /\ slot[x[1]] = x[2])}
ActiveExact == active_connections = Cardinality(Active)

\* handle_accept and conn_free: the tables of all workers, the sockets they are about
\* and the counter they share agree between any two steps.
TablesSound == TypeOK /\ WorkersSound /\ SocketsOwned /\ ActiveExact

\* What the pool handed out and did not get back is what connections have: each
\* buffer is freed once, by conn_free or eg_proto_parser_destroy.
Held == {x \in Worker \X Slot \X Buffer : x[3] \in have[x[1]][x[2]]}
BuffersAccounted == total_alloc - total_free = Cardinality(Held)

\* eg_server_stop frees nothing a worker may still use.
FreedAfterJoin ==
    /\ MainInTurn /\ NothingYet
    /\ total_alloc > total_free /\ freed # Worker => pool

\* A client that connects is served or turned away while the server runs; that
\* one accept4 fails now and then does not lose it.
ClientAnswered ==
    \A c \in Client : socket[c] = "backlog" ~> (socket[c] # "backlog" \/ ~g_running)

\* A connection whose client has left is closed and its slot used again.
GoneIsClosed ==
    \A c \in Client : (socket[c] = "open" /\ gone[c]) ~> (socket[c] = "closed" \/ ~g_running)

\* The clients never come to rest: again and again one connects or sends.
Traffic == []<><<\E c \in Client : Connect(c) \/ \E leaves \in BOOLEAN : Arrive(c, leaves)>>_vars

\* worker_thread: once the clients come to rest, each one that waits is answered and
\* each one that has left is noticed.  Before that a worker may be kept from both.
ClientsServed == Traffic \/ (ClientAnswered /\ GoneIsClosed)

\* The loops of handle_read and handle_accept do not look at running.
KeptInside(w) ==
    <>[](pc[w] \in {"read", "accept", "recv", "send", "payload", "add"})

\* eg_server_stop: after a signal the process ends, unless a worker never comes
\* back from handle_read or handle_accept; and only clients that never come to
\* rest keep it there.
StopEnds ==
    /\ (~g_running ~> (main = "exit")) \/ \E w \in Worker : KeptInside(w)
    /\ \A w \in Worker : KeptInside(w) => Traffic

\* The buffers of closed connections can be used by later ones.
BuffersComeBack == main = "loop" /\ pool /\ total_alloc = total_free => left = Room
=============================================================================

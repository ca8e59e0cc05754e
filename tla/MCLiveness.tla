----------------------------- MODULE MCLiveness -----------------------------
(* What the three lock-free queues, the exporter and the server must         *)
(* eventually do.  They share nothing: a behaviour is one of one of them.    *)
EXTENDS Naturals, TLC

CONSTANTS Item, NoItem, SpscRequests, MaxBatch, SpscMaxPos,
          Producer, Consumer, MpmcRequests, MpmcMaxPos,
          Owner, Thief, WsRequests, WsMaxPos,
          Client, MaxEvents,
          Workers, PerWorker, ServerMaxEvents, Room, Need

VARIABLES subject,
          sCapacity, sBuffer, sHead, sTail, head_cache, tail_cache, batch, written, want, got,
          peeking, sOut,
          mCapacity, data, sequence, mHead, mTail, ppc, ppos, pitem, cpc, cpos, mOut,
          wCapacity, wBuffer, top, bottom, opc, oitem, otop, tpc, titem, ttop, wOut,
          value, todo, observed, overlapped, busy, idle, prev_total, prev_idle,
          starting, server, page, client, backlog, serving, events,
          main, turn, g_running, running, listening, pool, left, total_alloc, total_free,
          pc, hand, slot, reported, freed, free_list, fd, have, conn_count,
          active_connections, socket, edge, unread, gone

\* The pool has room for the buffers of one connection.
Each == [recv |-> 1, send |-> 1, payload |-> 1]

spsc == <<sCapacity, sBuffer, sHead, sTail, head_cache, tail_cache, batch, written, want, got,
          peeking, sOut>>
mpmc == <<mCapacity, data, sequence, mHead, mTail, ppc, ppos, pitem, cpc, cpos, mOut>>
ws   == <<wCapacity, wBuffer, top, bottom, opc, oitem, otop, tpc, titem, ttop, wOut>>
exporter == <<value, todo, observed, overlapped, busy, idle, prev_total, prev_idle,
              starting, server, page, client, backlog, serving, events>>
epoll == <<main, turn, g_running, running, listening, pool, left, total_alloc, total_free,
           pc, hand, slot, reported, freed, free_list, fd, have, conn_count,
           active_connections, socket, edge, unread, gone>>

S == INSTANCE SpscQueue WITH
         Requests <- SpscRequests, MaxPos <- SpscMaxPos, capacity <- sCapacity,
         buffer <- sBuffer, head <- sHead, tail <- sTail, out <- sOut
M == INSTANCE MpmcQueue WITH
         Requests <- MpmcRequests, MaxPos <- MpmcMaxPos, capacity <- mCapacity,
         head <- mHead, tail <- mTail, out <- mOut
W == INSTANCE WsQueue WITH
         Requests <- WsRequests, MaxPos <- WsMaxPos, capacity <- wCapacity,
         buffer <- wBuffer, out <- wOut
E == INSTANCE Exporter WITH Caller <- {}, Call <- {}, Bucket <- <<>>, Rss <- {}
P == INSTANCE EpollServer WITH MaxEvents <- ServerMaxEvents, Nil <- NoItem, batch <- reported

Init ==
    /\ subject \in {"spsc", "mpmc", "ws", "exporter", "epoll"}
    /\ S!Init /\ M!Init /\ W!Init /\ E!Init /\ P!Init

\* The MPMC queue uses its positions only in differences and modulo the capacity, so
\* that one capacity can be taken off all of them.  Without this MpmcMaxPos would end
\* the calls that overtake each other; idle threads' positions are never used again.
Lower(position) == position - mCapacity
Rebase ==
    LET active == [p \in M!Enqueuing |-> ppos[p]] @@ [c \in M!Dequeuing |-> cpos[c]]
    IN  /\ mCapacity # 0 /\ mTail >= mCapacity
        /\ \A s \in DOMAIN sequence : sequence[s] >= mCapacity
        /\ \A t \in DOMAIN active : active[t] >= mCapacity
        /\ mHead' = Lower(mHead) /\ mTail' = Lower(mTail)
        /\ sequence' = [s \in DOMAIN sequence |-> Lower(sequence[s])]
        /\ ppos' = [p \in Producer |-> IF ppc[p] = "idle" THEN 0 ELSE Lower(ppos[p])]
        /\ cpos' = [c \in Consumer |-> IF cpc[c] = "idle" THEN 0 ELSE Lower(cpos[c])]
        /\ UNCHANGED <<mCapacity, data, ppc, pitem, cpc, mOut>>

Next ==
    /\ UNCHANGED subject
    /\ \/ subject = "spsc" /\ S!Next /\ UNCHANGED <<mpmc, ws, exporter, epoll>>
       \/ subject = "mpmc" /\ (M!Next \/ Rebase) /\ UNCHANGED <<spsc, ws, exporter, epoll>>
       \/ subject = "ws" /\ W!Next /\ UNCHANGED <<spsc, mpmc, exporter, epoll>>
       \/ subject = "exporter" /\ E!Next /\ UNCHANGED <<spsc, mpmc, ws, epoll>>
       \/ subject = "epoll" /\ P!Next /\ UNCHANGED <<spsc, mpmc, ws, exporter>>

\* The scheduler runs main and every worker that can run, and accept4 does not fail
\* every time.  Nothing is assumed of signals and clients: a client may keep a worker
\* in handle_read by sending for ever, all of them may keep it in handle_accept.  Only
\* the server can do something in its first state: hence the condition.
ServerFairness ==
    /\ WF_epoll(subject = "epoll" /\ P!MainStep)
    /\ \A w \in P!Worker :
           WF_epoll(P!WorkerStep(w)) /\ SF_epoll(\E c \in Client : P!Accept(w, c))

FairSpec ==
    /\ Init /\ [][Next]_<<subject, spsc, mpmc, ws, exporter, epoll>>
    /\ S!Fairness /\ M!Fairness /\ W!Fairness /\ E!Fairness /\ ServerFairness

\* eg_spsc_queue: stale cached positions never keep an item in the queue, nor a
\* producer out of it.
SpscMoves == S!PublishedIsTaken /\ S!ProducerGetsIn

\* eg_mpmc_queue: as long as threads are inside, calls return on either side.
SomeCallReturns == M!SomeCallReturns

\* eg_wsqueue: the thieves take what the owner leaves, the last item included.
LeftToThieves == W!LeftToThieves

\* metrics_server_thread: every client that connects is answered.
ScrapesAnswered == E!ClientAnswered

\* worker_thread: once the clients come to rest, each one that waits is answered and
\* each one that has left is noticed.
ClientsServed == P!ClientsServed

\* eg_server_stop: the process ends after a signal, unless clients that never come to
\* rest keep a worker.
StopEnds == P!StopEnds
=============================================================================

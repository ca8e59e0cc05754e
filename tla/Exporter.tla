------------------------------- MODULE Exporter -------------------------------
(***************************************************************************)
(* The Prometheus exporter: any thread calls the metrics_ functions, which *)
(* are sequences of atomic additions with one plain one among them, while  *)
(* the exporter's thread takes one client after the other, reads the       *)
(* metrics one by one into a page and sends it.                            *)
(***************************************************************************)
EXTENDS Integers, Sequences, FiniteSets, SequencesExt

CONSTANTS Caller,      \* the threads that call
          Call,        \* the calls they make, as records
          Bucket,      \* the names of the buckets, from the smallest bound on
          Client,      \* who scrapes, once each
          Rss,         \* what VmRSS may be
          MaxEvents    \* bound: calls, ticks, clients and starts together

Observations == {"count", "sum"} \cup Range(Bucket)
Counters ==
    {"connections_total", "connections_errors", "requests_total", "requests_success",
     "requests_failed", "bytes_received", "bytes_sent", "parse_errors", "crc_errors",
     "timeout_errors"}
Gauges ==
    {"connections_active", "cpu_usage", "memory_usage", "memory_pool_used", "memory_pool_free",
     "queue_size", "queue_capacity"}
Metric == Counters \cup Gauges \cup Observations

\* format_metric and generate_metrics: the values of a page in order.
Page ==
    <<"connections_total", "connections_active", "connections_errors", "requests_total",
      "requests_success", "requests_failed">> \o Bucket \o <<"count", "sum", "count",
      "bytes_received", "bytes_sent", "cpu_usage", "memory_usage", "memory_pool_used",
      "memory_pool_free", "parse_errors", "crc_errors", "timeout_errors">>

BoundsAssumption == MaxEvents \in Nat /\ Rss \subseteq Nat /\ IsFiniteSet(Caller)

\* A latency is known by the first bucket whose bound it does not exceed.
CallAssumption ==
    Call \subseteq [name : {"inc_connections", "dec_connections"}]
                   \cup [name : {"inc_requests"}, success : BOOLEAN]
                   \cup [name : {"observe_latency"}, seconds : 1..(Len(Bucket) + 1)]
                   \cup [name : {"add_bytes"}, recv : Nat, sent : Nat]
                   \cup [name : {"set_memory"}, used : Nat, free : Nat]
                   \cup [name : {"inc_error"}, type : STRING]

VARIABLES value,       \* of each metric: g_metrics
          todo,        \* of each caller: what its call has still to do
          observed, overlapped,    \* history: the true sum, and whether two observations
                                   \* ever ran at once
          busy, idle,              \* /proc/stat
          prev_total, prev_idle,   \* the last look at it
          starting,    \* exporter threads that have no socket yet
          server,      \* where the thread that has bound the port is
          page,        \* the values read so far
          client,      \* of each client
          backlog,     \* those that wait to be accepted
          serving,     \* the client at hand, or none
          events       \* how many there were

metrics == <<value, todo, observed, overlapped>>
system  == <<busy, idle, prev_total, prev_idle>>
http    == <<starting, server, page, client, backlog, serving>>
vars    == <<metrics, system, http, events>>

Happens == events < MaxEvents /\ events' = events + 1

Adding(m, n)  == [op |-> "add", metric |-> m, by |-> n]    \* __sync_fetch_and_add
Plus(m, n)    == [op |-> "plus", metric |-> m, by |-> n]   \* +=
Setting(m, n) == [op |-> "set", metric |-> m, by |-> n]    \* =

TypeOK ==
    /\ value \in [Metric -> Int]
    /\ \A t \in Caller : \A i \in DOMAIN todo[t] : todo[t][i].metric \in Metric
    /\ events \in 0..MaxEvents /\ observed \in Nat /\ overlapped \in BOOLEAN
    /\ busy + idle \in 0..MaxEvents /\ prev_idle \in 0..prev_total
    /\ starting \in Nat /\ server \in {"none", "accept", "recv", "format", "send"}
    /\ client \in [Client -> {"idle", "connected", "asked", "answered"}]
    /\ backlog \in Seq(Client) /\ serving \subseteq Client
    /\ Cardinality(serving) = (IF server \in {"none", "accept"} THEN 0 ELSE 1)
    /\ Len(page) <= Len(Page)

Init ==
    /\ value = [m \in Metric |-> 0] /\ todo = [t \in Caller |-> <<>>]
    /\ events = 0 /\ observed = 0 /\ overlapped = FALSE
    /\ busy = 0 /\ idle = 0 /\ prev_total = 0 /\ prev_idle = 0
    /\ starting = 0 /\ server = "none" /\ page = <<>>
    /\ client = [c \in Client |-> "idle"] /\ backlog = <<>> /\ serving = {}

-----------------------------------------------------------------------------
(* The calls *)

BucketsFrom(v) == [i \in 1..(Len(Bucket) + 1 - v) |-> Adding(Bucket[v + i - 1], 1)]

\* Mutant: the buckets are counted before count.
ObserveCountLast(v) ==
    <<Plus("sum", v)>> \o [i \in 1..(Len(Bucket) + 1 - v) |-> Adding(Bucket[v + i - 1], 1)]
    \o <<Adding("count", 1)>>

ObserveLatency(v) == <<Adding("count", 1), Plus("sum", v)>> \o BucketsFrom(v)

IncRequests(success) ==
    <<Adding("requests_total", 1),
      Adding(IF success THEN "requests_success" ELSE "requests_failed", 1)>>

\* An error of any other type is not counted.
IncError(type) ==
    IF type \in {"parse_errors", "crc_errors", "timeout_errors"} THEN <<Adding(type, 1)>> ELSE <<>>

Steps(call) ==
    CASE call.name = "inc_connections" ->
             <<Adding("connections_total", 1), Adding("connections_active", 1)>>
      [] call.name = "dec_connections" -> <<Adding("connections_active", -1)>>
      [] call.name = "inc_requests"    -> IncRequests(call.success)
      [] call.name = "observe_latency" -> ObserveLatency(call.seconds)
      [] call.name = "add_bytes"       -> <<Adding("bytes_received", call.recv),
                                            Adding("bytes_sent", call.sent)>>
      [] call.name = "set_memory"      -> <<Setting("memory_pool_used", call.used),
                                            Setting("memory_pool_free", call.free)>>
      [] call.name = "inc_error"       -> IncError(call.type)

Observes(steps) == \E i \in DOMAIN steps : steps[i].metric \in Observations
Drops(t) == \E i \in DOMAIN todo[t] : todo[t][i].by = -1

\* A caller takes back only a connection that was counted.
Begin(t, call) ==
    LET steps == Steps(call)
    IN  /\ todo[t] = <<>> /\ Happens
        /\ call.name = "dec_connections" =>
              value["connections_active"] > Cardinality({u \in Caller : Drops(u)})
        /\ todo' = [todo EXCEPT ![t] = steps]
        /\ observed' = observed + (IF call.name = "observe_latency" THEN call.seconds ELSE 0)
        /\ overlapped' = (overlapped \/ (Observes(steps) /\ \E u \in Caller : Observes(todo[u])))
        /\ UNCHANGED <<value, system, http>>

AtomicAdd(t) ==
    /\ todo[t] # <<>> /\ Head(todo[t]).op = "add"
    /\ value' = [value EXCEPT ![Head(todo[t]).metric] = @ + Head(todo[t]).by]
    /\ todo' = [todo EXCEPT ![t] = Tail(@)]
    /\ UNCHANGED <<observed, overlapped, system, http, events>>

\* sum += seconds is a load and a store.
Load(t) ==
    /\ todo[t] # <<>> /\ Head(todo[t]).op = "plus"
    /\ todo' = [todo EXCEPT ![t] =
                   <<Setting(Head(@).metric, value[Head(@).metric] + Head(@).by)>> \o Tail(@)]
    /\ UNCHANGED <<value, observed, overlapped, system, http, events>>

Store(t) ==
    /\ todo[t] # <<>> /\ Head(todo[t]).op = "set"
    /\ value' = [value EXCEPT ![Head(todo[t]).metric] = Head(todo[t]).by]
    /\ todo' = [todo EXCEPT ![t] = Tail(@)]
    /\ UNCHANGED <<observed, overlapped, system, http, events>>

-----------------------------------------------------------------------------
(* The exporter's thread *)

\* Time passes, for the processor working or idle.
Tick(working) ==
    /\ Happens
    /\ IF working THEN busy' = busy + 1 /\ UNCHANGED idle
                  ELSE idle' = idle + 1 /\ UNCHANGED busy
    /\ UNCHANGED <<metrics, prev_total, prev_idle, http>>

Start ==
    /\ Happens /\ starting' = starting + 1
    /\ UNCHANGED <<metrics, system, server, page, client, backlog, serving>>

Bind ==
    /\ starting > 0 /\ server = "none"
    /\ starting' = starting - 1 /\ server' = "accept"
    /\ UNCHANGED <<metrics, system, page, client, backlog, serving, events>>

\* No socket, or the port is taken, as it is for a second exporter.
StartFails ==
    /\ starting > 0
    /\ starting' = starting - 1
    /\ UNCHANGED <<metrics, system, server, page, client, backlog, serving, events>>

Connect(c) ==
    /\ Happens /\ server # "none" /\ client[c] = "idle"
    /\ client' = [client EXCEPT ![c] = "connected"] /\ backlog' = Append(backlog, c)
    /\ UNCHANGED <<metrics, system, starting, server, page, serving>>

\* The client sends its request, or closes: recv returns either way.
Ask(c) ==
    /\ client[c] = "connected"
    /\ client' = [client EXCEPT ![c] = "asked"]
    /\ UNCHANGED <<metrics, system, starting, server, page, backlog, serving, events>>

Accept ==
    /\ server = "accept" /\ backlog # <<>>
    /\ serving' = {Head(backlog)} /\ backlog' = Tail(backlog) /\ server' = "recv"
    /\ UNCHANGED <<metrics, system, starting, page, client, events>>

KeptIdle == idle

\* recv returns and collect_system_metrics runs; a file that cannot be opened
\* leaves its metric and the last look alone.
Collect(stat, status) ==
    LET total == busy + idle
        spent == total - prev_total
        cpu   == IF stat /\ spent > 0 THEN (100 * (spent - (idle - prev_idle))) \div spent
                                      ELSE value["cpu_usage"]
    IN  /\ server = "recv" /\ \A c \in serving : client[c] = "asked"
        /\ \E rss \in Rss \cup {value["memory_usage"]} :
              /\ status \/ rss = value["memory_usage"]
              /\ value' = [value EXCEPT !["cpu_usage"] = cpu, !["memory_usage"] = rss]
        /\ IF stat THEN prev_total' = total /\ prev_idle' = KeptIdle
                   ELSE UNCHANGED <<prev_total, prev_idle>>
        /\ server' = "format" /\ page' = <<>>
        /\ UNCHANGED <<todo, observed, overlapped, busy, idle, starting, client, backlog, serving, events>>

\* connections_active is a double that the calls increment as an integer: what
\* %.6f prints of such a bit pattern is 0.000000.
Shown(m) == IF m = "connections_active" THEN 0 ELSE value[m]

FormatMetric ==
    /\ server = "format" /\ Len(page) < Len(Page)
    /\ page' = Append(page, Shown(Page[Len(page) + 1]))
    /\ UNCHANGED <<metrics, system, starting, server, client, backlog, serving, events>>

PageDone ==
    /\ server = "format" /\ Len(page) = Len(Page)
    /\ server' = "send"
    /\ UNCHANGED <<metrics, system, starting, page, client, backlog, serving, events>>

\* Mutant: the thread ends with its first client.
SendOnce ==
    /\ server = "send"
    /\ client' = [c \in Client |-> IF c \in serving THEN "answered" ELSE client[c]]
    /\ serving' = {} /\ server' = "none" /\ page' = <<>>
    /\ UNCHANGED <<metrics, system, starting, backlog, events>>

Send ==
    /\ server = "send"
    /\ client' = [c \in Client |-> IF c \in serving THEN "answered" ELSE client[c]]
    /\ serving' = {} /\ server' = "accept" /\ page' = <<>>
    /\ UNCHANGED <<metrics, system, starting, backlog, events>>

-----------------------------------------------------------------------------
CallStep(t) == AtomicAdd(t) \/ Load(t) \/ Store(t)

Serve ==
    Accept \/ (\E stat, status \in BOOLEAN : Collect(stat, status))
    \/ FormatMetric \/ PageDone \/ Send

Next ==
    \/ \E t \in Caller : CallStep(t) \/ \E call \in Call : Begin(t, call)
    \/ \E working \in BOOLEAN : Tick(working)
    \/ Start \/ Bind \/ StartFails
    \/ \E c \in Client : Connect(c) \/ Ask(c)
    \/ Serve

Spec == Init /\ [][Next]_vars

\* The exporter's thread runs, and who connects asks or leaves; nothing is
\* assumed of the callers.
Fairness == WF_vars(Serve) /\ \A c \in Client : WF_vars(Ask(c))

-----------------------------------------------------------------------------
(* Properties *)

Read(i) == i <= Len(page)
Infinity == Len(Bucket) + 7     \* where the page has the bucket of +Inf

\* metrics_observe_latency against format_metric: a page read while callers
\* observe has no bucket above its +Inf bucket, none above its count, and no
\* bucket above a larger one by more than the callers that may be in between.
HistogramCoherent ==
    /\ \A i \in 7..(Infinity - 1) :
          /\ Read(Infinity) => page[i] <= page[Infinity]
          /\ \A j \in (i + 1)..(Infinity - 1) :
                 Read(j) => page[i] <= page[j] + Cardinality(Caller)
    /\ Read(Infinity + 2) => page[Infinity] <= page[Infinity + 2]

\* metrics_inc_requests: the requests of a page are its successes and failures,
\* but for those whose callers were between the two additions.
RequestsAddUp == Read(6) => page[4] <= page[5] + page[6] + Cardinality(Caller)

\* The plain += may lose an observation's seconds to another one's, but never
\* counts any twice; without overlap it is exact.
SumExactAlone ==
    LET pending == Cardinality({t \in Caller : \E i \in DOMAIN todo[t] : todo[t][i].metric = "sum"})
    IN  /\ value["sum"] <= observed
        /\ ~overlapped /\ pending = 0 => value["sum"] = observed

\* collect_system_metrics works with differences of two looks at /proc/stat.
CpuInRange == value["cpu_usage"] \in 0..100

\* Every client of the exporter gets its page, one after the other.
ClientAnswered == \A c \in Client : client[c] = "connected" ~> client[c] = "answered"

\* The connections_active a client reads is the number of active connections.
ActiveShown == [][Len(page) = 1 /\ Len(page') = 2 => page'[2] = value["connections_active"]]_vars
=============================================================================

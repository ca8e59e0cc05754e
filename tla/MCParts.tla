------------------------------- MODULE MCParts -------------------------------
(* Parts that share nothing, on small instances: the byte ring, the object  *)
(* pool, the exporter, the board support and the unit tests of the pools.   *)
(* A behaviour is one of one.                                               *)
EXTENDS RingBuffer, TLC

CONSTANTS Block, Capacities, Nil,
          Caller, Client, Call, Rss, MaxEvents

VARIABLES subject,
          objCapacity, free_stack, stack, alloc_count, callbacks, held, live, taken, others,
          lost, faults,
          value, todo, observed, overlapped, busy, idle, prev_total, prev_idle,
          starting, server, page, client, backlog, serving, events,
          tree, clocks, function, stream, ready, irqs, up, statements, halted,
          initialized, pool_size, from, mapped, header, free_list, free_count,
          current_usage, lock, pc, request, block, old, cls, verdict, allocated,
          test, step, ptr, content, objStack, total_alloc, initial_free, failed

objects  == <<objCapacity, free_stack, stack, alloc_count, callbacks, held, live, taken, others,
              lost, faults>>
exporter == <<value, todo, observed, overlapped, busy, idle, prev_total, prev_idle,
              starting, server, page, client, backlog, serving, events>>
board    == <<tree, clocks, function, stream, ready, irqs, up, statements, halted>>
tests    == <<initialized, pool_size, from, mapped, header, free_list, free_count,
              current_usage, lock, pc, request, block, old, cls, verdict, allocated,
              test, step, ptr, content, objStack, total_alloc, initial_free, failed>>

\* Observations that fit both buckets, and failed requests.
Calls ==
    {[name |-> "observe_latency", seconds |-> 1], [name |-> "inc_requests", success |-> FALSE]}

O == INSTANCE ObjectPool WITH capacity <- objCapacity, AfterFailure <- FALSE
E == INSTANCE Exporter WITH Bucket <- <<"le1", "le2">>
B == INSTANCE Board WITH todo <- statements

\* The tables and sizes of a 64-bit build, and a buffer that just holds the size classes.
T == INSTANCE PoolTests WITH
         Thread <- {"main"}, Main <- "main", Header <- 16, Pointer <- 8,
         BlockSize <- <<32, 64, 128, 256, 512, 1024, 2048, 4096>>,
         BlockCount <- <<512, 256, 128, 64, 32, 16, 8, 4>>,
         Align <- 32, Alignment <- {}, Word <- 2^20, Buffers <- {}, Sizes <- {100},
         MaxMapped <- 2, BufferSize <- 128 * 1024,
         size <- request, held <- allocated, free_stack <- objStack

ASSUME TestsAssumption == T!MainAssumption
ASSUME PartsAssumption ==
    /\ O!BlockAssumption /\ O!CapacitiesAssumption
    /\ E!BoundsAssumption /\ E!CallAssumption

PartsInit ==
    /\ subject \in {"ring", "objects", "exporter", "board", "tests"}
    /\ Init /\ O!Init /\ E!Init /\ B!Init /\ T!SuiteInit

PartsNext ==
    /\ UNCHANGED subject
    /\ \/ subject = "ring" /\ Next /\ UNCHANGED <<objects, exporter, board, tests>>
       \/ subject = "objects" /\ O!Next /\ UNCHANGED <<vars, exporter, board, tests>>
       \/ subject = "exporter" /\ E!Next /\ UNCHANGED <<vars, objects, board, tests>>
       \/ subject = "board" /\ B!Next /\ UNCHANGED <<vars, objects, exporter, tests>>
       \/ subject = "tests" /\ T!SuiteNext /\ UNCHANGED <<vars, objects, exporter, board>>

PartsSpec == PartsInit /\ [][PartsNext]_<<subject, vars, objects, exporter, board, tests>>

Symmetry == Permutations(Byte) \cup Permutations(Caller) \cup Permutations(Client)

\* The object pool, see ObjectPool: no object and no block is lost or there twice,
\* and release destructs only what was constructed.
ObjectsConserved ==
    O!TypeOK /\ O!ObjectsConserved /\ O!BlocksConserved /\ O!ReleaseDestructsLive

\* The exporter, see Exporter: what a page read in the middle of calls still says.
PagesCoherent ==
    /\ E!TypeOK /\ E!CpuInRange
    /\ E!HistogramCoherent /\ E!RequestsAddUp /\ E!SumExactAlone

\* The board support, see Board: clocks, pins, interrupts and handles that the
\* peripherals' calls share stay consistent in the middle of any call.
BoardConsistent ==
    /\ B!TreeAsDocumented /\ B!ConfiguredIsClocked /\ B!PinsKept
    /\ B!IrqFindsHandle /\ B!UartIsGone

\* The unit tests, see PoolTests: with a buffer that just holds the size classes all of
\* them pass.
SuitePasses == subject = "tests" => T!SuitePasses
=============================================================================

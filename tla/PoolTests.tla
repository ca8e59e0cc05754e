------------------------------ MODULE PoolTests ------------------------------
(***************************************************************************)
(* tests/test_memory_pool.c: one thread runs the unit tests of the memory  *)
(* pool and of the object pool, each between setUp and tearDown.  A test   *)
(* is a sequence of instructions; calls of the pool take MemoryPool's own  *)
(* steps, and an assertion that fails ends its test, as Unity's do.        *)
(*                                                                         *)
(* Pointers of a test are numbered in the order it names them.             *)
(***************************************************************************)
EXTENDS MemoryPool

CONSTANTS Main,        \* the thread of the test program
          BufferSize   \* sizeof(test_buffer)

MainAssumption == Main \in Thread

VARIABLES test, step,    \* the instruction that is next; step 0 is setUp
          ptr,           \* the test's pointers: blocks, or Nil
          content,       \* what was written to the blocks, where a test looks
          free_stack,    \* of obj_pool, see ObjectPool
          total_alloc,   \* of test_pool
          initial_free,  \* the free_size the test has noted
          failed         \* the tests an assertion of which failed

inTest == <<ptr, content, free_stack, total_alloc, initial_free>>
tvars  == <<vars, test, step, inTest, failed>>

-----------------------------------------------------------------------------
(* The instructions *)

alloc(p, n)          == [op |-> "alloc", to |-> p, size |-> n]
calloc(p, count, n)  == [op |-> "calloc", to |-> p, count |-> count, size |-> n]
realloc(q, p, n)     == [op |-> "realloc", to |-> q, of |-> p, size |-> n]
free(p)              == [op |-> "free", of |-> p]
free_nth(i)          == [op |-> "free_nth", of |-> i]
prealloc             == [op |-> "prealloc", size |-> 36]
acquire(p)           == [op |-> "acquire", to |-> p]
release(p)           == [op |-> "release", of |-> p]
do(op)               == [op |-> op]
assert(what, p)      == [op |-> what, of |-> p]
assert2(what, p, q)  == [op |-> what, of |-> p, and |-> q]
NULL                 == 0    \* a pointer no test assigns

\* obj_pool with n objects, when nothing fails: its stack, then its objects.
Objects(n) == <<alloc(99, n * Pointer)>> \o [i \in 1..n |-> prealloc]
ObjectsFreed(n) == [i \in 1..n |-> free_nth(i)] \o <<free(99)>>

test_mempool_create == <<do("as_created")>>

test_mempool_alloc_basic ==
    <<alloc(1, 100), assert("not_null", 1), assert("aligned", 1), free(1)>>

test_mempool_alloc_multiple ==
    [i \in 1..200 |-> IF i % 2 = 1 THEN alloc((i + 1) \div 2, 32)
                                   ELSE assert("not_null", i \div 2)]
    \o [i \in 1..100 |-> free(i)]

test_mempool_alloc_various_sizes ==
    [i \in 1..4 |-> alloc(i, 4 * 4^i)]
    \o [i \in 1..4 |-> assert("not_null", i)]
    \o [i \in 1..3 |-> assert2("distinct", i, i + 1)]
    \o [i \in 1..4 |-> free(i)]

test_mempool_calloc ==
    <<calloc(1, 10, 10), assert("not_null", 1), assert2("contents", 1, "zeros"), free(1)>>

test_mempool_realloc ==
    <<alloc(1, 32), assert("not_null", 1), [op |-> "write", of |-> 1],
      realloc(2, 1, 64), assert("not_null", 2), assert2("contents", 2, "bytes"), free(2)>>

test_mempool_realloc_null ==
    <<realloc(1, NULL, 32), assert("not_null", 1), free(1)>>

test_mempool_free_null == <<free(NULL)>>

test_mempool_stats ==
    <<do("note_free"), alloc(1, 256), alloc(2, 512), do("less_free"), do("two_allocs"),
      free(1), free(2)>>

test_mempool_check ==
    LET checked == <<do("check"), do("check_ok")>>
    IN  checked \o <<alloc(1, 128)>> \o checked \o <<free(1)>> \o checked

test_objpool_basic ==
    Objects(10)
    \o <<assert("objects", 10), acquire(1), assert("not_null", 1), release(1),
         acquire(2), assert2("same", 1, 2), release(2)>>
    \o ObjectsFreed(10)

test_objpool_exhaustion ==
    Objects(3)
    \o [i \in 1..3 |-> acquire(i)] \o [i \in 1..3 |-> assert("not_null", i)]
    \o <<acquire(4), assert("null", 4), release(1), acquire(5), assert("not_null", 5),
         release(2), release(3), release(5)>>
    \o ObjectsFreed(3)

Suite ==
    <<[name |-> "mempool_create",              body |-> test_mempool_create],
      [name |-> "mempool_alloc_basic",         body |-> test_mempool_alloc_basic],
      [name |-> "mempool_alloc_multiple",      body |-> test_mempool_alloc_multiple],
      [name |-> "mempool_alloc_various_sizes", body |-> test_mempool_alloc_various_sizes],
      [name |-> "mempool_calloc",              body |-> test_mempool_calloc],
      [name |-> "mempool_realloc",             body |-> test_mempool_realloc],
      [name |-> "mempool_realloc_null",        body |-> test_mempool_realloc_null],
      [name |-> "mempool_free_null",           body |-> test_mempool_free_null],
      [name |-> "mempool_stats",               body |-> test_mempool_stats],
      [name |-> "mempool_check",               body |-> test_mempool_check],
      [name |-> "objpool_basic",               body |-> test_objpool_basic],
      [name |-> "objpool_exhaustion",          body |-> test_objpool_exhaustion]>>

-----------------------------------------------------------------------------
SuiteInit ==
    /\ Init
    /\ test = 1 /\ step = 0
    /\ ptr = [p \in {NULL} |-> Nil] /\ content = [b \in {} |-> "zeros"]
    /\ free_stack = <<>> /\ total_alloc = 0 /\ initial_free = 0
    /\ failed = {}

Body     == Suite[test].body
finished == test > Len(Suite)
Executes(ops) == ~finished /\ step \in 1..Len(Body) /\ Body[step].op \in ops
Between  == pc[Main] = "idle"     \* no call is running

\* Nobody looks at what create returns.
setUp ==
    /\ ~finished /\ step = 0
    /\ Create([size |-> BufferSize, from |-> "caller"])
    /\ step' = 1
    /\ ptr' = [p \in {NULL} |-> Nil] /\ content' = [b \in {} |-> "zeros"]
    /\ free_stack' = <<>> /\ total_alloc' = 0 /\ initial_free' = 0
    /\ UNCHANGED <<test, failed>>

\* The block a free or a realloc is given.
Given(i) == IF i.op = "free_nth" THEN free_stack[i.of] ELSE ptr[i.of]

\* The call ends before its first step: the pool is not ready, or NULL is freed.
Refused ==
    /\ Executes({"alloc", "prealloc", "calloc", "realloc", "free", "free_nth", "check"}) /\ Between
    /\ LET i == Body[step]
       IN  /\ ~initialized \/ (i.op \in {"free", "free_nth"} /\ Given(i) = Nil)
           /\ ptr' = IF i.op \in {"alloc", "calloc", "realloc"} THEN (i.to :> Nil) @@ ptr ELSE ptr
    /\ step' = step + 1
    /\ UNCHANGED <<vars, test, content, free_stack, total_alloc, initial_free, failed>>

\* A call enters the pool; none of the tests reallocates in place.
CallPool ==
    /\ ~finished /\ step \in 1..Len(Body) /\ Between
    /\ LET i == Body[step]
       IN  \/ i.op \in {"alloc", "prealloc"} /\ Alloc(Main, i.size)
           \/ i.op = "calloc" /\ Calloc(Main, i.count, i.size)
           \/ i.op = "realloc" /\ Given(i) = Nil /\ Alloc(Main, i.size)
           \/ i.op = "realloc" /\ \E h \in held : h.block = Given(i) /\ Realloc(Main, h, i.size)
           \/ i.op \in {"free", "free_nth"} /\ \E h \in held : h.block = Given(i) /\ Free(Main, h)
           \/ i.op = "check" /\ Check(Main)
    /\ UNCHANGED <<test, step, inTest, failed>>

\* The call goes on in the pool, and returns when its thread is idle again.
Work ==
    /\ \/ AllocTake(Main) \/ ReallocFree(Main) \/ FreePush(Main) \/ FreeReturn(Main)
       \/ CheckHead(Main) \/ CheckWalk(Main) \/ CheckCompare(Main)
    /\ step' = IF pc'[Main] = "idle" THEN step + 1 ELSE step
    /\ UNCHANGED <<test, inTest, failed>>

\* The allocation returns: calloc clears the block, realloc copies to it what the
\* old one held before it frees that.
Handed ==
    LET i == Body[step]
        b == block[Main]
    IN  /\ AllocReturn(Main)
        /\ step' = IF pc'[Main] = "idle" THEN step + 1 ELSE step
        /\ ptr' = IF i.op = "prealloc" THEN ptr ELSE (i.to :> b) @@ ptr
        /\ free_stack' = IF i.op = "prealloc" /\ b # Nil THEN Append(free_stack, b) ELSE free_stack
        /\ total_alloc' = IF b # Nil THEN total_alloc + 1 ELSE total_alloc
        /\ content' = IF b # Nil /\ i.op = "calloc" THEN (b :> "zeros") @@ content
                      ELSE IF pc'[Main] = "refree" THEN (b :> content[Given(i)]) @@ content
                      ELSE content
        /\ UNCHANGED <<test, initial_free, failed>>

\* What a test does by itself or in the object pool, which has room for its objects.
Local ==
    /\ Executes({"write", "note_free", "acquire", "release"}) /\ Between
    /\ LET i == Body[step]
           top == Len(free_stack)
       IN  \/ /\ i.op = "write"
              /\ content' = (Given(i) :> "bytes") @@ content
              /\ UNCHANGED <<ptr, free_stack, initial_free>>
           \/ /\ i.op = "note_free"
              /\ initial_free' = free_size
              /\ UNCHANGED <<ptr, content, free_stack>>
           \/ /\ i.op = "acquire"
              /\ ptr' = (i.to :> IF top = 0 THEN Nil ELSE free_stack[top]) @@ ptr
              /\ free_stack' = SubSeq(free_stack, 1, top - 1)
              /\ UNCHANGED <<content, initial_free>>
           \/ /\ i.op = "release"
              /\ free_stack' = IF Given(i) = Nil THEN free_stack ELSE Append(free_stack, Given(i))
              /\ UNCHANGED <<ptr, content, initial_free>>
    /\ step' = step + 1
    /\ UNCHANGED <<vars, test, total_alloc, failed>>

Holds(i) ==
    \/ i.op = "as_created" /\ initialized /\ pool_size = BufferSize
    \/ i.op = "not_null" /\ ptr[i.of] # Nil
    \/ i.op = "null" /\ ptr[i.of] = Nil
    \/ i.op = "aligned" /\ (ptr[i.of] + Header) % 8 = 0
    \/ i.op = "distinct" /\ ptr[i.of] # ptr[i.and]
    \/ i.op = "same" /\ ptr[i.of] = ptr[i.and]
    \/ i.op = "contents" /\ content[ptr[i.of]] = i.and
    \/ i.op = "less_free" /\ free_size < initial_free
    \/ i.op = "two_allocs" /\ total_alloc = 2
    \/ i.op = "check_ok" /\ initialized /\ verdict[Main] = "ok"
    \/ i.op = "objects" /\ Len(free_stack) = i.of

Asserted ==
    /\ Executes({"as_created", "not_null", "null", "aligned", "distinct", "same", "contents",
                 "less_free", "two_allocs", "check_ok", "objects"}) /\ Between
    /\ IF Holds(Body[step])
       THEN step' = step + 1 /\ UNCHANGED failed
       ELSE step' = Len(Body) + 1 /\ failed' = failed \cup {Suite[test].name}
    /\ UNCHANGED <<vars, test, inTest>>

\* The static buffer does not begin on a page: munmap refuses it, and it stays.
tearDown ==
    /\ ~finished /\ step = Len(Body) + 1
    /\ IF initialized THEN Destroy ELSE UNCHANGED vars
    /\ test' = test + 1 /\ step' = 0
    /\ UNCHANGED <<inTest, failed>>

SuiteNext == setUp \/ Refused \/ CallPool \/ Work \/ Handed \/ Local \/ Asserted \/ tearDown

SuiteSpec == SuiteInit /\ [][SuiteNext]_tvars

-----------------------------------------------------------------------------
\* UNITY_END: no assertion of any unit test has failed when the program ends.
SuitePasses == finished => failed = {}
=============================================================================

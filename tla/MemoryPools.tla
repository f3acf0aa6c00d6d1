----------------------------- MODULE MemoryPools -----------------------------
(***************************************************************************)
(* MemoryUsagePool and MemoryFramePool (device/memory_usage_pool.cc,        *)
(* memory_frame_pool.cc), call by call, and their unit tests as formulas.   *)
(* Every call but the run of a callback is one critical section.  A buffer  *)
(* is a number, and 0 is NULL.  A run that instantiates this module         *)
(* evaluates the formulas.                                                  *)
(***************************************************************************)
EXTENDS Integers, Sequences, SequencesExt, FiniteSets

---------------------------------------------------------------------------
(* MemoryUsagePool; told has what each run callback was given.              *)

UsagePool(memory_limit) ==
  [memory_limit |-> memory_limit, memory_usage |-> 0, alloced |-> <<>>, last |-> 0, made |-> 0,
   need_call |-> FALSE, need_amount |-> -1, told |-> <<>>]

Left(pool) == pool.memory_limit - pool.memory_usage
HitCeiling(pool, size) == size + pool.memory_usage > pool.memory_limit

\* last is what the call returned
Alloc(pool, size) ==
  IF HitCeiling(pool, size) THEN [pool EXCEPT !.last = 0]
  ELSE [pool EXCEPT !.made = @ + 1, !.last = pool.made + 1, !.memory_usage = @ + size,
                    !.alloced = (pool.made + 1 :> size) @@ @]

Free(pool, buffer) ==
  LET freed == [pool EXCEPT !.memory_usage = @ - pool.alloced[buffer],
                            !.alloced = [b \in DOMAIN @ \ {buffer} |-> @[b]]]
  IN IF pool.need_call /\ pool.need_amount <= Left(freed)
     THEN [freed EXCEPT !.need_call = FALSE, !.told = Append(@, Left(freed))]
     ELSE freed

\* the quick path leaves an earlier callback as it is
SetFreeCallback(pool, amount) ==
  IF Left(pool) < amount THEN [pool EXCEPT !.need_call = TRUE, !.need_amount = amount]
  ELSE [pool EXCEPT !.told = Append(@, Left(pool))]

CancelCallback(pool) == [pool EXCEPT !.need_call = FALSE, !.need_amount = -1]

\* memory_usage_pool_unittest.cc
UsageTestAlloc ==
  LET first == Alloc(UsagePool(100), 10)
      second == Alloc(first, 30)
      third == Alloc(second, 61)
      again == Alloc(Free(third, first.last), 61)
      end == Free(Free(again, second.last), again.last)
  IN first.last # 0 /\ second.last # 0 /\ third.last = 0 /\ again.last # 0 /\ Left(end) = 100

UsageTestFreeCallback ==
  LET AllocFree(pool, size) == LET p == Alloc(pool, size) IN Free(p, p.last)
      quick == SetFreeCallback(UsagePool(100), 50)
      left51 == SetFreeCallback(Alloc(quick, 49), 50)
      used == AllocFree(AllocFree(Free(left51, left51.last), 10), 41)
      armed == SetFreeCallback(Alloc(used, 51), 50)
  IN /\ quick.told = <<100>> /\ left51.told = <<100, 51>> /\ used.told = left51.told
     /\ armed.told = used.told /\ Free(armed, armed.last).told = <<100, 51, 100>>

\* Whatever the calls, the usage is that of the buffers and within the limit, a
\* callback runs with what was asked for, and one that has not run is still
\* short of memory: no Free passes it by.
UsageCalls == ({"alloc", "callback"} \X (1 .. 3)) \cup ({"free"} \X (1 .. 2)) \cup {<<"cancel", 0>>}
UsageCall(pool, call) ==
  CASE call[1] = "alloc" -> Alloc(pool, call[2])
    [] call[1] = "callback" -> SetFreeCallback(pool, call[2])
    [] call[1] = "cancel" -> CancelCallback(pool)
    [] call[1] = "free" -> IF call[2] \in DOMAIN pool.alloced THEN Free(pool, call[2]) ELSE pool
UsageHolds ==
  \A calls \in [1 .. 5 -> UsageCalls] :
    LET pool == FoldLeft(UsageCall, UsagePool(3), calls)
    IN /\ pool.memory_usage
            = FoldLeft(LAMBDA sum, b : sum + pool.alloced[b], 0, SetToSeq(DOMAIN pool.alloced))
       /\ pool.memory_usage \in 0 .. 3
       /\ pool.need_call => Left(pool) < pool.need_amount

---------------------------------------------------------------------------
(* MemoryFramePool; told counts the runs of the callback.                   *)

FramePool(pool_size) ==
  [pool_size |-> pool_size, free |-> <<>>, alloced |-> {}, last |-> 0, made |-> 0,
   have_free |-> FALSE, told |-> 0]

FramesLeft(pool) == pool.pool_size - Cardinality(pool.alloced)
HitFrameCeiling(pool) == Cardinality(pool.alloced) + Len(pool.free) >= pool.pool_size

\* a frame that was given back is taken again
AllocFrame(pool) ==
  LET made == pool.made + 1
  IN CASE pool.free # <<>> ->
            [pool EXCEPT !.free = Tail(@), !.last = Head(pool.free),
                         !.alloced = @ \cup {Head(pool.free)}]
       [] pool.free = <<>> /\ HitFrameCeiling(pool) -> [pool EXCEPT !.last = 0]
       [] pool.free = <<>> /\ ~HitFrameCeiling(pool) ->
            [pool EXCEPT !.made = made, !.last = made, !.alloced = @ \cup {made}]

\* only the first of the frames that are free is told of
FreeFrame(pool, frame) ==
  [pool EXCEPT !.alloced = @ \ {frame}, !.free = Append(@, frame),
               !.told = IF pool.free = <<>> /\ pool.have_free THEN @ + 1 ELSE @]

SetHaveFreeCallback(pool) ==
  [pool EXCEPT !.have_free = TRUE, !.told = IF pool.free # <<>> THEN @ + 1 ELSE @]

\* memory_frame_pool_unittest.cc
FrameTestAlloc ==
  LET two == AllocFrame(AllocFrame(FramePool(3)))
      three == AllocFrame(two)
      four == AllocFrame(three)
      again == AllocFrame(FreeFrame(four, three.last))
  IN FramesLeft(two) = 1 /\ three.last # 0 /\ four.last = 0 /\ again.last = three.last

FrameTestFreeCallback ==
  LET frame == AllocFrame(SetHaveFreeCallback(FramePool(1)))
      freed == FreeFrame(frame, frame.last)
      again == AllocFrame(freed)
  IN frame.told = 0 /\ freed.told = 1 /\ FreeFrame(again, again.last).told = 2

\* Whatever the calls, no frame is both given out and free, and Alloc fails when
\* as many are out as the pool has, and only then.
FrameCalls == {"alloc", "callback", "free 1", "free 2"}
FrameCall(pool, call) ==
  CASE call = "alloc" -> AllocFrame(pool)
    [] call = "callback" -> SetHaveFreeCallback(pool)
    [] call = "free 1" -> IF 1 \in pool.alloced THEN FreeFrame(pool, 1) ELSE pool
    [] call = "free 2" -> IF 2 \in pool.alloced THEN FreeFrame(pool, 2) ELSE pool
FramesHold ==
  \A calls \in [1 .. 5 -> FrameCalls] :
    LET pool == FoldLeft(FrameCall, FramePool(2), calls)
    IN /\ pool.alloced \cap ToSet(pool.free) = {} /\ IsInjective(pool.free)
       /\ AllocFrame(pool).last = 0 <=> FramesLeft(pool) = 0

\* all of them
MemoryPoolsHold ==
  /\ UsageTestAlloc /\ UsageTestFreeCallback /\ UsageHolds
  /\ FrameTestAlloc /\ FrameTestFreeCallback /\ FramesHold
===============================================================================

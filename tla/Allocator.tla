----------------------------- MODULE Allocator -----------------------------
(***************************************************************************)
(* The memory allocator of a partition (src/libpok/core/allocator.c): a    *)
(* table of spaces, split by malloc and merged by free.  One thread uses   *)
(* it: it has no lock.                                                     *)
(***************************************************************************)
EXTENDS Integers, FiniteSets, FiniteSetsExt, SequencesExt

CONSTANTS
  MemorySize,   \* POK_CONFIG_ALLOCATOR_MEMORY_SIZE
  NbSpaces,     \* POK_CONFIG_ALLOCATOR_NB_SPACES
  Sizes         \* sizes that the program asks for

VARIABLES
  spaces,   \* pok_allocator_spaces
  used,     \* pok_allocator_used_spaces
  chunks    \* start and size of what the program has been given

vars == <<spaces, used, chunks>>

(* spaces[NbSpaces] is what follows the table, which a deletion reads.     *)
Space(start, size, allocated) ==
  [start |-> start, size |-> size, allocated |-> allocated]

(* POK_ALLOCATOR_CHECK_INIT.                                               *)
Init ==
  /\ spaces = [i \in 0..NbSpaces |->
                 Space(0, IF i = 0 THEN MemorySize ELSE 0, FALSE)]
  /\ used = 1
  /\ chunks = {}

End(s) == s.start + s.size
-----------------------------------------------------------------------------
(* pok_allocator_allocate: the first space that is large enough, split if  *)
(* it is larger.                                                           *)
Fitting(n) ==
  {i \in 0..(used - 1) : ~spaces[i].allocated /\ spaces[i].size >= n}

Split(i, n) ==
  [spaces EXCEPT
     ![i] = Space(@.start, n, TRUE),
     ![used] = IF spaces[i].size = n THEN @
               ELSE Space(spaces[i].start + n, spaces[i].size - n, FALSE)]

Allocate(n) ==
  /\ used < NbSpaces - 1 /\ Fitting(n) # {}
  /\ LET i == Min(Fitting(n))
     IN  /\ spaces' = Split(i, n)
         /\ used' = IF spaces[i].size = n THEN used ELSE used + 1
         /\ chunks' = chunks \union {<<spaces[i].start, n>>}
-----------------------------------------------------------------------------
(* A table T under change: spaces, used, and the space that                *)
(* pok_allocator_merge_space looks at, or -1 when it has returned.         *)

(* pok_allocator_delete_space, and the call of merge_space that follows.   *)
Deleted(T, i, next) ==
  [sp |-> [j \in 0..NbSpaces |->
             IF j < i \/ j = NbSpaces THEN T.sp[j] ELSE T.sp[j + 1]],
   used |-> T.used - 1, space |-> next]

Touching(T) ==
  {j \in 0..(T.used - 1) \ {T.space} :
     /\ ~T.sp[j].allocated
     /\ \/ T.sp[T.space].start = End(T.sp[j])
        \/ T.sp[j].start = End(T.sp[T.space])}

(* One call of pok_allocator_merge_space: space goes into the one before   *)
(* it, or takes the one behind it.  Either way it calls itself for the     *)
(* number that the other one had before the deletion.                      *)
MergeOnce(T) ==
  IF T.space = -1 \/ T.used = 1 \/ Touching(T) = {} THEN [T EXCEPT !.space = -1]
  ELSE
    LET i == T.space
        j == Min(Touching(T))
        size == T.sp[i].size + T.sp[j].size
    IN  IF T.sp[i].start = End(T.sp[j])
        THEN Deleted([T EXCEPT !.sp[j].size = size], i, j)
        ELSE Deleted([T EXCEPT !.sp[i].size = size], j, j)

Merge(T) == FoldLeft(LAMBDA S, k : MergeOnce(S), T, [k \in 1..NbSpaces |-> k])

(* pok_allocator_free of the first space that starts where the chunk does. *)
Free(chunk) ==
  /\ chunks' = chunks \ {chunk}
  /\ LET at == {i \in 0..(used - 1) : spaces[i].start = chunk[1]}
         T  == Merge([sp |-> [spaces EXCEPT ![Min(at)].allocated = FALSE],
                      used |-> used, space |-> Min(at)])
     IN  IF at = {} THEN UNCHANGED <<spaces, used>>
         ELSE spaces' = T.sp /\ used' = T.used

Next ==
  \/ \E n \in Sizes : Allocate(n)
  \/ \E chunk \in chunks : Free(chunk)

Spec == Init /\ [][Next]_vars
-----------------------------------------------------------------------------
(* pok_allocator_free: "This function frees memory.  The argument is a     *)
(* previously allocated memory chunk" (allocator.h): the memory of the     *)
(* other chunks is not free.                                               *)
ChunksKept ==
  \A c \in chunks : \A i \in 0..(used - 1) :
    ~spaces[i].allocated =>
      End(spaces[i]) <= c[1] \/ c[1] + c[2] <= spaces[i].start
=============================================================================

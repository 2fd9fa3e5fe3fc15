---------------------------- MODULE JitterBuffer ----------------------------
(***************************************************************************)
(* JitterBuffer of packages/core/src/jitter-buffer.ts: encoded chunks sorted *)
(* by timestamp, equal timestamps in the order of insertion, the oldest      *)
(* dropped beyond the capacity.                                              *)
(*                                                                           *)
(* A chunk is a record with at least `ts', its timestamp, and `id', the      *)
(* number of its arrival, which the code does not have.  The scheduler (module *)
(* Scheduler) is its only user: it pushes, looks at the head and takes it.    *)
(***************************************************************************)
EXTENDS Integers, Sequences, SequencesExt

CONSTANT Capacity    \* JitterBufferOptions.capacity

VARIABLES
    items,        \* JitterBuffer.items
    overflowed    \* history: chunks dropped by push() for want of room

\* Mutant of SearchFrom: equal timestamps go before the ones already there.
SearchUnstable(s, ts) ==
    LET search[range \in (0..Len(s)) \X (0..Len(s))] ==
            LET low == range[1]
                high == range[2]
                mid == (low + high) \div 2
            IN  IF low >= high THEN low
                ELSE IF s[mid + 1].ts < ts THEN search[<<mid + 1, high>>]
                ELSE search[<<low, mid>>]
    IN  search[<<0, Len(s)>>]

\* push()'s binary search for the first position after `low' whose chunk is
\* newer than `ts', in s[low + 1 .. high].
SearchFrom(s, ts) ==
    LET search[range \in (0..Len(s)) \X (0..Len(s))] ==
            LET low == range[1]
                high == range[2]
                mid == (low + high) \div 2
            IN  IF low >= high THEN low
                ELSE IF s[mid + 1].ts <= ts THEN search[<<mid + 1, high>>]
                ELSE search[<<low, mid>>]
    IN  search[<<0, Len(s)>>]

Insert(s, chunk) == InsertAt(s, SearchFrom(s, chunk.ts) + 1, chunk)

Overflow(s) == IF Len(s) > Capacity THEN Len(s) - Capacity ELSE 0

\* push().
Push(chunk) ==
    LET all == Insert(items, chunk)
        overflow == Overflow(all)
    IN  /\ items' = SubSeq(all, overflow + 1, Len(all))
        /\ overflowed' = overflowed \cup ToSet(SubSeq(all, 1, overflow))

=============================================================================

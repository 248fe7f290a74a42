----------------------------- MODULE DiskCache -----------------------------
(***************************************************************************)
(* The reads of the NTFS pass: FfiReader::read_at asks kaifuku_pread until *)
(* it has all it wants, and that asks the read cache of hdcache.c, a ring  *)
(* of the last reads of the device with what the device answered to each.  *)
(* The device may fail at any read, or end one early.                      *)
(*                                                                         *)
(* Addresses count sectors and every read is of whole sectors.  Sector a   *)
(* holds a.  The device is opened for reading only: nothing is written.    *)
(***************************************************************************)
EXTENDS Integers, Sequences

CONSTANTS
    NSectors,          \* sectors of the device
    CACHE_BUFFER_NBR,
    cache_size_min,    \* the least the cache reads ahead
    MaxRead,           \* bound: sectors of one read_at
    Zero               \* what a sector that could not be read is filled with

ASSUME CacheAssumption ==
    /\ { NSectors, CACHE_BUFFER_NBR, MaxRead } \subseteq Nat \ {0}
    /\ cache_size_min \in Nat
    /\ Zero \notin Nat

VARIABLES
    cache,              \* the ring of reads
    cache_buffer_nbr,   \* the newest of them
    last_io_error_nbr,  \* failed reads in a row; 2 stands for more than one
    request,            \* what read_at is to read and how much it has got
    buffer,             \* its buffer
    call,               \* cache_pread_aux: how much is done of its part of the
                        \* request and of what is read sector by sector, the sum
                        \* of the answers, and whether it reads ahead
    pc

vars == << cache, cache_buffer_nbr, last_io_error_nbr, request, buffer, call, pc >>

Ring == 0 .. CACHE_BUFFER_NBR - 1
Empty == [ offset |-> 0, size |-> 0, status |-> 0, data |-> << >> ]
NoCall == [ done |-> 0, split |-> 0, sum |-> 0, read_ahead |-> 0 ]

Init ==
    /\ cache = [ i \in Ring |-> Empty ]
    /\ cache_buffer_nbr = 0
    /\ last_io_error_nbr = 0
    /\ request = [ offset |-> 0, size |-> 0, got |-> 0 ]
    /\ buffer = << >>
    /\ call = NoCall
    /\ pc = "idle"

-----------------------------------------------------------------------------
(* FfiReader::read_at, kaifuku_pread *)

read_at(offset, size) ==
    /\ pc \in { "idle", "ok", "err" }
    /\ request' = [ offset |-> offset, size |-> size, got |-> 0 ]
    /\ buffer' = [ k \in 1 .. size |-> Zero ]
    /\ pc' = "pread"
    /\ UNCHANGED << cache, cache_buffer_nbr, last_io_error_nbr, call >>

\* cache_pread: no reading ahead once a read has failed.
cache_pread ==
    /\ pc = "pread"
    /\ call' = [ NoCall EXCEPT !.read_ahead = IF last_io_error_nbr = 0 THEN 1 ELSE 0 ]
    /\ pc' = "lookup"
    /\ UNCHANGED << cache, cache_buffer_nbr, last_io_error_nbr, request, buffer >>

\* What is asked of the cache, where it goes on and what is left to read.
Count == request.size - request.got
Left  == Count - call.done
At    == request.offset + request.got + call.done

\* Mutated form: an answer of no sectors is no failure.
FailedBelowZero == call.sum < 0

Failed == call.sum <= 0

\* The answer of cache_pread is taken for that many sectors at the front.
Answered ==
    /\ pc = "answer"
    /\ request' = IF Failed THEN request ELSE [ request EXCEPT !.got = @ + call.sum ]
    /\ pc' = IF Failed THEN "err" ELSE IF request'.got < request.size THEN "pread" ELSE "ok"
    /\ UNCHANGED << cache, cache_buffer_nbr, last_io_error_nbr, buffer, call >>

-----------------------------------------------------------------------------
(* cache_pread_aux *)

Holds(e, a) == e.offset <= a /\ a < e.offset + e.size

\* The newest entry that holds a sector; age counts from the newest one.
Aged(age) == (cache_buffer_nbr + CACHE_BUFFER_NBR - age) % CACHE_BUFFER_NBR

IsHit(i, a) ==
    \E age \in Ring :
        /\ i = Aged(age) /\ Holds(cache[i], a)
        /\ \A younger \in 0 .. age - 1 : ~ Holds(cache[Aged(younger)], a)

Miss(a) == \A i \in Ring : ~ Holds(cache[i], a)

\* memcpy of n sectors from an entry at address a on.
Copied(e, a, n) ==
    [ k \in DOMAIN buffer |->
        LET b == request.offset + k - 1
        IN  IF a <= b /\ b < a + n THEN e.data[b - e.offset + 1] ELSE buffer[k] ]

Available(e) == e.offset + e.size - At

\* The part of the status of an entry that is behind the address.
res(e) == e.status + e.offset - At

Answer(r) == call' = [ call EXCEPT !.sum = @ + r ] /\ pc' = "answer"

HitWhole ==
    /\ pc = "lookup"
    /\ \E i \in Ring :
          LET e == cache[i]
          IN  /\ IsHit(i, At) /\ Left <= Available(e)
              /\ buffer' = Copied(e, At, Left)
              /\ Answer(IF res(e) < Left THEN res(e) ELSE Left)
    /\ UNCHANGED << cache, cache_buffer_nbr, last_io_error_nbr, request >>

\* The rest is looked up by the same function, and its answer is added to what
\* this entry gave.
HitPart ==
    /\ pc = "lookup"
    /\ \E i \in Ring :
          LET e == cache[i]
          IN  /\ IsHit(i, At) /\ Left > Available(e)
              /\ buffer' = Copied(e, At, Available(e))
              /\ call' = [ call EXCEPT !.done = @ + Available(e), !.sum = @ + res(e) ]
    /\ UNCHANGED << cache, cache_buffer_nbr, last_io_error_nbr, request, pc >>

\* The read of n sectors at a that the device answers with status: up to the
\* first it cannot read, -1 (a byte, here rounded to a sector) when that is the
\* first one.  The rest is zero.
DeviceRead(a, n, status) ==
    [ offset |-> a, size |-> n, status |-> status,
      data |-> [ k \in 1 .. n |-> IF k <= status THEN a + k - 1 ELSE Zero ] ]

\* What the device may answer: it ends at NSectors.
Statuses(a, n) == { -1 } \cup { k \in 1 .. n : a + k <= NSectors }

Oldest == (cache_buffer_nbr + 1) % CACHE_BUFFER_NBR

CountNew ==
    IF call.read_ahead # 0 /\ Left < cache_size_min /\ At + cache_size_min < NSectors
      THEN cache_size_min ELSE Left

FailsAgain == IF last_io_error_nbr = 0 THEN 1 ELSE 2

\* Mutated form: any sector will do.
EnoughIfAny(status) == status > 0

\* What was read ahead may be missing.
Enough(status) == status >= Left

Fill ==
    /\ pc = "lookup" /\ Miss(At)
    /\ cache_buffer_nbr' = Oldest
    /\ \E status \in Statuses(At, CountNew) :
          LET e == DeviceRead(At, CountNew, status)
          IN  \/ /\ Enough(status)
                 /\ last_io_error_nbr' = 0
                 /\ cache' = [ cache EXCEPT ![Oldest] = e ]
                 /\ buffer' = Copied(e, At, Left)
                 /\ Answer(Left)
              \/ /\ ~ Enough(status)
                 /\ CountNew <= 1 \/ last_io_error_nbr > 0
                 /\ last_io_error_nbr' = FailsAgain
                 /\ cache' = [ cache EXCEPT ![Oldest] = e ]
                 /\ buffer' = Copied(e, At, Left)
                 /\ Answer(status)
              \/ /\ ~ Enough(status)
                 /\ CountNew > 1 /\ last_io_error_nbr = 0
                 /\ last_io_error_nbr' = FailsAgain
                 /\ cache' = [ cache EXCEPT ![Oldest] = Empty ]
                 /\ buffer' = Copied(DeviceRead(At, Left, 0), At, Left)
                 /\ pc' = "split" /\ UNCHANGED call
    /\ UNCHANGED request

\* One sector of a read that is split: found, or read for itself.  The first
\* that cannot be read ends it.
Sector == At + call.split

SplitAnswer(e) ==
    /\ buffer' = Copied(e, Sector, 1)
    /\ IF e.status + e.offset - Sector <= 0 THEN Answer(call.split)
       ELSE IF call.split + 1 = Left THEN Answer(Left)
       ELSE call' = [ call EXCEPT !.split = @ + 1 ] /\ UNCHANGED pc

SplitHit ==
    /\ pc = "split"
    /\ \E i \in Ring : IsHit(i, Sector) /\ SplitAnswer(cache[i])
    /\ UNCHANGED << cache, cache_buffer_nbr, last_io_error_nbr, request >>

SplitRead ==
    /\ pc = "split" /\ Miss(Sector)
    /\ cache_buffer_nbr' = Oldest
    /\ \E status \in Statuses(Sector, 1) :
          LET e == DeviceRead(Sector, 1, status)
          IN  /\ cache' = [ cache EXCEPT ![Oldest] = e ]
              /\ last_io_error_nbr' = IF status = 1 THEN 0 ELSE FailsAgain
              /\ SplitAnswer(e)
    /\ UNCHANGED request

Reading ==
    cache_pread \/ HitWhole \/ HitPart \/ Fill \/ SplitHit \/ SplitRead \/ Answered

Next ==
    \/ \E offset \in 0 .. NSectors - 1, size \in 1 .. MaxRead :
          offset + size <= NSectors /\ read_at(offset, size)
    \/ Reading

\* A read that was begun goes on in its thread.
Spec == Init /\ [][Next]_vars /\ WF_vars(Reading)

-----------------------------------------------------------------------------
(* Properties *)

\* The sectors of the request that the call is about.
Asked == request.got + 1 .. request.size

\* When cache_pread answers that it has read all it was asked for, all of it is
\* what the disk holds, whichever entries of the ring and reads of single
\* sectors it was put together from (hdcache.c:114, 159-175).
WholeTrue ==
    pc = "answer" /\ call.sum = Count =>
        \A k \in Asked : buffer[k] = request.offset + k - 1

\* A read that was begun is answered.
ReadEnds == pc = "pread" ~> pc \in { "ok", "err" }

\* ntfs.rs:82 of Reader::read_at: "Read exactly `buf.len()` bytes at absolute
\* byte `offset`."
ReadExactly ==
    pc = "ok" => \A k \in DOMAIN buffer : buffer[k] = request.offset + k - 1
=============================================================================

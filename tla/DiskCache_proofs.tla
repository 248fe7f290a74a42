-------------------------- MODULE DiskCache_proofs --------------------------
(***************************************************************************)
(* For any device, ring and read-ahead: an answer of everything asked for  *)
(* is made of what the disk holds.  The invariant that carries the proof   *)
(* says of every entry of the ring that it is true as far as its status,   *)
(* and of the sum of answers that it reaches what was copied only when all *)
(* that was copied is true: each entry adds no more than it copied.        *)
(***************************************************************************)
EXTENDS DiskCache, TLAPS

\* An entry holds what the disk holds as far as its status goes.
EntryTrue(e) ==
    /\ e.offset \in Nat /\ e.size \in Nat /\ e.status \in Int
    /\ e.status <= e.size
    /\ \A b \in Nat : e.offset <= b /\ b < e.offset + e.status => e.data[b - e.offset + 1] = b

\* The sectors of the request from the m-th to the n-th have been read.
TrueIn(b, m, n) == \A k \in 1 .. request.size : m <= k /\ k <= n => b[k] = request.offset + k - 1

CacheTypeOK ==
    /\ request \in [ offset : Nat, size : Nat, got : Nat ]
    /\ request.got <= request.size
    /\ call \in [ done : Nat, split : Nat, sum : Int, read_ahead : Nat ]
    /\ DOMAIN buffer = 1 .. request.size
    /\ DOMAIN cache = Ring
    /\ pc \in { "idle", "pread", "lookup", "split", "answer", "ok", "err" }

CallInv ==
    /\ pc = "pread" => request.got < request.size
    /\ pc \in { "lookup", "split" } =>
          /\ call.done < Count /\ call.sum <= call.done
          /\ call.sum = call.done => TrueIn(buffer, request.got + 1, request.got + call.done)
    /\ pc = "lookup" => call.split = 0
    /\ pc = "split" =>
          /\ call.split < Left
          /\ TrueIn(buffer, request.got + call.done + 1, request.got + call.done + call.split)
    /\ pc = "answer" =>
          /\ call.sum <= Count
          /\ call.sum = Count => TrueIn(buffer, request.got + 1, request.size)

CacheInv == CacheTypeOK /\ (\A i \in Ring : EntryTrue(cache[i])) /\ CallInv

-----------------------------------------------------------------------------
(* Lemmas *)

\* The sector of the disk that position k of the buffer is for.
At0(k) == request.offset + k - 1

\* A copy from an entry writes what the disk holds as far as the status of the
\* entry goes, and leaves the rest of the buffer alone (hdcache.c:102, 113).
LEMMA CopiedTrue ==
    ASSUME CacheTypeOK, NEW e, EntryTrue(e), NEW a \in Nat, e.offset <= a,
           NEW n \in Nat
    PROVE  /\ DOMAIN Copied(e, a, n) = 1 .. request.size
           /\ \A k \in 1 .. request.size :
                /\ a <= At0(k) /\ At0(k) < a + n /\ At0(k) < e.offset + e.status
                      => Copied(e, a, n)[k] = At0(k)
                /\ At0(k) < a \/ a + n <= At0(k) => Copied(e, a, n)[k] = buffer[k]
<1>1. request.offset \in Nat /\ DOMAIN buffer = 1 .. request.size /\ request.size \in Nat
  BY DEF CacheTypeOK
<1>2. DOMAIN Copied(e, a, n) = 1 .. request.size
  BY <1>1 DEF Copied
<1>3. ASSUME NEW k \in 1 .. request.size
      PROVE  /\ a <= At0(k) /\ At0(k) < a + n /\ At0(k) < e.offset + e.status
                   => Copied(e, a, n)[k] = At0(k)
             /\ At0(k) < a \/ a + n <= At0(k) => Copied(e, a, n)[k] = buffer[k]
  <2>1. Copied(e, a, n)[k] =
          IF a <= At0(k) /\ At0(k) < a + n THEN e.data[At0(k) - e.offset + 1] ELSE buffer[k]
    BY <1>1 DEF Copied, At0
  <2>2. At0(k) \in Nat
    BY <1>1 DEF At0
  <2>3. a <= At0(k) /\ At0(k) < e.offset + e.status => e.data[At0(k) - e.offset + 1] = At0(k)
    BY <2>2 DEF EntryTrue
  <2>4. ~ (At0(k) < a \/ a + n <= At0(k)) <=> a <= At0(k) /\ At0(k) < a + n
    BY <2>2
  <2> QED
    BY <2>1, <2>3, <2>4
<1> QED
  BY <1>2, <1>3

\* A copy behind what has been read keeps that, and extends it by as much of the
\* copy as the status of the entry covers.
LEMMA CopyExtends ==
    ASSUME CacheTypeOK, NEW e, EntryTrue(e), NEW a \in Nat, e.offset <= a, NEW n \in Nat,
           buffer' = Copied(e, a, n), request' = request,
           NEW m \in Nat, NEW l \in Nat, TrueIn(buffer, m, l), request.offset + l <= a
    PROVE  /\ TrueIn(buffer', m, l)
           /\ a = request.offset + l /\ a + n <= e.offset + e.status => TrueIn(buffer', m, l + n)
<1>1. request.offset \in Nat /\ request.size \in Nat /\ e.offset \in Nat /\ e.status \in Int
  BY DEF CacheTypeOK, EntryTrue
<1>2. \A k \in 1 .. request.size :
         /\ a <= At0(k) /\ At0(k) < a + n /\ At0(k) < e.offset + e.status => buffer'[k] = At0(k)
         /\ At0(k) < a \/ a + n <= At0(k) => buffer'[k] = buffer[k]
  BY CopiedTrue
<1>3. ASSUME NEW k \in 1 .. request.size, m <= k, k <= l
      PROVE  buffer'[k] = At0(k)
  <2>1. At0(k) < a
    BY <1>1, <1>3 DEF At0
  <2>2. buffer[k] = At0(k)
    BY <1>3 DEF TrueIn, At0
  <2> QED
    BY <1>2, <2>1, <2>2
<1>4. ASSUME a = request.offset + l, a + n <= e.offset + e.status,
             NEW k \in 1 .. request.size, l < k, k <= l + n
      PROVE  buffer'[k] = At0(k)
  <2>1. a <= At0(k) /\ At0(k) < a + n
    BY <1>1, <1>4 DEF At0
  <2>2. At0(k) < e.offset + e.status
    BY <2>1, <1>1, <1>4 DEF At0
  <2> QED
    BY <1>2, <2>1, <2>2
<1>5. TrueIn(buffer', m, l)
  BY <1>3 DEF TrueIn, At0
<1>6. ASSUME a = request.offset + l, a + n <= e.offset + e.status
      PROVE  TrueIn(buffer', m, l + n)
  <2>1. ASSUME NEW k \in 1 .. request.size, m <= k, k <= l + n
        PROVE  buffer'[k] = At0(k)
    BY <1>1, <1>3, <1>4, <1>6, <2>1
  <2> QED
    BY <2>1 DEF TrueIn, At0
<1> QED
  BY <1>5, <1>6

\* What the device answers is an entry that is true as far as its status goes
\* (file_pread_aux fills the rest with zeroes).
LEMMA DeviceReadTrue ==
    ASSUME NEW a \in Nat, NEW n \in Nat, NEW status \in Int, status <= n
    PROVE  /\ EntryTrue(DeviceRead(a, n, status))
           /\ DeviceRead(a, n, status).offset = a
           /\ DeviceRead(a, n, status).size = n
           /\ DeviceRead(a, n, status).status = status
<1> DEFINE e == DeviceRead(a, n, status)
<1>1. e.offset = a /\ e.size = n /\ e.status = status
      /\ e.data = [ k \in 1 .. n |-> IF k <= status THEN a + k - 1 ELSE Zero ]
  BY DEF DeviceRead
<1>2. ASSUME NEW b \in Nat, a <= b, b < a + status
      PROVE  e.data[b - a + 1] = b
  <2>1. b - a + 1 \in 1 .. n /\ b - a + 1 <= status
    BY <1>2
  <2> HIDE DEF e
  <2> QED
    BY <1>1, <2>1
<1> HIDE DEF e
<1> QED
  BY <1>1, <1>2 DEF EntryTrue, e

LEMMA EmptyTrue == EntryTrue(Empty)
BY DEF EntryTrue, Empty

\* The ring stays true when one of its entries is replaced by a true one.
LEMMA RingKept ==
    ASSUME DOMAIN cache = Ring, \A i \in Ring : EntryTrue(cache[i]),
           NEW j, NEW e, EntryTrue(e), cache' = [ cache EXCEPT ![j] = e ]
    PROVE  DOMAIN cache' = Ring /\ \A i \in Ring : EntryTrue(cache'[i])
<1>1. DOMAIN cache' = Ring
  OBVIOUS
<1>2. ASSUME NEW i \in Ring PROVE cache'[i] = e \/ cache'[i] = cache[i]
  OBVIOUS
<1> QED
  BY <1>1, <1>2

\* The sizes of a call: what is left of it is at least one sector.
LEMMA CallTypes ==
    ASSUME CacheInv
    PROVE  /\ request.offset \in Nat /\ request.size \in Nat /\ request.got \in Nat
           /\ call.done \in Nat /\ call.split \in Nat /\ call.sum \in Int
           /\ Count \in Nat /\ At \in Nat /\ Left \in Int /\ Left = Count - call.done
           /\ Count = request.size - request.got
           /\ At = request.offset + request.got + call.done
           /\ pc \in { "lookup", "split" } => Left \in Nat /\ Left > 0
<1>1. request \in [ offset : Nat, size : Nat, got : Nat ] /\ request.got <= request.size
      /\ call \in [ done : Nat, split : Nat, sum : Int, read_ahead : Nat ]
  BY DEF CacheInv, CacheTypeOK
<1>2. pc \in { "lookup", "split" } => call.done < Count
  BY DEF CacheInv, CallInv
<1> QED
  BY <1>1, <1>2 DEF Count, Left, At

LEMMA CountNewType ==
    ASSUME CacheAssumption, CacheInv, pc = "lookup"
    PROVE  CountNew \in Nat /\ CountNew >= Left
BY CallTypes DEF CountNew, CacheAssumption

-----------------------------------------------------------------------------
(* The invariant *)

LEMMA CacheInit == Init => CacheInv
<1> SUFFICES ASSUME Init PROVE CacheInv
  OBVIOUS
<1>1. CacheTypeOK
  BY DEF Init, CacheTypeOK, NoCall
<1>2. \A i \in Ring : EntryTrue(cache[i])
  BY EmptyTrue DEF Init
<1> QED
  BY <1>1, <1>2 DEF CacheInv, CallInv, Init

LEMMA ReadAtKeeps ==
    ASSUME CacheInv, NEW offset \in Nat, NEW size \in Nat \ {0}, read_at(offset, size)
    PROVE  CacheInv'
<1>1. CacheTypeOK'
  BY DEF CacheInv, CacheTypeOK, read_at
<1>2. (\A i \in Ring : EntryTrue(cache[i]))'
  BY DEF CacheInv, read_at
<1>3. CallInv'
  BY DEF CallInv, read_at
<1> QED
  BY <1>1, <1>2, <1>3 DEF CacheInv

LEMMA CachePreadKeeps ==
    ASSUME CacheInv, cache_pread
    PROVE  CacheInv'
<1>1. call' \in [ done : Nat, split : Nat, sum : Int, read_ahead : Nat ]
      /\ call'.done = 0 /\ call'.split = 0 /\ call'.sum = 0
  BY DEF cache_pread, NoCall
<1>2. CacheTypeOK'
  BY <1>1 DEF CacheInv, CacheTypeOK, cache_pread
<1>3. (\A i \in Ring : EntryTrue(cache[i]))'
  BY DEF CacheInv, cache_pread
<1>4. pc' = "lookup" /\ call'.done = 0 /\ call'.sum = 0 /\ call'.split = 0 /\ request' = request
  BY <1>1 DEF cache_pread
<1>5. Count' > 0 /\ Count' \in Nat
  BY <1>4, CallTypes DEF CacheInv, CallInv, cache_pread, Count
<1>6. TrueIn(buffer, request.got + 1, request.got + 0)'
  BY <1>4, CallTypes DEF TrueIn
<1>7. CallInv'
  BY <1>4, <1>5, <1>6, CallTypes DEF CallInv
<1> QED
  BY <1>2, <1>3, <1>7 DEF CacheInv

\* Any step that answers: the sum grows by r, which is no more than what is left
\* and reaches that only when all of what is left is true.
LEMMA AnswerKeeps ==
    ASSUME CacheInv, pc \in { "lookup", "split" }, NEW r \in Int, r <= Left,
           Answer(r), request' = request, DOMAIN buffer' = 1 .. request.size,
           DOMAIN cache' = Ring, (\A i \in Ring : EntryTrue(cache[i]))',
           r = Left /\ call.sum = call.done => TrueIn(buffer', request.got + 1, request.size)
    PROVE  CacheInv'
<1>1. call' = [ call EXCEPT !.sum = call.sum + r ] /\ pc' = "answer"
  BY DEF Answer
<1>2. call' \in [ done : Nat, split : Nat, sum : Int, read_ahead : Nat ]
      /\ call'.sum = call.sum + r
  <2>1. call \in [ done : Nat, split : Nat, sum : Int, read_ahead : Nat ]
    BY DEF CacheInv, CacheTypeOK
  <2>2. call.sum + r \in Int
    BY <2>1
  <2> QED
    BY <1>1, <2>1, <2>2
<1>3. CacheTypeOK'
  BY <1>1, <1>2 DEF CacheInv, CacheTypeOK
<1>4. call.sum <= call.done
  BY DEF CacheInv, CallInv
<1>a. /\ call.done \in Nat /\ call.sum \in Int /\ Count \in Nat
      /\ Left \in Int /\ Left = Count - call.done
  BY CallTypes
<1>5. call'.sum <= Count
  BY ONLY <1>2, <1>4, <1>a, r \in Int, r <= Left
<1>6. call'.sum = Count => r = Left /\ call.sum = call.done
  BY ONLY <1>2, <1>4, <1>a, r \in Int, r <= Left
<1>7. request' = request /\ Count' = Count
  BY DEF Count
<1>8. call'.sum = Count => TrueIn(buffer, request.got + 1, request.size)'
  BY <1>6, <1>7 DEF TrueIn
<1>9. CallInv'
  BY <1>1, <1>5, <1>7, <1>8 DEF CallInv
<1> QED
  BY <1>3, <1>9 DEF CacheInv

\* What has been read of the request when the look-up goes on.
LEMMA LookupTrue ==
    ASSUME CacheInv, pc \in { "lookup", "split" }
    PROVE  call.sum = call.done => TrueIn(buffer, request.got + 1, request.got + call.done)
BY DEF CacheInv, CallInv

LEMMA HitWholeKeeps ==
    ASSUME CacheInv, HitWhole
    PROVE  CacheInv'
<1>0. pc = "lookup" /\ UNCHANGED << cache, request >>
  BY DEF HitWhole
<1>1. PICK i \in Ring :
          /\ IsHit(i, At) /\ Left <= Available(cache[i])
          /\ buffer' = Copied(cache[i], At, Left)
          /\ Answer(IF res(cache[i]) < Left THEN res(cache[i]) ELSE Left)
  BY DEF HitWhole
<1>2. EntryTrue(cache[i]) /\ cache[i].offset <= At
  BY <1>1 DEF CacheInv, IsHit, Holds
<1>3. res(cache[i]) \in Int /\ res(cache[i]) = cache[i].status + cache[i].offset - At
  BY <1>2, CallTypes DEF res, EntryTrue
<1>4. PICK r \in Int : r = IF res(cache[i]) < Left THEN res(cache[i]) ELSE Left
  BY <1>3, CallTypes
<1>5. Answer(r) /\ r <= Left /\ r <= res(cache[i])
  BY <1>1, <1>3, <1>4, CallTypes
<1>6. DOMAIN buffer' = 1 .. request.size
  BY <1>0, <1>1, <1>2, CopiedTrue, CallTypes DEF CacheInv
<1>7. ASSUME r = Left, call.sum = call.done
      PROVE  TrueIn(buffer', request.got + 1, request.size)
  <2>1. At + Left <= cache[i].offset + cache[i].status
    BY <1>2, <1>3, <1>5, <1>7, CallTypes DEF EntryTrue
  <2>2. TrueIn(buffer, request.got + 1, request.got + call.done)
    BY <1>0, <1>7, LookupTrue
  <2>3. TrueIn(buffer', request.got + 1, request.got + call.done + Left)
    <3>1. request.got + 1 \in Nat /\ request.got + call.done \in Nat /\ Left \in Nat /\ At \in Nat
          /\ At = request.offset + (request.got + call.done)
      BY <1>0, CallTypes
    <3>2. CacheTypeOK /\ request' = request
      BY <1>0 DEF CacheInv
    <3> QED
      BY <1>1, <1>2, <2>1, <2>2, <3>1, <3>2, CopyExtends
  <2>4. request.got + call.done + Left = request.size
    BY CallTypes
  <2> QED
    BY <1>0, <2>3, <2>4, CallTypes DEF TrueIn
<1> QED
  BY <1>0, <1>5, <1>6, <1>7, AnswerKeeps DEF CacheInv, CacheTypeOK

LEMMA HitPartKeeps ==
    ASSUME CacheInv, HitPart
    PROVE  CacheInv'
<1>0. pc = "lookup" /\ UNCHANGED << cache, request, pc >>
  BY DEF HitPart
<1>1. PICK i \in Ring :
          /\ IsHit(i, At) /\ Left > Available(cache[i])
          /\ buffer' = Copied(cache[i], At, Available(cache[i]))
          /\ call' = [ call EXCEPT !.done = @ + Available(cache[i]), !.sum = @ + res(cache[i]) ]
  BY DEF HitPart
<1>2. EntryTrue(cache[i]) /\ cache[i].offset <= At /\ At < cache[i].offset + cache[i].size
  BY <1>1 DEF CacheInv, IsHit, Holds
<1>3. PICK a \in Nat : a = Available(cache[i]) /\ a = cache[i].offset + cache[i].size - At /\ a > 0
  BY <1>2, CallTypes DEF Available, EntryTrue
<1>4. PICK r \in Int : r = res(cache[i]) /\ r = cache[i].status + cache[i].offset - At /\ r <= a
  BY <1>2, <1>3, CallTypes DEF res, EntryTrue
<1>5. /\ call' \in [ done : Nat, split : Nat, sum : Int, read_ahead : Nat ]
      /\ call'.done = call.done + a /\ call'.sum = call.sum + r /\ call'.split = call.split
  <2>1. call \in [ done : Nat, split : Nat, sum : Int, read_ahead : Nat ]
    BY DEF CacheInv, CacheTypeOK
  <2>2. call' = [ call EXCEPT !.done = call.done + a, !.sum = call.sum + r ]
    BY <1>1, <1>3, <1>4
  <2>3. call.done + a \in Nat /\ call.sum + r \in Int
    BY <2>1
  <2> QED
    BY <2>1, <2>2, <2>3
<1>6. DOMAIN buffer' = 1 .. request.size
  BY <1>1, <1>2, <1>3, CopiedTrue, CallTypes DEF CacheInv
<1>7. CacheTypeOK'
  BY <1>0, <1>5, <1>6 DEF CacheInv, CacheTypeOK
<1>8. a < Left
  BY <1>1, <1>3
<1>9. call'.done < Count /\ call'.sum <= call'.done
  BY <1>0, <1>4, <1>5, <1>8, CallTypes DEF CacheInv, CallInv
<1>10. ASSUME call'.sum = call'.done
       PROVE  TrueIn(buffer, request.got + 1, request.got + call.done)'
  <2>1. call.sum = call.done /\ r = a
    <3>1. call.sum <= call.done
      BY <1>0 DEF CacheInv, CallInv
    <3> QED
      BY <1>4, <1>5, <1>10, <3>1, CallTypes
  <2>2. TrueIn(buffer, request.got + 1, request.got + call.done)
    BY <1>0, <2>1, LookupTrue
  <2>3. At + a <= cache[i].offset + cache[i].status
    BY <1>2, <1>4, <2>1, CallTypes DEF EntryTrue
  <2>4. request.got + 1 \in Nat /\ request.got + call.done \in Nat /\ At \in Nat
        /\ At = request.offset + (request.got + call.done)
    BY CallTypes
  <2>5. CacheTypeOK /\ request' = request /\ buffer' = Copied(cache[i], At, a)
    BY <1>0, <1>1, <1>3 DEF CacheInv
  <2>6. TrueIn(buffer', request.got + 1, request.got + call.done + a)
    BY <1>2, <2>2, <2>3, <2>4, <2>5, CopyExtends
  <2>7. request.got + call.done + a = request.got + call'.done
    BY <1>5, CallTypes
  <2> QED
    BY <1>0, <2>6, <2>7 DEF TrueIn
<1>11. Count' = Count
  BY <1>0 DEF Count
<1>12. CallInv'
  BY <1>0, <1>5, <1>9, <1>10, <1>11 DEF CallInv, CacheInv
<1> QED
  BY <1>0, <1>7, <1>12 DEF CacheInv

LEMMA StatusesType ==
    ASSUME NEW a \in Nat, NEW n \in Nat, NEW status \in Statuses(a, n)
    PROVE  status \in Int /\ status <= n
BY DEF Statuses

LEMMA FillKeeps ==
    ASSUME CacheAssumption, CacheInv, Fill
    PROVE  CacheInv'
<1>0. pc = "lookup" /\ request' = request
  BY DEF Fill
<1>1. PICK status \in Statuses(At, CountNew) :
        LET e == DeviceRead(At, CountNew, status)
        IN  \/ /\ Enough(status)
               /\ last_io_error_nbr' = 0
               /\ cache' = [ cache EXCEPT ![Oldest] = e ]
               /\ buffer' = Copied(e, At, Left)
               /\ Answer(Left)
            \/ /\ ~ Enough(status)
               /\ CountNew <= 1 \/ last_io_error_nbr > 0
               /\ last_io_error_nbr' = FailsAgain
               /\ cache' = [ cache EXCEPT ![Oldest] = e ]
               /\ buffer' = Copied(e, At, Left)
               /\ Answer(status)
            \/ /\ ~ Enough(status)
               /\ CountNew > 1 /\ last_io_error_nbr = 0
               /\ last_io_error_nbr' = FailsAgain
               /\ cache' = [ cache EXCEPT ![Oldest] = Empty ]
               /\ buffer' = Copied(DeviceRead(At, Left, 0), At, Left)
               /\ pc' = "split" /\ UNCHANGED call
  BY DEF Fill
<1>2. CountNew \in Nat /\ At \in Nat /\ Left \in Nat /\ Left > 0
  BY <1>0, CountNewType, CallTypes
<1>3. status \in Int /\ status <= CountNew
  BY <1>2, StatusesType
<1>4. PICK e : e = DeviceRead(At, CountNew, status)
  OBVIOUS
<1>5. EntryTrue(e) /\ e.offset = At /\ e.status = status
  BY <1>2, <1>3, <1>4, DeviceReadTrue
<1>6. CacheTypeOK /\ DOMAIN cache = Ring /\ \A i \in Ring : EntryTrue(cache[i])
  BY DEF CacheInv, CacheTypeOK
<1>7. request.got + 1 \in Nat /\ request.got + call.done \in Nat
      /\ At = request.offset + (request.got + call.done)
      /\ request.got + call.done + Left = request.size
  BY CallTypes
<1>8. call.sum = call.done => TrueIn(buffer, request.got + 1, request.got + call.done)
  BY <1>0, LookupTrue
<1>9. ASSUME cache' = [ cache EXCEPT ![Oldest] = e ], buffer' = Copied(e, At, Left)
      PROVE  /\ DOMAIN cache' = Ring /\ \A i \in Ring : EntryTrue(cache'[i])
             /\ DOMAIN buffer' = 1 .. request.size
             /\ Enough(status) /\ call.sum = call.done
                   => TrueIn(buffer', request.got + 1, request.size)
  <2>1. DOMAIN cache' = Ring /\ \A i \in Ring : EntryTrue(cache'[i])
    BY <1>5, <1>6, <1>9, RingKept
  <2>2. DOMAIN buffer' = 1 .. request.size
    BY <1>2, <1>5, <1>6, <1>9, CopiedTrue
  <2>3. ASSUME Enough(status), call.sum = call.done
        PROVE  TrueIn(buffer', request.got + 1, request.size)
    <3>1. At + Left <= e.offset + e.status
      BY <1>2, <1>3, <1>5, <2>3 DEF Enough
    <3>2. e.offset <= At
      BY <1>2, <1>5
    <3>3. request.offset + (request.got + call.done) <= At
      BY <1>2, <1>7
    <3> QED
      BY <1>0, <1>2, <1>5, <1>6, <1>7, <1>8, <1>9, <2>3, <3>1, <3>2, <3>3, CopyExtends
  <2> QED
    BY <2>1, <2>2, <2>3
<1>10. CASE Enough(status) /\ cache' = [ cache EXCEPT ![Oldest] = e ]
            /\ buffer' = Copied(e, At, Left) /\ Answer(Left)
  BY <1>0, <1>2, <1>9, <1>10, AnswerKeeps
<1>11. CASE ~ Enough(status) /\ cache' = [ cache EXCEPT ![Oldest] = e ]
            /\ buffer' = Copied(e, At, Left) /\ Answer(status)
  <2>1. status < Left
    BY <1>2, <1>3, <1>11 DEF Enough
  <2>2. status <= Left /\ status # Left
    BY <1>2, <1>3, <2>1
  <2> QED
    BY <1>0, <1>3, <1>9, <1>11, <2>2, AnswerKeeps
<1>12. CASE cache' = [ cache EXCEPT ![Oldest] = Empty ] /\ pc' = "split" /\ UNCHANGED call
            /\ buffer' = Copied(DeviceRead(At, Left, 0), At, Left)
  <2>1. DOMAIN cache' = Ring /\ \A i \in Ring : EntryTrue(cache'[i])
    BY <1>6, <1>12, EmptyTrue, RingKept
  <2>2. PICK z : z = DeviceRead(At, Left, 0)
    OBVIOUS
  <2>3. EntryTrue(z) /\ z.offset <= At /\ buffer' = Copied(z, At, Left)
    BY <1>2, <1>12, <2>2, DeviceReadTrue
  <2>4. DOMAIN buffer' = 1 .. request.size
    BY <1>2, <1>6, <2>3, CopiedTrue
  <2>5. CacheTypeOK'
    BY <1>0, <1>6, <1>12, <2>1, <2>4 DEF CacheTypeOK
  <2>6. ASSUME call.sum = call.done
        PROVE  TrueIn(buffer', request.got + 1, request.got + call.done)
    BY <1>0, <1>2, <1>6, <1>7, <1>8, <2>3, <2>6, CopyExtends
  <2>7. call.split = 0 /\ call.done < Count /\ call.sum <= call.done
    BY <1>0 DEF CacheInv, CallInv
  <2>8. Count' = Count /\ Left' = Left /\ call' = call
    BY <1>0, <1>12 DEF Count, Left
  <2>9. TrueIn(buffer', request.got + call.done + 1, request.got + call.done + 0)
    BY <1>2, <1>7, CallTypes DEF TrueIn
  <2>10. CallInv'
    <3>1. (call.sum = call.done => TrueIn(buffer, request.got + 1, request.got + call.done))'
      BY <1>0, <2>6, <2>8 DEF TrueIn
    <3>2. TrueIn(buffer, request.got + call.done + 1, request.got + call.done + call.split)'
      BY <1>0, <2>7, <2>8, <2>9 DEF TrueIn
    <3>3. (call.split < Left)'
      BY <1>2, <2>7, <2>8
    <3> QED
      BY <1>12, <2>7, <2>8, <3>1, <3>2, <3>3 DEF CallInv
  <2> QED
    BY <2>1, <2>5, <2>10 DEF CacheInv
<1> QED
  BY <1>1, <1>4, <1>10, <1>11, <1>12

\* One sector of a read that is split, answered by a true entry.
LEMMA SplitAnswerKeeps ==
    ASSUME CacheInv, pc = "split", NEW e, EntryTrue(e), e.offset <= Sector, SplitAnswer(e),
           request' = request, DOMAIN cache' = Ring, (\A i \in Ring : EntryTrue(cache[i]))'
    PROVE  CacheInv'
<1>1. /\ request.got + 1 \in Nat /\ request.got + call.done \in Nat
      /\ request.got + call.done + 1 \in Nat /\ request.got + call.done + call.split \in Nat
      /\ call.split \in Nat /\ Left \in Nat /\ Sector \in Nat
      /\ Sector = request.offset + (request.got + call.done + call.split)
      /\ request.offset + (request.got + call.done) <= Sector
      /\ request.got + call.done + Left = request.size
  BY CallTypes DEF Sector
<1>2. /\ call.sum <= call.done /\ call.done < Count /\ call.split < Left
      /\ call.sum = call.done => TrueIn(buffer, request.got + 1, request.got + call.done)
      /\ TrueIn(buffer, request.got + call.done + 1, request.got + call.done + call.split)
  BY DEF CacheInv, CallInv
<1>3. CacheTypeOK /\ buffer' = Copied(e, Sector, 1) /\ 1 \in Nat
  BY DEF CacheInv, SplitAnswer
<1>4. DOMAIN buffer' = 1 .. request.size
  BY <1>1, <1>3, CopiedTrue
<1>5. call.sum = call.done => TrueIn(buffer', request.got + 1, request.got + call.done)
  BY <1>1, <1>2, <1>3, CopyExtends
<1>6. ASSUME e.status + e.offset - Sector > 0
      PROVE  TrueIn(buffer', request.got + call.done + 1, request.got + call.done + call.split + 1)
  <2>1. Sector + 1 <= e.offset + e.status
    BY <1>1, <1>6 DEF EntryTrue
  <2> QED
    BY <1>1, <1>2, <1>3, <2>1, CopyExtends
<1>7. CASE e.status + e.offset - Sector <= 0 /\ Answer(call.split)
  <2>1. call.split \in Int /\ call.split <= Left /\ call.split # Left
    BY <1>1, <1>2
  <2> QED
    BY <1>4, <1>7, <2>1, AnswerKeeps
<1>8. CASE /\ e.status + e.offset - Sector > 0
           /\ call.split + 1 = Left /\ Answer(Left)
  <2>1. ASSUME call.sum = call.done
        PROVE  TrueIn(buffer', request.got + 1, request.size)
    <3>1. request.got + call.done + call.split + 1 = request.size
      BY <1>1, <1>8
    <3>2. \A k \in 1 .. request.size :
             k <= request.got + call.done \/ request.got + call.done + 1 <= k
      BY <1>1, CallTypes
    <3> QED
      BY <1>5, <1>6, <1>8, <2>1, <3>1, <3>2 DEF TrueIn
  <2> QED
    BY <1>1, <1>4, <1>8, <2>1, AnswerKeeps
<1>9. CASE /\ e.status + e.offset - Sector > 0
           /\ call.split + 1 # Left
           /\ call' = [ call EXCEPT !.split = @ + 1 ] /\ UNCHANGED pc
  <2>1. /\ call' \in [ done : Nat, split : Nat, sum : Int, read_ahead : Nat ]
        /\ call'.done = call.done /\ call'.sum = call.sum /\ call'.split = call.split + 1
    <3>1. call \in [ done : Nat, split : Nat, sum : Int, read_ahead : Nat ]
      BY <1>3 DEF CacheTypeOK
    <3>2. call' = [ call EXCEPT !.split = call.split + 1 ]
      BY <1>9
    <3>3. call.split + 1 \in Nat
      BY <3>1
    <3> QED
      BY <3>1, <3>2, <3>3
  <2>2. CacheTypeOK'
    BY <1>3, <1>4, <1>9, <2>1 DEF CacheTypeOK
  <2>3. Count' = Count /\ Left' = Left
    BY <2>1 DEF Count, Left
  <2>4. (call.split < Left)' /\ (call.done < Count)' /\ (call.sum <= call.done)'
    BY <1>1, <1>2, <1>9, <2>1, <2>3
  <2>5. (call.sum = call.done => TrueIn(buffer, request.got + 1, request.got + call.done))'
    BY <1>5, <2>1 DEF TrueIn
  <2>6. TrueIn(buffer, request.got + call.done + 1, request.got + call.done + call.split)'
    <3>1. request.got + call.done + call.split + 1 = request.got + call.done + (call.split + 1)
      BY <1>1
    <3> QED
      BY <1>6, <1>9, <2>1, <3>1 DEF TrueIn
  <2>7. CallInv'
    BY <1>9, <2>4, <2>5, <2>6 DEF CallInv
  <2> QED
    BY <2>2, <2>7 DEF CacheInv
<1>10. e.status + e.offset - Sector <= 0 \/ e.status + e.offset - Sector > 0
  BY <1>1 DEF EntryTrue
<1> QED
  BY <1>7, <1>8, <1>9, <1>10 DEF SplitAnswer

LEMMA SplitHitKeeps ==
    ASSUME CacheInv, SplitHit
    PROVE  CacheInv'
<1>1. pc = "split" /\ request' = request /\ cache' = cache
  BY DEF SplitHit
<1>2. PICK i \in Ring : IsHit(i, Sector) /\ SplitAnswer(cache[i])
  BY DEF SplitHit
<1>3. EntryTrue(cache[i]) /\ cache[i].offset <= Sector
  BY <1>2 DEF CacheInv, IsHit, Holds
<1>4. DOMAIN cache' = Ring /\ (\A j \in Ring : EntryTrue(cache[j]))'
  BY <1>1 DEF CacheInv, CacheTypeOK
<1> QED
  BY <1>1, <1>2, <1>3, <1>4, SplitAnswerKeeps

LEMMA SplitReadKeeps ==
    ASSUME CacheInv, SplitRead
    PROVE  CacheInv'
<1>1. pc = "split" /\ request' = request
  BY DEF SplitRead
<1>2. PICK status \in Statuses(Sector, 1) :
         /\ cache' = [ cache EXCEPT ![Oldest] = DeviceRead(Sector, 1, status) ]
         /\ SplitAnswer(DeviceRead(Sector, 1, status))
  BY DEF SplitRead
<1>3. Sector \in Nat /\ 1 \in Nat
  BY CallTypes DEF Sector
<1>4. status \in Int /\ status <= 1
  BY <1>3, StatusesType
<1>5. PICK e : e = DeviceRead(Sector, 1, status)
  OBVIOUS
<1>6. EntryTrue(e) /\ e.offset <= Sector
  BY <1>3, <1>4, <1>5, DeviceReadTrue
<1>7. DOMAIN cache' = Ring /\ (\A j \in Ring : EntryTrue(cache[j]))'
  BY <1>2, <1>5, <1>6, RingKept DEF CacheInv, CacheTypeOK
<1> QED
  BY <1>1, <1>2, <1>5, <1>6, <1>7, SplitAnswerKeeps

LEMMA AnsweredKeeps ==
    ASSUME CacheInv, Answered
    PROVE  CacheInv'
<1>1. /\ request \in [ offset : Nat, size : Nat, got : Nat ] /\ request.got <= request.size
      /\ call.sum \in Int /\ call.sum <= Count /\ Count = request.size - request.got
      /\ UNCHANGED << cache, buffer, call >>
  BY CallTypes DEF CacheInv, CacheTypeOK, CallInv, Answered
<1>2. CASE Failed
  <2>1. request' = request /\ pc' = "err"
    BY <1>2 DEF Answered
  <2>2. CacheTypeOK'
    BY <1>1, <2>1 DEF CacheInv, CacheTypeOK
  <2>3. CallInv'
    BY <2>1 DEF CallInv
  <2> QED
    BY <1>1, <2>2, <2>3 DEF CacheInv
<1>3. CASE ~ Failed
  <2>1. request.got + call.sum \in Nat /\ request.got + call.sum <= request.size
    BY <1>1, <1>3 DEF Failed
  <2>2. /\ request' = [ request EXCEPT !.got = request.got + call.sum ]
        /\ pc' = IF request'.got < request.size THEN "pread" ELSE "ok"
    BY <1>3 DEF Answered
  <2>3. /\ request' \in [ offset : Nat, size : Nat, got : Nat ]
        /\ request'.size = request.size /\ request'.got = request.got + call.sum
    BY <1>1, <2>1, <2>2
  <2>4. CacheTypeOK'
    BY <1>1, <2>1, <2>2, <2>3 DEF CacheInv, CacheTypeOK
  <2>5. CallInv'
    BY <2>2, <2>3 DEF CallInv
  <2> QED
    BY <1>1, <2>4, <2>5 DEF CacheInv
<1> QED
  BY <1>2, <1>3

LEMMA CacheNext == CacheInv /\ [Next]_vars => CacheInv'
<1> SUFFICES ASSUME CacheInv, [Next]_vars PROVE CacheInv'
  OBVIOUS
<1>1. ASSUME NEW offset \in 0 .. NSectors - 1, NEW size \in 1 .. MaxRead, read_at(offset, size)
      PROVE  CacheInv'
  <2>1. offset \in Nat /\ size \in Nat \ {0}
    BY CacheAssumption DEF CacheAssumption
  <2> QED
    BY <1>1, <2>1, ReadAtKeeps
<1>2. CASE cache_pread
  BY <1>2, CachePreadKeeps
<1>3. CASE HitWhole
  BY <1>3, HitWholeKeeps
<1>4. CASE HitPart
  BY <1>4, HitPartKeeps
<1>5. CASE Fill
  BY <1>5, FillKeeps, CacheAssumption
<1>6. CASE SplitHit
  BY <1>6, SplitHitKeeps
<1>7. CASE SplitRead
  BY <1>7, SplitReadKeeps
<1>8. CASE Answered
  BY <1>8, AnsweredKeeps
<1>9. CASE UNCHANGED vars
  BY <1>9 DEF CacheInv, CacheTypeOK, CallInv, TrueIn, Count, Left, vars
<1> QED
  BY <1>1, <1>2, <1>3, <1>4, <1>5, <1>6, <1>7, <1>8, <1>9 DEF Next, Reading

-----------------------------------------------------------------------------
(* Theorems *)

\* Every entry of the ring is true as far as its status goes, and an answer
\* counts no more than what was asked (cache_pread_aux).
THEOREM CacheCorrect == Spec => []CacheInv
<1> QED
  BY CacheInit, CacheNext, PTL DEF Spec

\* An answer of everything asked for is what the disk holds, for any device,
\* any number of entries and any reading ahead (hdcache.c:72-178).
THEOREM WholeAnswersTrue == Spec => []WholeTrue
<1>1. CacheInv => WholeTrue
  <2> SUFFICES ASSUME CacheInv, pc = "answer", call.sum = Count, NEW k \in Asked
               PROVE  buffer[k] = request.offset + k - 1
    BY DEF WholeTrue
  <2>1. TrueIn(buffer, request.got + 1, request.size)
    BY DEF CacheInv, CallInv
  <2>2. k \in 1 .. request.size /\ request.got + 1 <= k /\ k <= request.size
    BY CallTypes DEF Asked
  <2> QED
    BY <2>1, <2>2 DEF TrueIn
<1> QED
  BY <1>1, CacheCorrect, PTL
=============================================================================

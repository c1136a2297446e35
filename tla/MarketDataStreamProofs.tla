----------------------- MODULE MarketDataStreamProofs -----------------------
(***************************************************************************)
(* For any length of the deque, any threads and any outages: the types of  *)
(* MarketDataStream, the clean cache, the completeness of the stored tail  *)
(* and the order of the closes that are evaluated; and, by the theorems of *)
(* CandleProofs, what is checked of the other components of MCMarketData.  *)
(***************************************************************************)
EXTENDS MCMarketData, FiniteSetTheorems, TLAPS

LEMMA ConstantsType ==
    /\ MaxLen \in Nat /\ MaxGap \in Nat /\ MaxNow \in Nat
    /\ MaxLen >= 3 /\ MaxNow >= MaxLen
BY StreamAssumption

-----------------------------------------------------------------------------
(* What is fetched.                                                        *)

(* The newest k candles while candle n is forming. *)
KlinesAt(n, k) == [i \in 1 .. k |-> [t |-> n - k + i, closed |-> i < k]]
Size(job) == IF job = "initial" THEN MaxLen ELSE 3

IsFetch(klines, n, k) ==
    /\ klines \in Seq(Candles) /\ Len(klines) = k /\ klines # <<>>
    /\ \A i \in 1 .. k : klines[i].t = n - k + i
    /\ \A i \in 1 .. k - 1 : klines[i].closed = TRUE
    /\ Last(klines).t = n

LEMMA KlinesFacts ==
    ASSUME NEW n \in Nat, NEW k \in Nat, 1 <= k, k <= n, n <= MaxNow
    PROVE  IsFetch(KlinesAt(n, k), n, k)
<1>1. \A i \in 1 .. k : [t |-> n - k + i, closed |-> i < k] \in Candles
    BY ConstantsType DEF Candles
<1>2. KlinesAt(n, k) \in [1 .. k -> Candles]
    BY <1>1 DEF KlinesAt
<1>3. KlinesAt(n, k) \in Seq(Candles) /\ Len(KlinesAt(n, k)) = k
    BY <1>2
<1>4. \A i \in 1 .. k : KlinesAt(n, k)[i].t = n - k + i
    BY DEF KlinesAt
<1>5. \A i \in 1 .. k - 1 : KlinesAt(n, k)[i].closed = TRUE
  <2> TAKE i \in 1 .. k - 1
  <2> DEFINE final == i < k
  <2>1. KlinesAt(n, k)[i] = [t |-> n - k + i, closed |-> final]
      BY DEF KlinesAt
  <2>2. final = TRUE
      OBVIOUS
  <2> HIDE DEF final
  <2>3. KlinesAt(n, k)[i].closed = final
      BY <2>1
  <2> QED BY <2>2, <2>3
<1>6. Last(KlinesAt(n, k)).t = n
  <2>1. Last(KlinesAt(n, k)) = KlinesAt(n, k)[k]
      BY <1>3 DEF Last
  <2> QED BY <1>4, <2>1
<1> QED BY <1>3, <1>4, <1>5, <1>6 DEF IsFetch

LEMMA KlinesNow == \A k : Klines(k) = KlinesAt(now, k)
BY DEF Klines, KlinesAt

-----------------------------------------------------------------------------
(* What is stored.                                                         *)

Accs == [s : Seq(Candles), dirty : BOOLEAN]

(* r ends with row, before it there are the rows of s without d of the oldest,
   and without the newest if that is another copy of row's candle. *)
ExtendsBy(s, r, row, d) ==
    /\ r # <<>> /\ Last(r) = row
    /\ \A i \in 1 .. Len(r) - 1 : r[i] = s[i + d]
    /\ \/ Len(r) - 1 + d = Len(s)
       \/ s # <<>> /\ Len(r) - 1 + d = Len(s) - 1 /\ Last(s).t = row.t

(* acc, with row stored, is res. *)
Stores(acc, row, res) ==
    /\ res \in Accs
    /\ Len(res.s) <= MaxLen
    /\ \E d \in 0 .. 1 : ExtendsBy(acc.s, res.s, row, d)
    /\ acc.s # <<>> /\ Last(acc.s).t # row.t =>
         Len(res.s) = MaxLen \/ Len(res.s) = Len(acc.s) + 1
    /\ ~res.dirty => res.s = acc.s /\ ~acc.dirty

LEMMA StoreRowFacts ==
    ASSUME NEW acc \in Accs, Len(acc.s) <= MaxLen, NEW row \in Candles
    PROVE  Stores(acc, row, StoreRow(acc, row))
<1> DEFINE s == acc.s
           r == StoreRow(acc, row)
           same == s # <<>> /\ Last(s).t = row.t
<1>1. s \in Seq(Candles) /\ acc.dirty \in BOOLEAN /\ Len(s) \in Nat /\ MaxLen \in Nat /\ MaxLen >= 3
    BY ConstantsType DEF Accs
<1>2. CASE same
  <2> DEFINE q == [s EXCEPT ![Len(s)] = row]
             b == acc.dirty \/ Last(s) # row
  <2>1. r = [s |-> q, dirty |-> b]
      BY <1>2 DEF StoreRow
  <2>2. b \in BOOLEAN /\ (~b => Last(s) = row /\ ~acc.dirty)
      BY <1>1
  <2>3. q \in Seq(Candles) /\ Len(q) = Len(s)
      BY <1>1, <1>2
  <2>4. q # <<>> /\ Last(q) = row /\ \A i \in 1 .. Len(q) - 1 : q[i] = s[i]
      BY <1>1, <1>2, <2>3 DEF Last
  <2>5. ExtendsBy(s, q, row, 0)
      BY <1>1, <1>2, <2>3, <2>4 DEF ExtendsBy
  <2>6. ~b => q = s
      BY <1>1, <1>2, <2>2, <2>3 DEF Last
  <2>7. r.s = q /\ r.dirty = b /\ r \in Accs
      BY <2>1, <2>2, <2>3 DEF Accs
  <2> HIDE DEF q, b
  <2> QED BY <1>1, <1>2, <2>2, <2>3, <2>5, <2>6, <2>7 DEF Stores
<1>3. CASE ~same
  <2> DEFINE a == Append(s, row)
             q == KeepLast(a)
  <2>1. r = [s |-> q, dirty |-> TRUE]
      BY <1>3 DEF StoreRow
  <2>2. /\ a \in Seq(Candles) /\ Len(a) = Len(s) + 1 /\ a # <<>>
        /\ a[Len(s) + 1] = row /\ \A i \in 1 .. Len(s) : a[i] = s[i]
      BY <1>1
  <2>3. CASE Len(s) < MaxLen
    <3>1. q = a
        BY <1>1, <2>2, <2>3 DEF KeepLast
    <3>2. ExtendsBy(s, q, row, 0)
        BY <1>1, <2>2, <3>1 DEF ExtendsBy, Last
    <3>3. r.s = q /\ r.dirty = TRUE /\ r \in Accs
        BY <2>1, <2>2, <3>1 DEF Accs
    <3> HIDE DEF q, a
    <3> QED BY <1>1, <1>3, <2>2, <2>3, <3>1, <3>2, <3>3 DEF Stores
  <2>4. CASE Len(s) = MaxLen
    <3>1. q = Tail(a)
        BY <1>1, <2>2, <2>4 DEF KeepLast
    <3>2. /\ q \in Seq(Candles) /\ Len(q) = Len(s) /\ q # <<>>
          /\ \A i \in 1 .. Len(s) : q[i] = a[i + 1]
        BY <1>1, <2>2, <2>4, <3>1
    <3>3. ExtendsBy(s, q, row, 1)
        BY <1>1, <2>2, <2>4, <3>2 DEF ExtendsBy, Last
    <3>4. r.s = q /\ r.dirty = TRUE /\ r \in Accs
        BY <2>1, <3>2 DEF Accs
    <3> HIDE DEF q, a
    <3> QED BY <1>1, <1>3, <2>4, <3>2, <3>3, <3>4 DEF Stores
  <2> QED BY <1>1, <2>3, <2>4
<1> QED BY <1>2, <1>3

(* A fetch stores its three rows at the end, after what it leaves of the series. *)
StoresAll(klines, res) ==
    /\ res \in Accs
    /\ Len(res.s) >= 3 /\ Len(res.s) <= MaxLen
    /\ ~res.dirty => res.s = series /\ ~dirty
    /\ \A i \in 1 .. 3 : res.s[Len(res.s) - 3 + i] = klines[i]
    /\ \E d \in 0 .. 3 :
          /\ \A i \in 1 .. Len(res.s) - 3 : res.s[i] = series[i + d]
          /\ \/ Len(res.s) - 3 + d = Len(series)
             \/ /\ series # <<>> /\ Len(res.s) - 3 + d = Len(series) - 1
                /\ Last(series).t = klines[1].t

LEMMA StoreRowsFacts ==
    ASSUME TypeOK, NEW n \in Nat, 3 <= n, n <= MaxNow,
           NEW klines, klines = KlinesAt(n, 3)
    PROVE  StoresAll(klines, StoreRows(klines))
<1> DEFINE acc0 == [s |-> series, dirty |-> dirty]
           acc1 == StoreRow(acc0, klines[1])
           acc2 == StoreRow(acc1, klines[2])
           acc3 == StoreRow(acc2, klines[3])
<1>0. IsFetch(klines, n, 3)
    BY KlinesFacts
<1>1. /\ Len(klines) = 3
      /\ klines[1] \in Candles /\ klines[2] \in Candles /\ klines[3] \in Candles
      /\ klines[1].t = n - 2 /\ klines[2].t = n - 1 /\ klines[3].t = n
    BY <1>0 DEF IsFetch
<1>2. StoreRows(klines) = acc3
    BY <1>1 DEF StoreRows, StoreNext
<1>3. /\ acc0 \in Accs /\ Len(acc0.s) <= MaxLen /\ acc0.s = series /\ acc0.dirty = dirty
      /\ series \in Seq(Candles)
    BY DEF TypeOK, IsRows, Accs
<1> HIDE DEF acc0
<1>4. Stores(acc0, klines[1], acc1)
    BY <1>1, <1>3, StoreRowFacts
<1>5. Stores(acc1, klines[2], acc2)
    BY <1>1, <1>4, StoreRowFacts DEF Stores
<1>6. Stores(acc2, klines[3], acc3)
    BY <1>1, <1>5, StoreRowFacts DEF Stores
<1> HIDE DEF acc1, acc2, acc3
<1>7. PICK d1 \in 0 .. 1 : ExtendsBy(acc0.s, acc1.s, klines[1], d1)
    BY <1>4 DEF Stores
<1>8. PICK d2 \in 0 .. 1 : ExtendsBy(acc1.s, acc2.s, klines[2], d2)
    BY <1>5 DEF Stores
<1>9. PICK d3 \in 0 .. 1 : ExtendsBy(acc2.s, acc3.s, klines[3], d3)
    BY <1>6 DEF Stores
<1> DEFINE n0 == Len(series)
           n1 == Len(acc1.s)
           n2 == Len(acc2.s)
           n3 == Len(acc3.s)
<1>10. n0 \in Nat /\ n1 \in Nat /\ n2 \in Nat /\ n3 \in Nat
    BY <1>3, <1>4, <1>5, <1>6 DEF Accs, Stores
<1>11. /\ n1 >= 1 /\ acc1.s[n1] = klines[1]
       /\ \A i \in 1 .. n1 - 1 : acc1.s[i] = series[i + d1]
       /\ \/ n1 - 1 + d1 = n0
          \/ series # <<>> /\ n1 - 1 + d1 = n0 - 1 /\ Last(series).t = klines[1].t
  <2>1. acc1.s \in Seq(Candles)
      BY <1>4 DEF Accs, Stores
  <2> QED BY <1>3, <1>7, <2>1 DEF ExtendsBy, Last
<1>12. /\ n2 >= 2 /\ acc2.s[n2] = klines[2]
       /\ \A i \in 1 .. n2 - 1 : acc2.s[i] = acc1.s[i + d2]
       /\ n2 - 1 + d2 = n1
  <2>1. acc1.s # <<>> /\ Last(acc1.s).t # klines[2].t
      BY <1>1, <1>7 DEF ExtendsBy
  <2>2. n2 >= 2
      BY <1>5, <1>10, <1>11, <2>1, ConstantsType DEF Stores
  <2>3. acc2.s \in Seq(Candles)
      BY <1>5 DEF Accs, Stores
  <2> QED BY <1>8, <2>1, <2>2, <2>3 DEF ExtendsBy, Last
<1>13. /\ n3 >= 3 /\ acc3.s[n3] = klines[3]
       /\ \A i \in 1 .. n3 - 1 : acc3.s[i] = acc2.s[i + d3]
       /\ n3 - 1 + d3 = n2
  <2>1. acc2.s # <<>> /\ Last(acc2.s).t # klines[3].t
      BY <1>1, <1>8 DEF ExtendsBy
  <2>2. n3 >= 3
      BY <1>6, <1>10, <1>12, <2>1, ConstantsType DEF Stores
  <2>3. acc3.s \in Seq(Candles)
      BY <1>6 DEF Accs, Stores
  <2> QED BY <1>9, <2>1, <2>2, <2>3 DEF ExtendsBy, Last
<1> HIDE DEF n0, n1, n2, n3
<1> DEFINE d == d1 + d2 + d3
<1>14. acc3.s[n3 - 2] = klines[1] /\ acc3.s[n3 - 1] = klines[2] /\ acc3.s[n3] = klines[3]
  <2>1. acc3.s[n3 - 1] = acc2.s[n3 - 1 + d3] /\ acc3.s[n3 - 2] = acc2.s[n3 - 2 + d3]
      BY <1>10, <1>13
  <2>2. acc2.s[n2 - 1] = acc1.s[n2 - 1 + d2]
      BY <1>10, <1>12
  <2>3. n3 - 1 + d3 = n2 /\ n3 - 2 + d3 = n2 - 1 /\ n2 - 1 + d2 = n1
      BY <1>10, <1>12, <1>13
  <2> QED BY <1>11, <1>12, <1>13, <2>1, <2>2, <2>3
<1>15. \A i \in 1 .. n3 - 3 : acc3.s[i] = series[i + d]
  <2> TAKE i \in 1 .. n3 - 3
  <2>1. acc3.s[i] = acc2.s[i + d3] /\ i + d3 \in 1 .. n2 - 1
      BY <1>10, <1>13
  <2>2. acc2.s[i + d3] = acc1.s[i + d3 + d2] /\ i + d3 + d2 \in 1 .. n1 - 1
      BY <1>10, <1>12, <1>13, <2>1
  <2>3. acc1.s[i + d3 + d2] = series[i + d3 + d2 + d1]
      BY <1>10, <1>11, <2>2
  <2>4. i + d3 + d2 + d1 = i + d
      BY <1>10
  <2> QED BY <2>1, <2>2, <2>3, <2>4
<1>16. \/ n3 - 3 + d = n0
       \/ series # <<>> /\ n3 - 3 + d = n0 - 1 /\ Last(series).t = klines[1].t
  <2>1. n3 - 3 + d = n1 - 1 + d1
      BY <1>10, <1>12, <1>13
  <2> QED BY <1>11, <2>1
<1>17. d \in 0 .. 3 /\ n3 >= 3 /\ \A i \in 1 .. 3 : acc3.s[n3 - 3 + i] = klines[i]
    BY <1>10, <1>13, <1>14
<1>18. ~acc3.dirty => acc3.s = series /\ ~dirty
    BY <1>3, <1>4, <1>5, <1>6 DEF Stores
<1>19. acc3 \in Accs /\ n3 <= MaxLen
    BY <1>6 DEF Stores, n3
<1> QED BY <1>2, <1>15, <1>16, <1>17, <1>18, <1>19 DEF StoresAll, n0, n3

-----------------------------------------------------------------------------
(* Types.                                                                  *)

FetchedInv ==
    \A w \in Workers : worker[w].rows # <<>> =>
        \E n \in MaxLen .. now : worker[w].rows = KlinesAt(n, Size(worker[w].job))

IInv == TypeOK /\ now >= MaxLen /\ FetchedInv

Job == [job : {"none", "initial", "poll"}, rows : Seq(Candles)]
Reading == [pc : {"idle", "building", "got"}, data : Seq(Candles)]

LEMMA LastOfRows ==
    ASSUME NEW s \in Seq(Candles), s # <<>>
    PROVE  Last(s) \in Candles /\ Last(s).t \in 1 .. MaxNow /\ Len(s) \in Nat \ {0}
<1>1. Last(s) \in Candles /\ Len(s) \in Nat \ {0}
    BY DEF Last
<1> QED BY <1>1 DEF Candles

LEMMA FetchOf ==
    ASSUME IInv, NEW w \in Workers, worker[w].rows # <<>>
    PROVE  \E n \in MaxLen .. now :
              IsFetch(worker[w].rows, n, Size(worker[w].job)) /\ n \in Nat /\ n <= MaxNow
                /\ worker[w].rows = KlinesAt(n, Size(worker[w].job))
<1>1. PICK n \in MaxLen .. now : worker[w].rows = KlinesAt(n, Size(worker[w].job))
    BY DEF IInv, FetchedInv
<1> DEFINE k == Size(worker[w].job)
<1>2. n \in Nat /\ n <= MaxNow /\ k \in Nat /\ 1 <= k /\ k <= n
    BY ConstantsType DEF IInv, TypeOK, Size
<1> HIDE DEF k
<1>3. IsFetch(KlinesAt(n, k), n, k)
    BY <1>2, KlinesFacts
<1> QED BY <1>1, <1>2, <1>3 DEF k

LEMMA InitType == Init => IInv
<1> SUFFICES ASSUME Init PROVE IInv
    OBVIOUS
<1>1. NoJob \in Job /\ Ask("initial") \in Job /\ NotReading \in Reading
    BY DEF NoJob, Ask, NotReading, Job, Reading
<1>2. worker \in [Workers -> Job] /\ \A w \in Workers : worker[w].rows = <<>>
    BY <1>1 DEF Init, NoJob, Ask
<1>3. reading \in [Threads -> Reading] /\ \A t \in Threads : Len(reading[t].data) <= MaxLen
    BY <1>1, ConstantsType DEF Init, NotReading
<1>e. <<>> \in Seq(Candles) /\ <<>> \in Seq(1 .. MaxNow) /\ Len(<<>>) = 0
    OBVIOUS
<1>4. IsRows(series) /\ IsRows(cache) /\ dirty \in BOOLEAN
  <2>1. series = <<>> /\ cache = <<>> /\ dirty = FALSE
      BY DEF Init, NoFrame
  <2>2. IsRows(<<>>)
      BY <1>e, ConstantsType DEF IsRows
  <2> QED BY <2>1, <2>2
<1>5. now \in 1 .. MaxNow /\ polledAt \in 1 .. MaxNow /\ lastClose \in 0 .. MaxNow
    BY ConstantsType DEF Init, NoClose
<1>6. evaluated \in Seq(1 .. MaxNow) /\ stale \subseteq Threads /\ outage \in BOOLEAN
    BY <1>e DEF Init
<1>7. TypeOK
    BY <1>2, <1>3, <1>4, <1>5, <1>6 DEF Init, TypeOK, Job, Reading
<1> QED BY <1>2, <1>7, ConstantsType DEF Init, IInv, FetchedInv

(* A thread that got its frame. *)
LEMMA GotType ==
    ASSUME IInv, NEW t \in Threads, NEW klines, IsRows(klines), Got(t, klines)
    PROVE  /\ reading' \in [Threads -> Reading]
           /\ \A u \in Threads : Len(reading'[u].data) <= MaxLen
           /\ sched' \in {"loading", "sleeping", "polling", "reading", "resolving"}
<1> DEFINE r == IF t = Scheduler THEN [pc |-> "got", data |-> klines] ELSE NotReading
<1>1. r \in Reading /\ Len(r.data) <= MaxLen
    BY ConstantsType DEF Reading, IsRows, NotReading
<1>2. reading' = [reading EXCEPT ![t] = r]
    BY DEF Got
<1>3. reading \in [Threads -> Reading] /\ \A u \in Threads : Len(reading[u].data) <= MaxLen
    BY DEF IInv, TypeOK, Reading
<1> HIDE DEF r
<1>4. /\ reading' \in [Threads -> Reading]
      /\ \A u \in Threads : Len(reading'[u].data) <= MaxLen
    BY <1>1, <1>2, <1>3
<1> QED BY <1>4 DEF Got, IInv, TypeOK

(* A worker that is given a job or ends it. *)
LEMMA WorkerType ==
    ASSUME IInv, NEW w \in Workers, NEW j \in Job, worker' = [worker EXCEPT ![w] = j],
           j.job = "none" => j.rows = <<>>,
           j.rows # <<>> => \E n \in MaxLen .. now : j.rows = KlinesAt(n, Size(j.job)),
           now' = now
    PROVE  /\ worker' \in [Workers -> Job]
           /\ \A v \in Workers : worker'[v].job = "none" => worker'[v].rows = <<>>
           /\ FetchedInv'
<1>1. worker \in [Workers -> Job]
    BY DEF IInv, TypeOK, Job
<1>2. worker' \in [Workers -> Job] /\ \A v \in Workers : worker'[v] = IF v = w THEN j ELSE worker[v]
    BY <1>1
<1>3. \A v \in Workers : worker'[v].job = "none" => worker'[v].rows = <<>>
    BY <1>2 DEF IInv, TypeOK
<1>4. FetchedInv'
    BY <1>2 DEF IInv, FetchedInv
<1> QED BY <1>2, <1>3, <1>4

LEMMA TypeStep == IInv /\ [Next]_vars => IInv'
<1> SUFFICES ASSUME IInv, [Next]_vars PROVE IInv'
    OBVIOUS
<1>n. NoJob \in Job /\ NoJob.rows = <<>>
    BY DEF NoJob, Job
<1>1. CASE CandleCloses
  <2>1. now \in Nat /\ now' = now + 1 /\ now' \in 1 .. MaxNow /\ now' >= MaxLen
      BY <1>1, ConstantsType DEF CandleCloses, IInv, TypeOK
  <2>2. FetchedInv'
      BY <1>1, <2>1, ConstantsType DEF CandleCloses, IInv, FetchedInv
  <2>3. TypeOK'
      BY <1>1, <2>1 DEF CandleCloses, IInv, TypeOK, history
  <2> QED BY <2>1, <2>2, <2>3 DEF IInv
<1>2. ASSUME NEW w \in Workers, FetchAnswered(w) PROVE IInv'
  <2> DEFINE k == IF worker[w].job = "initial" THEN MaxLen ELSE FetchLimit
             j == [worker[w] EXCEPT !.rows = Klines(k)]
  <2>1. /\ worker[w] \in Job /\ worker[w].job # "none"
        /\ worker' = [worker EXCEPT ![w] = j] /\ now' = now
        /\ k = Size(worker[w].job)
      BY <1>2 DEF FetchAnswered, IInv, TypeOK, Job, Size, FetchLimit
  <2>2. now \in MaxLen .. now /\ now \in Nat /\ now <= MaxNow /\ k \in Nat /\ 1 <= k /\ k <= now
      BY ConstantsType DEF IInv, TypeOK, FetchLimit
  <2> HIDE DEF k
  <2>3. Klines(k) = KlinesAt(now, k) /\ IsFetch(Klines(k), now, k)
      BY <2>2, KlinesNow, KlinesFacts
  <2>4. j \in Job /\ j.rows = Klines(k) /\ j.job = worker[w].job
      BY <2>1, <2>3 DEF IsFetch, Job
  <2> HIDE DEF j
  <2>5. /\ worker' \in [Workers -> Job] /\ FetchedInv'
        /\ \A v \in Workers : worker'[v].job = "none" => worker'[v].rows = <<>>
      BY <2>1, <2>2, <2>3, <2>4, WorkerType
  <2>6. outage' \in BOOLEAN
      BY <1>2 DEF FetchAnswered, IInv, TypeOK
  <2>7. TypeOK'
      BY <1>2, <2>5, <2>6 DEF FetchAnswered, IInv, TypeOK, Job
  <2> QED BY <1>2, <2>5, <2>7 DEF FetchAnswered, IInv
<1>3. ASSUME NEW w \in Workers, FetchFailed(w) PROVE IInv'
  <2>1. /\ worker' \in [Workers -> Job] /\ FetchedInv'
        /\ \A v \in Workers : worker'[v].job = "none" => worker'[v].rows = <<>>
      BY <1>3, <1>n, WorkerType DEF FetchFailed
  <2>2. TypeOK'
      BY <1>3, <2>1 DEF FetchFailed, IInv, TypeOK, history, Job
  <2> QED BY <1>3, <2>1, <2>2 DEF FetchFailed, IInv
<1>4. ASSUME NEW w \in Workers, StoreInitial(w) PROVE IInv'
  <2>1. /\ worker' \in [Workers -> Job] /\ FetchedInv'
        /\ \A v \in Workers : worker'[v].job = "none" => worker'[v].rows = <<>>
      BY <1>4, <1>n, WorkerType DEF StoreInitial
  <2>2. IsRows(worker[w].rows)
    <3>1. PICK n \in MaxLen .. now : IsFetch(worker[w].rows, n, MaxLen)
        BY <1>4, FetchOf DEF StoreInitial, Size
    <3> QED BY <3>1, ConstantsType DEF IsFetch, IsRows
  <2>3. TypeOK'
      BY <1>4, <2>1, <2>2 DEF StoreInitial, IInv, TypeOK, history, Job
  <2> QED BY <1>4, <2>1, <2>3 DEF StoreInitial, IInv
<1>5. ASSUME NEW w \in Workers, StorePoll(w) PROVE IInv'
  <2>1. /\ worker' \in [Workers -> Job] /\ FetchedInv'
        /\ \A v \in Workers : worker'[v].job = "none" => worker'[v].rows = <<>>
      BY <1>5, <1>n, WorkerType DEF StorePoll
  <2> DEFINE new == StoreRows(worker[w].rows)
  <2>2. new \in Accs /\ Len(new.s) <= MaxLen
    <3>1. PICK n \in MaxLen .. now : /\ worker[w].rows = KlinesAt(n, 3)
                                     /\ n \in Nat /\ n <= MaxNow
        BY <1>5, FetchOf DEF StorePoll, Size
    <3>2. StoresAll(worker[w].rows, new)
        BY <3>1, ConstantsType, StoreRowsFacts DEF IInv
    <3> QED BY <3>2 DEF StoresAll
  <2>3. series' = new.s /\ dirty' = new.dirty
      BY <1>5 DEF StorePoll
  <2> HIDE DEF new
  <2>4. IsRows(series') /\ dirty' \in BOOLEAN
      BY <2>2, <2>3 DEF Accs, IsRows
  <2>5. TypeOK'
      BY <1>5, <2>1, <2>4 DEF StorePoll, IInv, TypeOK, history, Job, IsRows
  <2> QED BY <1>5, <2>1, <2>5 DEF StorePoll, IInv
<1>6. ASSUME NEW w \in Workers, PollStarts(w) PROVE IInv'
  <2>1. Ask("poll") \in Job /\ Ask("poll").rows = <<>> /\ Ask("poll").job = "poll"
      BY DEF Ask, Job
  <2>2. /\ worker' \in [Workers -> Job] /\ FetchedInv'
        /\ \A v \in Workers : worker'[v].job = "none" => worker'[v].rows = <<>>
      BY <1>6, <2>1, WorkerType DEF PollStarts
  <2>3. TypeOK'
      BY <1>6, <2>2 DEF PollStarts, IInv, TypeOK, history, Job
  <2> QED BY <1>6, <2>2, <2>3 DEF PollStarts, IInv
<1>7. CASE LoadEnds
    BY <1>7 DEF LoadEnds, IInv, TypeOK, history, FetchedInv
<1>8. CASE PollEnds
    BY <1>8 DEF PollEnds, IInv, TypeOK, history, FetchedInv
<1>9. CASE OnClose
  <2> DEFINE klines == reading[Scheduler].data
  <2>1. Scheduler \in Threads /\ klines \in Seq(Candles)
      BY DEF IInv, TypeOK, Threads
  <2>2. NotReading \in Reading /\ Len(NotReading.data) <= MaxLen
      BY ConstantsType DEF NotReading, Reading
  <2>3. /\ reading' \in [Threads -> Reading]
        /\ \A u \in Threads : Len(reading'[u].data) <= MaxLen
      BY <1>9, <2>1, <2>2 DEF OnClose, IInv, TypeOK, Reading
  <2>4. lastClose' \in 0 .. MaxNow /\ evaluated' \in Seq(1 .. MaxNow)
    <3>1. CASE NewClose(klines)
      <4>1. Last(klines).t \in 1 .. MaxNow
          BY <2>1, <3>1, LastOfRows DEF NewClose
      <4>2. lastClose' = Last(klines).t /\ evaluated' = Append(evaluated, Last(klines).t)
          BY <1>9, <3>1 DEF OnClose
      <4>3. evaluated \in Seq(1 .. MaxNow)
          BY DEF IInv, TypeOK
      <4> HIDE DEF klines
      <4> QED BY <4>1, <4>2, <4>3
    <3>2. CASE ~NewClose(klines)
        BY <1>9, <3>2 DEF OnClose, IInv, TypeOK
    <3> QED BY <3>1, <3>2
  <2>5. TypeOK' /\ FetchedInv'
      BY <1>9, <2>3, <2>4 DEF OnClose, IInv, TypeOK, Reading, FetchedInv
  <2> QED BY <1>9, <2>5 DEF OnClose, IInv
<1>10. ASSUME NEW t \in Threads, ReadCached(t) PROVE IInv'
  <2>1. IsRows(cache) /\ Got(t, cache)
      BY <1>10 DEF ReadCached, IInv, TypeOK
  <2>2. /\ reading' \in [Threads -> Reading]
        /\ \A u \in Threads : Len(reading'[u].data) <= MaxLen
        /\ sched' \in {"loading", "sleeping", "polling", "reading", "resolving"}
      BY <2>1, GotType
  <2> QED BY <1>10, <2>2 DEF ReadCached, IInv, TypeOK, Reading, FetchedInv, history
<1>11. ASSUME NEW t \in Threads, ReadSeries(t) PROVE IInv'
  <2> DEFINE r == [pc |-> "building", data |-> series]
  <2>1. r \in Reading /\ Len(r.data) <= MaxLen
      BY DEF IInv, TypeOK, Reading, IsRows
  <2>2. reading' = [reading EXCEPT ![t] = r]
      BY <1>11 DEF ReadSeries
  <2> HIDE DEF r
  <2>3. /\ reading' \in [Threads -> Reading]
        /\ \A u \in Threads : Len(reading'[u].data) <= MaxLen
      BY <2>1, <2>2 DEF IInv, TypeOK, Reading
  <2> QED BY <1>11, <2>3 DEF ReadSeries, IInv, TypeOK, Reading, FetchedInv, history
<1>12. ASSUME NEW t \in Threads, FrameBuilt(t) PROVE IInv'
  <2>1. IsRows(reading[t].data) /\ Got(t, reading[t].data)
      BY <1>12 DEF FrameBuilt, IInv, TypeOK, IsRows
  <2>2. /\ reading' \in [Threads -> Reading]
        /\ \A u \in Threads : Len(reading'[u].data) <= MaxLen
        /\ sched' \in {"loading", "sleeping", "polling", "reading", "resolving"}
      BY <2>1, GotType
  <2>3. stale' \subseteq Threads /\ cache' = reading[t].data /\ dirty' \in BOOLEAN
      BY <1>12 DEF FrameBuilt, IInv, TypeOK
  <2>4. TypeOK'
      BY <1>12, <2>1, <2>2, <2>3 DEF FrameBuilt, IInv, TypeOK, Reading, IsRows
  <2> QED BY <1>12, <2>4 DEF FrameBuilt, IInv, FetchedInv
<1>13. CASE UNCHANGED vars
    BY <1>13 DEF vars, history, IInv, TypeOK, FetchedInv
<1> QED
    BY <1>1, <1>2, <1>3, <1>4, <1>5, <1>6, <1>7, <1>8, <1>9, <1>10, <1>11, <1>12, <1>13
    DEF Next

(* The deque never outgrows maxlen, and whatever a worker, a reader or the
   callback has in hand are well-formed rows (data_stream.py:74-85, 209-218). *)
THEOREM TypeCorrect == Spec => []TypeOK
<1>1. IInv => TypeOK
    BY DEF IInv
<1> QED BY <1>1, InitType, TypeStep, PTL DEF Spec

-----------------------------------------------------------------------------
(* The clean cache.                                                        *)

LEMMA CleanStep == IInv /\ CleanCacheIsSeries /\ [Next]_vars => CleanCacheIsSeries'
<1> SUFFICES ASSUME IInv, CleanCacheIsSeries, [Next]_vars PROVE CleanCacheIsSeries'
    OBVIOUS
<1>k. UNCHANGED <<series, cache, dirty, stale>> => CleanCacheIsSeries'
    BY DEF CleanCacheIsSeries
<1>1. CASE CandleCloses
    BY <1>1, <1>k DEF CandleCloses, history
<1>2. ASSUME NEW w \in Workers, FetchAnswered(w) PROVE CleanCacheIsSeries'
    BY <1>2, <1>k DEF FetchAnswered
<1>3. ASSUME NEW w \in Workers, FetchFailed(w) PROVE CleanCacheIsSeries'
    BY <1>3, <1>k DEF FetchFailed, history
<1>4. ASSUME NEW w \in Workers, StoreInitial(w) PROVE CleanCacheIsSeries'
    BY <1>4 DEF StoreInitial, CleanCacheIsSeries
<1>5. ASSUME NEW w \in Workers, StorePoll(w) PROVE CleanCacheIsSeries'
  <2> DEFINE new == StoreRows(worker[w].rows)
  <2>1. PICK n \in MaxLen .. now : worker[w].rows = KlinesAt(n, 3) /\ n \in Nat /\ n <= MaxNow
      BY <1>5, FetchOf DEF StorePoll, Size
  <2>2. StoresAll(worker[w].rows, new)
      BY <2>1, ConstantsType, StoreRowsFacts DEF IInv
  <2>3. ~new.dirty => new.s = series /\ ~dirty
      BY <2>2 DEF StoresAll
  <2>4. series' = new.s /\ dirty' = new.dirty /\ cache' = cache /\ stale' = stale
      BY <1>5 DEF StorePoll, history
  <2> HIDE DEF new
  <2> QED BY <2>3, <2>4 DEF CleanCacheIsSeries
<1>6. ASSUME NEW w \in Workers, PollStarts(w) PROVE CleanCacheIsSeries'
    BY <1>6, <1>k DEF PollStarts, history
<1>7. CASE LoadEnds
    BY <1>7, <1>k DEF LoadEnds, history
<1>8. CASE PollEnds
    BY <1>8, <1>k DEF PollEnds, history
<1>9. CASE OnClose
    BY <1>9, <1>k DEF OnClose
<1>10. ASSUME NEW t \in Threads, ReadCached(t) PROVE CleanCacheIsSeries'
    BY <1>10, <1>k DEF ReadCached, history
<1>11. ASSUME NEW t \in Threads, ReadSeries(t) PROVE CleanCacheIsSeries'
    BY <1>11, <1>k DEF ReadSeries, history
<1>12. ASSUME NEW t \in Threads, FrameBuilt(t) PROVE CleanCacheIsSeries'
    BY <1>12 DEF FrameBuilt, CleanCacheIsSeries
<1>13. CASE UNCHANGED vars
    BY <1>13, <1>k DEF vars, history
<1> QED
    BY <1>1, <1>2, <1>3, <1>4, <1>5, <1>6, <1>7, <1>8, <1>9, <1>10, <1>11, <1>12, <1>13
    DEF Next

(* As long as no thread has cached a frame of rows that had changed while it
   was built, a clean cache is the series: every change of the series marks it,
   a row that only changes its values included (data_stream.py:209-218). *)
THEOREM CleanCacheTheorem == Spec => []CleanCacheIsSeries
<1>1. Init => CleanCacheIsSeries
    BY DEF Init, CleanCacheIsSeries
<1>2. Spec => []IInv
    BY InitType, TypeStep, PTL DEF Spec
<1> QED BY <1>1, <1>2, CleanStep, PTL DEF Spec

-----------------------------------------------------------------------------
(* One request at a time.                                                  *)

(* The requests of the key do not overlap: no worker outlives its wait, or
   one worker serves the key. *)
OneByOne == Late = {} \/ \E w : Workers = {w}

(* No two workers have a job, and when none is late, only while the scheduler
   waits for that job. *)
JobInv ==
    /\ \A v, w \in Workers : worker[v].job # "none" /\ worker[w].job # "none" => v = w
    /\ Late = {} => \A w \in Workers :
          /\ worker[w].job = "initial" => sched = "loading"
          /\ worker[w].job = "poll" => sched = "polling"

(* The callback's frame is read in its turn. *)
PhaseInv ==
    /\ reading[Scheduler].pc = "building" => sched = "reading"
    /\ reading[Scheduler].pc = "got" <=> sched = "resolving"

LEMMA PhaseStep == IInv /\ PhaseInv /\ [Next]_vars => PhaseInv'
<1> SUFFICES ASSUME IInv, PhaseInv, [Next]_vars PROVE PhaseInv'
    OBVIOUS
<1>t. reading \in [Threads -> Reading] /\ Scheduler \in Threads
    BY DEF IInv, TypeOK, Reading, Threads
<1>k. UNCHANGED <<reading, sched>> => PhaseInv'
    BY DEF PhaseInv
<1>1. CASE CandleCloses
    BY <1>1, <1>k DEF CandleCloses
<1>2. ASSUME NEW w \in Workers,
             FetchAnswered(w) \/ FetchFailed(w) \/ StoreInitial(w) \/ StorePoll(w)
      PROVE  PhaseInv'
    BY <1>2, <1>k DEF FetchAnswered, FetchFailed, StoreInitial, StorePoll
<1>3. ASSUME NEW w \in Workers, PollStarts(w) PROVE PhaseInv'
    BY <1>3 DEF PollStarts, PhaseInv
<1>4. CASE LoadEnds \/ PollEnds
    BY <1>4 DEF LoadEnds, PollEnds, PhaseInv
<1>5. CASE OnClose
    BY <1>5, <1>t DEF OnClose, PhaseInv, NotReading
<1>6. ASSUME NEW t \in Threads, NEW klines, Got(t, klines) PROVE PhaseInv'
    BY <1>6, <1>t DEF Got, PhaseInv, NotReading
<1>7. ASSUME NEW t \in Threads, ReadCached(t) PROVE PhaseInv'
    BY <1>6, <1>7 DEF ReadCached, MayRead
<1>8. ASSUME NEW t \in Threads, ReadSeries(t) PROVE PhaseInv'
    BY <1>8, <1>t DEF ReadSeries, MayRead, PhaseInv
<1>9. ASSUME NEW t \in Threads, FrameBuilt(t) PROVE PhaseInv'
    BY <1>6, <1>9 DEF FrameBuilt, PhaseInv
<1>10. CASE UNCHANGED vars
    BY <1>10, <1>k DEF vars
<1> QED BY <1>1, <1>2, <1>3, <1>4, <1>5, <1>7, <1>8, <1>9, <1>10 DEF Next

LEMMA JobStep == OneByOne /\ IInv /\ PhaseInv /\ JobInv /\ [Next]_vars => JobInv'
<1> SUFFICES ASSUME OneByOne, IInv, PhaseInv, JobInv, [Next]_vars PROVE JobInv'
    OBVIOUS
<1>k. UNCHANGED <<worker, sched>> => JobInv'
    BY DEF JobInv
<1>t. worker \in [Workers -> Job]
    BY DEF IInv, TypeOK, Job
(* A worker ends its job. *)
<1>e. ASSUME NEW w \in Workers, worker' = [worker EXCEPT ![w] = NoJob], sched' = sched
      PROVE  JobInv'
  <2>1. \A v \in Workers : worker'[v].job # "none" => v # w /\ worker'[v] = worker[v]
      BY <1>t, <1>e DEF NoJob
  <2> QED BY <1>e, <2>1 DEF JobInv
<1>1. CASE CandleCloses
    BY <1>1, <1>k DEF CandleCloses
<1>2. ASSUME NEW w \in Workers, FetchAnswered(w) PROVE JobInv'
  <2>1. \A v \in Workers : worker'[v].job = worker[v].job
      BY <1>2, <1>t DEF FetchAnswered, Job
  <2> QED BY <1>2, <2>1 DEF FetchAnswered, JobInv
<1>3. ASSUME NEW w \in Workers, FetchFailed(w) PROVE JobInv'
    BY <1>3, <1>e DEF FetchFailed
<1>4. ASSUME NEW w \in Workers, StoreInitial(w) PROVE JobInv'
    BY <1>4, <1>e DEF StoreInitial
<1>5. ASSUME NEW w \in Workers, StorePoll(w) PROVE JobInv'
    BY <1>5, <1>e DEF StorePoll
<1>6. ASSUME NEW w \in Workers, PollStarts(w) PROVE JobInv'
  <2>1. \A v \in Workers : worker'[v] = IF v = w THEN Ask("poll") ELSE worker[v]
      BY <1>6, <1>t DEF PollStarts
  <2>2. \A v \in Workers : v # w => worker[v].job = "none"
    <3>1. CASE Late = {}
        BY <1>6, <1>t, <3>1 DEF PollStarts, JobInv, Job
    <3>2. CASE \E u : Workers = {u}
        BY <3>2
    <3> QED BY <3>1, <3>2 DEF OneByOne
  <2> QED BY <1>6, <2>1, <2>2 DEF PollStarts, JobInv, Ask
<1>7. CASE LoadEnds
    BY <1>7 DEF LoadEnds, Waited, JobInv
<1>8. CASE PollEnds
    BY <1>8 DEF PollEnds, Waited, JobInv
<1>9. CASE OnClose
    BY <1>9 DEF OnClose, JobInv
<1>10. ASSUME NEW t \in Threads, ReadCached(t) PROVE JobInv'
    BY <1>10 DEF ReadCached, Got, MayRead, JobInv
<1>11. ASSUME NEW t \in Threads, ReadSeries(t) PROVE JobInv'
    BY <1>11, <1>k DEF ReadSeries
<1>12. ASSUME NEW t \in Threads, FrameBuilt(t) PROVE JobInv'
    BY <1>12 DEF FrameBuilt, Got, PhaseInv, JobInv
<1>13. CASE UNCHANGED vars
    BY <1>13, <1>k DEF vars
<1> QED
    BY <1>1, <1>2, <1>3, <1>4, <1>5, <1>6, <1>7, <1>8, <1>9, <1>10, <1>11, <1>12, <1>13
    DEF Next

(* The three invariants so far hold together. *)
LEMMA Requests ==
    ASSUME OneByOne PROVE Spec => [](IInv /\ PhaseInv /\ JobInv)
<1>1. Init => PhaseInv
    BY DEF Init, PhaseInv, NotReading, Threads
<1>2. Init => JobInv
    BY DEF Init, JobInv, NoJob, Ask
<1> QED BY <1>1, <1>2, InitType, TypeStep, PhaseStep, JobStep, PTL DEF Spec

-----------------------------------------------------------------------------
(* The order of the closes.                                                *)

(* What a worker has in hand is not older than the series. *)
AheadInv ==
    series # <<>> =>
        /\ Last(series).t <= now
        /\ \A w \in Workers : worker[w].rows # <<>> =>
              Last(series).t <= Last(worker[w].rows).t

(* The series only gets newer. *)
Grows == series # <<>> => series' # <<>> /\ Last(series).t <= Last(series').t

LEMMA LastTimes ==
    ASSUME IInv
    PROVE  /\ now \in Nat
           /\ series # <<>> => Last(series).t \in Nat
           /\ cache # <<>> => Last(cache).t \in Nat
           /\ \A t \in Threads : reading[t].data # <<>> => Last(reading[t].data).t \in Nat
           /\ \A w \in Workers : worker[w].rows # <<>> =>
                 Last(worker[w].rows).t \in Nat /\ Last(worker[w].rows).t <= now
<1>1. now \in Nat
    BY DEF IInv, TypeOK
<1>2. /\ series # <<>> => Last(series).t \in Nat
      /\ cache # <<>> => Last(cache).t \in Nat
    BY LastOfRows DEF IInv, TypeOK, IsRows
<1>3. ASSUME NEW t \in Threads, reading[t].data # <<>> PROVE Last(reading[t].data).t \in Nat
  <2>1. reading[t].data \in Seq(Candles)
      BY DEF IInv, TypeOK
  <2> QED BY <1>3, <2>1, LastOfRows
<1>4. ASSUME NEW w \in Workers, worker[w].rows # <<>>
      PROVE  Last(worker[w].rows).t \in Nat /\ Last(worker[w].rows).t <= now
  <2>1. PICK n \in MaxLen .. now : IsFetch(worker[w].rows, n, Size(worker[w].job)) /\ n \in Nat
      BY <1>4, FetchOf
  <2> QED BY <1>1, <2>1 DEF IsFetch
<1> QED BY <1>1, <1>2, <1>3, <1>4

(* What is stored ends with the newest row in hand. *)
LEMMA StoredLast ==
    ASSUME IInv, NEW w \in Workers, StoreInitial(w) \/ StorePoll(w)
    PROVE  series' # <<>> /\ Last(series') = Last(worker[w].rows) /\ worker[w].rows # <<>>
<1>1. CASE StoreInitial(w)
    BY <1>1 DEF StoreInitial
<1>2. CASE StorePoll(w)
  <2> DEFINE klines == worker[w].rows
             new == StoreRows(klines)
             k == Len(new.s)
  <2>1. PICK n \in MaxLen .. now : /\ klines = KlinesAt(n, 3) /\ n \in Nat /\ n <= MaxNow
                                   /\ IsFetch(klines, n, 3)
      BY <1>2, FetchOf DEF StorePoll, Size
  <2>2. StoresAll(klines, new)
      BY <2>1, ConstantsType, StoreRowsFacts DEF IInv
  <2>3. series' = new.s /\ klines # <<>>
      BY <1>2 DEF StorePoll
  <2>4. Len(klines) = 3
      BY <2>1 DEF IsFetch
  <2> HIDE DEF new, klines
  <2>5. k \in Nat /\ k >= 3 /\ new.s[k - 3 + 3] = klines[3] /\ new.s # <<>>
      BY <2>2 DEF StoresAll, Accs
  <2> HIDE DEF k
  <2>6. new.s[k] = klines[3]
      BY <2>5
  <2>7. Last(new.s) = Last(klines)
      BY <2>4, <2>6 DEF Last, k
  <2> QED BY <2>3, <2>5, <2>7 DEF klines
<1> QED BY <1>1, <1>2

LEMMA AheadStep == IInv /\ JobInv /\ AheadInv /\ [Next]_vars => AheadInv' /\ Grows
<1> SUFFICES ASSUME IInv, JobInv, AheadInv, [Next]_vars PROVE AheadInv' /\ Grows
    OBVIOUS
<1>t. worker \in [Workers -> Job]
    BY DEF IInv, TypeOK, Job
<1>g. series' = series => Grows
    BY LastTimes DEF Grows
<1>k. UNCHANGED <<now, series, worker>> => AheadInv' /\ Grows
    BY <1>g DEF AheadInv
<1>1. CASE CandleCloses
    BY <1>1, <1>g, LastTimes DEF CandleCloses, AheadInv
<1>2. ASSUME NEW w \in Workers, FetchAnswered(w) PROVE AheadInv' /\ Grows
  <2> DEFINE j == IF worker[w].job = "initial" THEN MaxLen ELSE FetchLimit
  <2>1. now \in Nat /\ now <= MaxNow /\ j \in Nat /\ 1 <= j /\ j <= now
      BY ConstantsType DEF IInv, TypeOK, FetchLimit
  <2>2. \A v \in Workers : worker'[v].rows = IF v = w THEN Klines(j) ELSE worker[v].rows
      BY <1>2, <1>t DEF FetchAnswered, Job
  <2> HIDE DEF j
  <2>3. Last(Klines(j)).t = now
      BY <2>1, KlinesNow, KlinesFacts DEF IsFetch
  <2>4. series' = series /\ now' = now
      BY <1>2 DEF FetchAnswered
  <2> QED BY <1>g, <2>2, <2>3, <2>4 DEF AheadInv
<1>3. ASSUME NEW w \in Workers, FetchFailed(w) PROVE AheadInv' /\ Grows
    BY <1>3, <1>g, <1>t DEF FetchFailed, AheadInv, NoJob
<1>4. ASSUME NEW w \in Workers, StoreInitial(w) \/ StorePoll(w) PROVE AheadInv' /\ Grows
  <2>1. series' # <<>> /\ Last(series') = Last(worker[w].rows) /\ worker[w].rows # <<>>
      BY <1>4, StoredLast
  <2>2. Grows
      BY <2>1 DEF Grows, AheadInv
  <2>3. worker' = [worker EXCEPT ![w] = NoJob] /\ now' = now /\ worker[w].job # "none"
      BY <1>4 DEF StoreInitial, StorePoll
  <2>4. \A v \in Workers : worker'[v].rows = <<>>
    <3> TAKE v \in Workers
    <3>1. CASE v = w
        BY <1>t, <2>3, <3>1 DEF NoJob
    <3>2. CASE v # w
        BY <1>t, <2>3, <3>2 DEF JobInv, IInv, TypeOK
    <3> QED BY <3>1, <3>2
  <2>5. Last(series').t <= now
      BY <2>1, LastTimes
  <2> QED BY <2>2, <2>3, <2>4, <2>5 DEF AheadInv
<1>6. ASSUME NEW w \in Workers, PollStarts(w) PROVE AheadInv' /\ Grows
    BY <1>6, <1>g, <1>t DEF PollStarts, AheadInv, Ask
<1>7. CASE LoadEnds \/ PollEnds \/ OnClose
    BY <1>7, <1>k DEF LoadEnds, PollEnds, OnClose
<1>8. ASSUME NEW t \in Threads, ReadCached(t) \/ ReadSeries(t) \/ FrameBuilt(t)
      PROVE  AheadInv' /\ Grows
    BY <1>8, <1>k DEF ReadCached, ReadSeries, FrameBuilt
<1>9. CASE UNCHANGED vars
    BY <1>9, <1>k DEF vars
<1> QED BY <1>1, <1>2, <1>3, <1>4, <1>6, <1>7, <1>8, <1>9 DEF Next

(* The last close is not newer than the series, nor is any frame; and unless a
   monitor has cached an outdated one, the frame the callback evaluates next is
   not older than the last close. *)
FramesInv ==
    /\ lastClose # NoClose => series # <<>> /\ lastClose <= Last(series).t
    /\ cache # <<>> => series # <<>> /\ Last(cache).t <= Last(series).t
    /\ \A t \in Threads : reading[t].data # <<>> =>
          series # <<>> /\ Last(reading[t].data).t <= Last(series).t
    /\ reading[Scheduler].pc = "building" /\ lastClose # NoClose =>
          reading[Scheduler].data # <<>> /\ lastClose <= Last(reading[Scheduler].data).t

OrderInv ==
    stale \subseteq {Scheduler} =>
      /\ lastClose # NoClose /\ cache # <<>> => lastClose <= Last(cache).t
      /\ reading[Scheduler].pc = "got" /\ reading[Scheduler].data # <<>> =>
            /\ cache # <<>> /\ Last(reading[Scheduler].data).t <= Last(cache).t
            /\ lastClose <= Last(reading[Scheduler].data).t

EvaluatedInv ==
    /\ evaluated = <<>> <=> lastClose = NoClose
    /\ evaluated # <<>> => evaluated[Len(evaluated)] = lastClose
    /\ EvaluatedInOrder

LEMMA FramesStep == IInv /\ PhaseInv /\ FramesInv /\ [Next]_vars /\ Grows => FramesInv'
<1> SUFFICES ASSUME IInv, PhaseInv, FramesInv, [Next]_vars, Grows PROVE FramesInv'
    OBVIOUS
<1>t. reading \in [Threads -> Reading] /\ Scheduler \in Threads /\ lastClose \in Nat
    BY DEF IInv, TypeOK, Reading, Threads
<1>k. UNCHANGED <<lastClose, cache, reading>> => FramesInv'
  <2> SUFFICES ASSUME UNCHANGED <<lastClose, cache, reading>> PROVE FramesInv'
      OBVIOUS
  <2>1. series # <<>> => /\ series' # <<>> /\ Last(series).t \in Nat
                         /\ Last(series).t <= Last(series').t
      BY LastTimes DEF Grows
  <2>2. series # <<>> => Last(series').t \in Int
    <3>1. IInv'
        BY TypeStep
    <3>2. series' \in Seq(Candles)
        BY <3>1 DEF IInv, TypeOK, IsRows
    <3> QED BY <2>1, <3>2, LastOfRows
  <2>3. lastClose # NoClose => series' # <<>> /\ lastClose <= Last(series').t
      BY <1>t, <2>1, <2>2 DEF FramesInv
  <2>4. cache # <<>> => series' # <<>> /\ Last(cache).t <= Last(series').t
      BY <2>1, <2>2, LastTimes DEF FramesInv
  <2>5. \A t \in Threads : reading[t].data # <<>> =>
           series' # <<>> /\ Last(reading[t].data).t <= Last(series').t
      BY <2>1, <2>2, LastTimes DEF FramesInv
  <2> QED BY <2>3, <2>4, <2>5 DEF FramesInv
<1>1. CASE CandleCloses
    BY <1>1, <1>k DEF CandleCloses
<1>2. ASSUME NEW w \in Workers,
             FetchAnswered(w) \/ FetchFailed(w) \/ StoreInitial(w) \/ StorePoll(w) \/ PollStarts(w)
      PROVE  FramesInv'
    BY <1>2, <1>k DEF FetchAnswered, FetchFailed, StoreInitial, StorePoll, PollStarts
<1>3. CASE LoadEnds \/ PollEnds
    BY <1>3, <1>k DEF LoadEnds, PollEnds
<1>4. CASE OnClose
  <2>1. /\ \A t \in Threads : reading'[t] = IF t = Scheduler THEN NotReading ELSE reading[t]
        /\ series' = series /\ cache' = cache
      BY <1>4, <1>t DEF OnClose
  <2>2. reading'[Scheduler].pc = "idle" /\ reading'[Scheduler].data = <<>>
      BY <1>t, <2>1 DEF NotReading
  <2>3. lastClose' # NoClose => series # <<>> /\ lastClose' <= Last(series).t
      BY <1>4, <1>t DEF OnClose, NewClose, FramesInv
  <2> QED BY <2>1, <2>2, <2>3 DEF FramesInv
<1>5. ASSUME NEW t \in Threads, NEW klines, Got(t, klines), UNCHANGED <<series, lastClose>>,
             klines # <<>> => series # <<>> /\ Last(klines).t <= Last(series).t,
             cache' = cache \/ cache' = klines
      PROVE  FramesInv'
  <2>1. \A u \in Threads : u # t => reading'[u] = reading[u]
      BY <1>5, <1>t DEF Got
  <2>2. /\ reading'[t].pc # "building"
        /\ reading'[t].data = <<>> \/ reading'[t].data = klines
      BY <1>5, <1>t DEF Got, NotReading
  <2> QED BY <1>5, <1>t, <2>1, <2>2 DEF FramesInv
<1>6. ASSUME NEW t \in Threads, ReadCached(t) PROVE FramesInv'
    BY <1>5, <1>6 DEF ReadCached, FramesInv
<1>7. ASSUME NEW t \in Threads, ReadSeries(t) PROVE FramesInv'
  <2> DEFINE r == [pc |-> "building", data |-> series]
  <2>1. \A u \in Threads : reading'[u] = IF u = t THEN r ELSE reading[u]
      BY <1>7, <1>t DEF ReadSeries
  <2>2. UNCHANGED <<series, cache, lastClose>> /\ (series # <<>> => Last(series).t <= Last(series).t)
      BY <1>7, LastTimes DEF ReadSeries
  <2> QED BY <1>t, <2>1, <2>2 DEF FramesInv
<1>8. ASSUME NEW t \in Threads, FrameBuilt(t) PROVE FramesInv'
    BY <1>5, <1>8 DEF FrameBuilt, FramesInv
<1>9. CASE UNCHANGED vars
    BY <1>9, <1>k DEF vars
<1> QED BY <1>1, <1>2, <1>3, <1>4, <1>6, <1>7, <1>8, <1>9 DEF Next

LEMMA OrderStep ==
    IInv /\ PhaseInv /\ FramesInv /\ OrderInv /\ [Next]_vars => OrderInv'
<1> SUFFICES ASSUME IInv, PhaseInv, FramesInv, OrderInv, [Next]_vars PROVE OrderInv'
    OBVIOUS
<1>t. reading \in [Threads -> Reading] /\ Scheduler \in Threads /\ lastClose \in Nat
    BY DEF IInv, TypeOK, Reading, Threads
<1>k. UNCHANGED <<lastClose, cache, reading, stale>> => OrderInv'
    BY DEF OrderInv
<1>1. CASE CandleCloses
    BY <1>1, <1>k DEF CandleCloses, history
<1>2. ASSUME NEW w \in Workers,
             FetchAnswered(w) \/ FetchFailed(w) \/ StoreInitial(w) \/ StorePoll(w) \/ PollStarts(w)
      PROVE  OrderInv'
    BY <1>2, <1>k DEF FetchAnswered, FetchFailed, StoreInitial, StorePoll, PollStarts, history
<1>3. CASE LoadEnds \/ PollEnds
    BY <1>3, <1>k DEF LoadEnds, PollEnds, history
<1>4. CASE OnClose
  <2>1. reading[Scheduler].pc = "got" /\ cache' = cache /\ stale' = stale
      BY <1>4 DEF OnClose, PhaseInv
  <2>2. reading'[Scheduler].pc = "idle"
      BY <1>4, <1>t DEF OnClose, NotReading
  <2>3. stale \subseteq {Scheduler} /\ lastClose' # NoClose /\ cache # <<>> =>
           lastClose' <= Last(cache).t
      BY <1>4, <1>t, <2>1 DEF OnClose, NewClose, OrderInv
  <2> QED BY <2>1, <2>2, <2>3 DEF OrderInv
<1>5. ASSUME NEW t \in Threads, ReadCached(t) PROVE OrderInv'
  <2>1. UNCHANGED <<lastClose, cache, stale>> /\ cache # <<>>
      BY <1>5 DEF ReadCached, history, NoFrame
  <2>2. CASE t = Scheduler
    <3>1. reading'[Scheduler] = [pc |-> "got", data |-> cache]
        BY <1>5, <1>t, <2>2 DEF ReadCached, Got
    <3>2. Last(cache).t \in Nat
        BY <2>1, LastTimes
    <3> QED BY <1>t, <2>1, <3>1, <3>2 DEF OrderInv, NoClose
  <2>3. CASE t # Scheduler
    <3>1. reading'[Scheduler] = reading[Scheduler]
        BY <1>5, <1>t, <2>3 DEF ReadCached, Got
    <3> QED BY <2>1, <3>1 DEF OrderInv
  <2> QED BY <2>2, <2>3
<1>6. ASSUME NEW t \in Threads, ReadSeries(t) PROVE OrderInv'
  <2>1. UNCHANGED <<lastClose, cache, stale>>
      BY <1>6 DEF ReadSeries, history
  <2>2. reading'[Scheduler] = reading[Scheduler] \/ reading'[Scheduler].pc = "building"
      BY <1>6, <1>t DEF ReadSeries
  <2> QED BY <2>1, <2>2 DEF OrderInv
<1>7. ASSUME NEW t \in Threads, FrameBuilt(t) PROVE OrderInv'
  <2> DEFINE klines == reading[t].data
  <2>1. /\ lastClose' = lastClose /\ cache' = klines
        /\ stale' = IF klines = series THEN stale ELSE stale \cup {t}
        /\ reading[t].pc = "building" /\ Got(t, klines)
      BY <1>7 DEF FrameBuilt
  <2>2. klines # <<>> => Last(klines).t \in Nat
      BY LastTimes
  <2>3. CASE t = Scheduler
    <3>1. reading'[Scheduler] = [pc |-> "got", data |-> klines]
        BY <1>t, <2>1, <2>3 DEF Got
    <3>2. lastClose # NoClose => klines # <<>> /\ lastClose <= Last(klines).t
        BY <2>1, <2>3 DEF FramesInv
    <3> HIDE DEF klines
    <3> QED BY <1>t, <2>1, <2>2, <3>1, <3>2 DEF OrderInv, NoClose
  <2>4. CASE t # Scheduler
    <3>1. reading'[Scheduler] = reading[Scheduler]
        BY <1>t, <2>1, <2>4 DEF Got
    <3>2. SUFFICES ASSUME stale' \subseteq {Scheduler} PROVE OrderInv'
        BY DEF OrderInv
    <3>3. klines = series /\ stale \subseteq {Scheduler}
        BY <2>1, <2>4, <3>2
    <3>4. cache' = series
        BY <2>1, <3>3
    <3> QED BY <1>t, <2>1, <3>1, <3>3, <3>4 DEF OrderInv, FramesInv
  <2> QED BY <2>3, <2>4
<1>8. CASE UNCHANGED vars
    BY <1>8, <1>k DEF vars, history
<1> QED BY <1>1, <1>2, <1>3, <1>4, <1>5, <1>6, <1>7, <1>8 DEF Next

LEMMA EvaluatedStep ==
    IInv /\ PhaseInv /\ OrderInv /\ EvaluatedInv /\ [Next]_vars => EvaluatedInv'
<1> SUFFICES ASSUME IInv, PhaseInv, OrderInv, EvaluatedInv, [Next]_vars PROVE EvaluatedInv'
    OBVIOUS
<1>t. reading \in [Threads -> Reading] /\ Scheduler \in Threads /\ lastClose \in Nat
    BY DEF IInv, TypeOK, Reading, Threads
<1>k. UNCHANGED <<lastClose, evaluated>> /\ stale \subseteq stale' => EvaluatedInv'
    BY DEF EvaluatedInv, EvaluatedInOrder
<1>1. CASE OnClose
  <2> DEFINE klines == reading[Scheduler].data
             x == Last(klines).t
             n == Len(evaluated)
  <2>1. CASE ~NewClose(klines)
      BY <1>1, <1>k, <2>1 DEF OnClose
  <2>2. CASE NewClose(klines)
    <3>1. /\ lastClose' = x /\ evaluated' = Append(evaluated, x) /\ stale' = stale
          /\ klines # <<>> /\ x # lastClose /\ reading[Scheduler].pc = "got"
        BY <1>1, <2>2 DEF OnClose, NewClose, PhaseInv
    <3>2. x \in 1 .. MaxNow
      <4>1. klines \in Seq(Candles)
          BY <1>t DEF Reading
      <4> QED BY <3>1, <4>1, LastOfRows
    <3>3. stale \subseteq {Scheduler} => lastClose < x
        BY <1>t, <3>1, <3>2 DEF OrderInv
    <3> HIDE DEF x, klines
    <3>4. evaluated \in Seq(1 .. MaxNow)
        BY DEF IInv, TypeOK
    <3>5. /\ evaluated' \in Seq(1 .. MaxNow) /\ Len(evaluated') = n + 1 /\ n \in Nat
          /\ evaluated'[n + 1] = x /\ \A i \in 1 .. n : evaluated'[i] = evaluated[i]
        BY <3>1, <3>2, <3>4
    <3> HIDE DEF n
    <3>6. stale \subseteq {Scheduler} => \A i \in 1 .. n : evaluated'[i] < evaluated'[i + 1]
      <4> SUFFICES ASSUME stale \subseteq {Scheduler}, NEW i \in 1 .. n
                   PROVE  evaluated'[i] < evaluated'[i + 1]
          OBVIOUS
      <4>1. CASE i = n
        <5>1. evaluated[n] = lastClose
            BY <3>5 DEF EvaluatedInv, n
        <5> QED BY <3>3, <3>5, <4>1, <5>1
      <4>2. CASE i # n
        <5>1. i \in 1 .. n - 1 /\ i + 1 \in 1 .. n
            BY <3>5, <4>2
        <5>2. evaluated[i] < evaluated[i + 1]
            BY <5>1 DEF EvaluatedInv, EvaluatedInOrder, n
        <5> QED BY <3>5, <5>1, <5>2
      <4> QED BY <4>1, <4>2
    <3>7. EvaluatedInOrder'
        BY <3>1, <3>5, <3>6 DEF EvaluatedInOrder
    <3>8. evaluated' # <<>> /\ lastClose' # NoClose
        BY <3>1, <3>2, <3>5 DEF NoClose
    <3> QED BY <3>1, <3>5, <3>7, <3>8 DEF EvaluatedInv
  <2> QED BY <2>1, <2>2
<1>2. CASE CandleCloses \/ LoadEnds \/ PollEnds
    BY <1>2, <1>k DEF CandleCloses, LoadEnds, PollEnds, history
<1>3. ASSUME NEW w \in Workers,
             FetchAnswered(w) \/ FetchFailed(w) \/ StoreInitial(w) \/ StorePoll(w) \/ PollStarts(w)
      PROVE  EvaluatedInv'
    BY <1>3, <1>k DEF FetchAnswered, FetchFailed, StoreInitial, StorePoll, PollStarts, history
<1>4. ASSUME NEW t \in Threads, ReadCached(t) \/ ReadSeries(t) \/ FrameBuilt(t)
      PROVE  EvaluatedInv'
    BY <1>4, <1>k DEF ReadCached, ReadSeries, FrameBuilt, history
<1>5. CASE UNCHANGED vars
    BY <1>5, <1>k DEF vars, history
<1> QED BY <1>1, <1>2, <1>3, <1>4, <1>5 DEF Next

(* When requests do not overlap, closes are evaluated once and in order, however
   many polls fail or are answered late, until a monitor caches a frame that
   was outdated when it was built (entry_service.py:172-184). *)
THEOREM OrderTheorem ==
    ASSUME OneByOne PROVE Spec => []EvaluatedInOrder
<1>1. Init => AheadInv /\ FramesInv /\ OrderInv /\ EvaluatedInv
  <2>1. ASSUME Init PROVE FramesInv
      BY <2>1 DEF Init, FramesInv, NoFrame, NotReading, Threads
  <2>2. ASSUME Init PROVE OrderInv
      BY <2>2 DEF Init, OrderInv, NoFrame, NotReading, Threads
  <2>3. ASSUME Init PROVE EvaluatedInv
      BY <2>3 DEF Init, EvaluatedInv, EvaluatedInOrder
  <2> QED BY <2>1, <2>2, <2>3 DEF Init, AheadInv
<1>2. Spec => [](IInv /\ PhaseInv /\ JobInv)
    BY Requests
<1>3. Spec => []EvaluatedInv
    BY <1>1, <1>2, AheadStep, FramesStep, OrderStep, EvaluatedStep, PTL DEF Spec
<1>4. EvaluatedInv => EvaluatedInOrder
    BY DEF EvaluatedInv
<1> QED BY <1>3, <1>4, PTL

-----------------------------------------------------------------------------
(* The tail of the series.                                                 *)

(* From each row on, every candle up to the newest is there; the last copy of a
   candle before the newest is final. *)
Whole(s) ==
    \A i \in 1 .. Len(s) :
        /\ s[i].t <= s[Len(s)].t
        /\ \A x \in s[i].t .. s[Len(s)].t : \E m \in i .. Len(s) : s[m].t = x
Final(s) ==
    \A i \in 1 .. Len(s) :
        IsLastCopy(s, i) /\ s[i].t < s[Len(s)].t => s[i].closed = TRUE

(* The rows of a poll begin where the series still is, unless there was an outage. *)
BridgeInv ==
    ~outage => \A w \in Workers :
        /\ worker[w].job = "poll" /\ worker[w].rows # <<>> /\ series # <<>>
        => worker[w].rows[1].t <= Last(series).t

TailInv == ~outage => Whole(series) /\ Final(series)

LEMMA WholeComplete == IInv /\ TailInv => TailComplete
<1> SUFFICES ASSUME IInv, Whole(series), Final(series), NEW i \in DOMAIN series
             PROVE  /\ series[i].t <= Last(series).t
                    /\ series[i].t .. Last(series).t \subseteq Times(series)
                    /\ IsLastCopy(series, i) /\ series[i].t < Last(series).t => series[i].closed
    BY DEF TailInv, TailComplete
<1>1. series \in Seq(Candles) /\ i \in 1 .. Len(series) /\ DOMAIN series = 1 .. Len(series)
    BY DEF IInv, TypeOK, IsRows
<1>2. Last(series) = series[Len(series)]
    BY DEF Last
<1>3. series[i].t .. Last(series).t \subseteq Times(series)
  <2> SUFFICES ASSUME NEW x \in series[i].t .. Last(series).t PROVE x \in Times(series)
      OBVIOUS
  <2>1. PICK m \in i .. Len(series) : series[m].t = x
      BY <1>1, <1>2 DEF Whole
  <2>2. m \in DOMAIN series
      BY <1>1, <2>1
  <2> QED BY <2>1, <2>2 DEF Times
<1> QED BY <1>1, <1>2, <1>3 DEF Whole, Final

LEMMA FetchWhole ==
    ASSUME NEW n \in Nat, NEW k \in Nat, 1 <= k, k <= n, NEW klines, IsFetch(klines, n, k)
    PROVE  Whole(klines) /\ Final(klines)
<1>1. /\ Len(klines) = k /\ \A i \in 1 .. k : klines[i].t = n - k + i
      /\ \A i \in 1 .. k - 1 : klines[i].closed = TRUE
    BY DEF IsFetch
<1>2. Whole(klines)
  <2> SUFFICES ASSUME NEW i \in 1 .. k
               PROVE  /\ klines[i].t <= klines[k].t
                      /\ \A x \in klines[i].t .. klines[k].t : \E m \in i .. k : klines[m].t = x
      BY <1>1 DEF Whole
  <2>1. klines[i].t = n - k + i /\ klines[k].t = n
      BY <1>1
  <2>2. ASSUME NEW x \in n - k + i .. n PROVE \E m \in i .. k : klines[m].t = x
    <3> DEFINE m == x - n + k
    <3>1. m \in i .. k /\ m \in 1 .. k /\ n - k + m = x
        BY <2>2
    <3>2. klines[m].t = x
        BY <1>1, <3>1
    <3> QED BY <3>1, <3>2
  <2> QED BY <2>1, <2>2
<1>3. Final(klines)
  <2> SUFFICES ASSUME NEW i \in 1 .. k, klines[i].t < klines[k].t PROVE klines[i].closed = TRUE
      BY <1>1 DEF Final
  <2>1. i # k
      BY <1>1
  <2> QED BY <1>1, <2>1
<1> QED BY <1>2, <1>3

(* Three rows that begin where a whole series still is leave it whole. *)
LEMMA StoredWhole ==
    ASSUME IInv, NEW n \in Nat, 3 <= n, NEW klines, IsFetch(klines, n, 3),
           NEW res, StoresAll(klines, res), Whole(series), Final(series),
           series # <<>> => klines[1].t <= Last(series).t /\ Last(series).t <= n
    PROVE  Whole(res.s) /\ Final(res.s)
<1> DEFINE r == res.s
           k == Len(res.s)
           z == Len(series)
<1>1. k \in Nat /\ k >= 3 /\ z \in Nat
    BY DEF StoresAll, Accs, IInv, TypeOK, IsRows
<1>2. PICK d \in 0 .. 3 :
          /\ \A i \in 1 .. k - 3 : r[i] = series[i + d]
          /\ \/ k - 3 + d = z
             \/ series # <<>> /\ k - 3 + d = z - 1 /\ Last(series).t = klines[1].t
    BY DEF StoresAll
<1>3. \A i \in 1 .. 3 : r[k - 3 + i] = klines[i]
    BY DEF StoresAll
<1>4. /\ klines[1].t = n - 2 /\ klines[2].t = n - 1 /\ klines[3].t = n
      /\ klines[1].closed = TRUE /\ klines[2].closed = TRUE
    BY DEF IsFetch
<1> HIDE DEF k, r, z
<1>5. r[k - 2] = klines[1] /\ r[k - 1] = klines[2] /\ r[k] = klines[3]
  <2>1. k - 3 + 1 = k - 2 /\ k - 3 + 2 = k - 1 /\ k - 3 + 3 = k
      BY <1>1
  <2> QED BY <1>3, <2>1
(* The newest three candles are the rows. *)
<1>6. \A x \in n - 2 .. n : \E m \in k - 2 .. k : r[m].t = x
  <2> TAKE x \in n - 2 .. n
  <2>1. x = n - 2 \/ x = n - 1 \/ x = n
      OBVIOUS
  <2> QED BY <1>1, <1>4, <1>5, <2>1
(* An older row is one of the series, with what follows it there. *)
<1>7. ASSUME NEW i \in 1 .. k - 3
      PROVE  /\ i + d \in 1 .. z /\ r[i] = series[i + d]
             /\ series # <<>> /\ Last(series) = series[z]
             /\ r[i].t \in Nat /\ series[z].t \in Nat
             /\ r[i].t <= series[z].t /\ n - 2 <= series[z].t /\ series[z].t <= n
  <2>1. i + d \in 1 .. z /\ r[i] = series[i + d]
      BY <1>1, <1>2
  <2>2. series \in Seq(Candles)
      BY DEF IInv, TypeOK, IsRows
  <2>3. series # <<>> /\ Last(series) = series[z] /\ z \in 1 .. z
      BY <2>1, <2>2, <1>1 DEF Last, z
  <2>4. series[i + d] \in Candles /\ series[z] \in Candles
      BY <2>1, <2>2, <2>3 DEF z
  <2>5. series[i + d].t <= series[z].t
      BY <2>1 DEF Whole, z
  <2> QED BY <1>4, <2>1, <2>3, <2>4, <2>5 DEF Candles
<1>8. ASSUME NEW i \in 1 .. k - 3, NEW j \in i + d .. z, series[j].t < n - 2
      PROVE  j - d \in i .. k - 3 /\ r[j - d] = series[j]
  <2>1. j <= k - 3 + d
    <3>1. CASE k - 3 + d = z
        BY <1>1, <3>1
    <3>2. CASE series # <<>> /\ k - 3 + d = z - 1 /\ Last(series).t = klines[1].t
      <4>1. series[z].t = n - 2
          BY <1>4, <1>7, <3>2
      <4>2. j # z
          BY <1>8, <4>1
      <4> QED BY <1>1, <3>2, <4>2
    <3> QED BY <1>2, <3>1, <3>2
  <2>2. j - d \in i .. k - 3 /\ j - d \in 1 .. k - 3 /\ j - d + d = j
      BY <1>1, <2>1
  <2>3. r[j - d] = series[j - d + d]
      BY <1>2, <2>2
  <2> QED BY <2>2, <2>3
<1>9. ASSUME NEW i \in 1 .. k
      PROVE  r[i].t <= n /\ \A x \in r[i].t .. n : \E m \in i .. k : r[m].t = x
  <2>1. CASE i \in 1 .. k - 3
    <3>1. r[i].t <= n /\ r[i].t \in Nat
        BY <1>7, <2>1
    <3>2. ASSUME NEW x \in r[i].t .. n PROVE \E m \in i .. k : r[m].t = x
      <4>1. CASE x \in n - 2 .. n
        <5>1. PICK m \in k - 2 .. k : r[m].t = x
            BY <1>6, <4>1
        <5> QED BY <1>1, <2>1, <5>1
      <4>2. CASE x < n - 2
        <5>1. x \in series[i + d].t .. series[z].t
            BY <1>7, <2>1, <3>1, <4>2
        <5>2. PICK j \in i + d .. z : series[j].t = x
            BY <1>7, <2>1, <5>1 DEF Whole, z
        <5>3. j - d \in i .. k - 3 /\ r[j - d] = series[j]
            BY <1>8, <2>1, <4>2, <5>2
        <5> QED BY <1>1, <5>2, <5>3
      <4> QED BY <3>1, <4>1, <4>2
    <3> QED BY <3>1, <3>2
  <2>2. CASE i \in k - 2 .. k
    <3>1. i = k - 2 \/ i = k - 1 \/ i = k
        BY <1>1, <2>2
    <3>2. k - 2 \in k - 2 .. k /\ k - 1 \in k - 2 .. k /\ k \in k - 2 .. k
        BY <1>1
    <3>3. CASE i = k - 2
      <4>1. r[i].t = n - 2
          BY <1>4, <1>5, <3>3
      <4> QED BY <1>6, <3>3, <4>1
    <3>4. CASE i = k - 1
      <4>1. r[i].t = n - 1 /\ r[k].t = n
          BY <1>4, <1>5, <3>4
      <4>2. \A x \in n - 1 .. n : x = n - 1 \/ x = n
          OBVIOUS
      <4>3. k - 1 \in i .. k /\ k \in i .. k
          BY <1>1, <3>4
      <4> QED BY <3>4, <4>1, <4>2, <4>3
    <3>5. CASE i = k
      <4>1. r[i].t = n /\ \A x \in n .. n : x = n
          BY <1>4, <1>5, <3>5
      <4> QED BY <1>1, <3>5, <4>1
    <3> QED BY <3>1, <3>3, <3>4, <3>5
  <2> QED BY <1>1, <2>1, <2>2
<1>10. ASSUME NEW i \in 1 .. k, IsLastCopy(r, i), r[i].t < n PROVE r[i].closed = TRUE
  <2>1. CASE i \in 1 .. k - 3
    <3>1. r[i].t \in Nat /\ r[i].t < n - 2
      <4>1. r[i].t \in Nat
          BY <1>7, <2>1
      <4>2. \A m \in k - 2 .. k : m \in i + 1 .. Len(r)
          BY <1>1, <2>1 DEF k, r
      <4>3. \A m \in k - 2 .. k : r[m].t # r[i].t
          BY <1>10, <4>2 DEF IsLastCopy
      <4>4. r[i].t \notin n - 2 .. n
          BY <1>6, <4>3
      <4> QED BY <1>10, <4>1, <4>4
    <3>2. IsLastCopy(series, i + d)
      <4> SUFFICES ASSUME NEW j \in i + d + 1 .. z, series[j].t = series[i + d].t PROVE FALSE
          BY DEF IsLastCopy, z
      <4>1. j \in i + d .. z /\ series[j].t < n - 2
          BY <1>1, <1>7, <2>1, <3>1
      <4>2. j - d \in i .. k - 3 /\ r[j - d] = series[j]
          BY <1>8, <2>1, <4>1
      <4>3. j - d \in i + 1 .. Len(r)
          BY <1>1, <4>2 DEF k, r
      <4>4. r[j - d].t # r[i].t
          BY <1>10, <4>3 DEF IsLastCopy
      <4> QED BY <1>7, <2>1, <4>2, <4>4
    <3>3. series[i + d].t < series[z].t
        BY <1>7, <2>1, <3>1
    <3>4. series[i + d].closed = TRUE
        BY <1>7, <2>1, <3>2, <3>3 DEF Final, z
    <3> QED BY <1>7, <2>1, <3>4
  <2>2. CASE i \in k - 2 .. k
    <3>1. i = k - 2 \/ i = k - 1 \/ i = k
        BY <1>1, <2>2
    <3>2. i # k
        BY <1>4, <1>5, <1>10
    <3> QED BY <1>4, <1>5, <3>1, <3>2
  <2>3. i \in 1 .. k - 3 \/ i \in k - 2 .. k
      BY <1>1
  <2> QED BY <2>1, <2>2, <2>3
<1>11. r[k].t = n
    BY <1>4, <1>5
<1> QED BY <1>9, <1>10, <1>11 DEF Whole, Final, r, k

LEMMA TailStep ==
    /\ IInv /\ JobInv /\ AheadInv /\ BridgeInv /\ TailInv
    /\ [Next]_vars
    => BridgeInv' /\ TailInv'
<1> SUFFICES ASSUME IInv, JobInv, AheadInv, BridgeInv, TailInv, [Next]_vars
             PROVE  BridgeInv' /\ TailInv'
    OBVIOUS
<1>t. worker \in [Workers -> Job]
    BY DEF IInv, TypeOK, Job
<1>k. UNCHANGED <<series, worker, outage>> => BridgeInv' /\ TailInv'
    BY DEF BridgeInv, TailInv
<1>1. CASE CandleCloses \/ LoadEnds \/ PollEnds \/ OnClose
    BY <1>1, <1>k DEF CandleCloses, LoadEnds, PollEnds, OnClose, history
<1>2. ASSUME NEW w \in Workers, FetchAnswered(w) PROVE BridgeInv' /\ TailInv'
  <2> DEFINE j == IF worker[w].job = "initial" THEN MaxLen ELSE FetchLimit
  <2>1. now \in Nat /\ now <= MaxNow /\ now >= 3
      BY ConstantsType DEF IInv, TypeOK
  <2>2. /\ \A v \in Workers : worker'[v].job = worker[v].job
        /\ \A v \in Workers : worker'[v].rows = IF v = w THEN Klines(j) ELSE worker[v].rows
      BY <1>2, <1>t DEF FetchAnswered, Job
  <2>3. worker[w].job = "poll" => Klines(j)[1].t = now - 2
    <3>1. IsFetch(KlinesAt(now, 3), now, 3)
        BY <2>1, KlinesFacts
    <3>2. KlinesAt(now, 3)[1].t = now - 2
        BY <2>1, <3>1 DEF IsFetch
    <3> QED BY <3>2, KlinesNow DEF FetchLimit
  <2> HIDE DEF j
  <2>4. /\ series' = series /\ (~outage' => ~outage)
        /\ ~outage' /\ series # <<>> => ~(now - Last(series).t > 2)
      BY <1>2 DEF FetchAnswered
  <2>5. series # <<>> => Last(series).t \in Nat
      BY LastTimes
  <2>6. ~outage' /\ series # <<>> => now - 2 <= Last(series).t
      BY <2>1, <2>4, <2>5
  <2> QED BY <2>2, <2>3, <2>4, <2>6 DEF BridgeInv, TailInv
<1>e. ASSUME NEW w \in Workers, NEW j \in Job, j.rows = <<>>, worker' = [worker EXCEPT ![w] = j],
             UNCHANGED <<series, outage>>
      PROVE  BridgeInv' /\ TailInv'
  <2>1. \A v \in Workers : worker'[v] = worker[v] \/ worker'[v].rows = <<>>
      BY <1>e, <1>t
  <2> QED BY <1>e, <2>1 DEF BridgeInv, TailInv
<1>3. ASSUME NEW w \in Workers, FetchFailed(w) PROVE BridgeInv' /\ TailInv'
  <2>1. NoJob \in Job /\ NoJob.rows = <<>>
      BY DEF NoJob, Job
  <2> QED BY <1>3, <1>e, <2>1 DEF FetchFailed, history
<1>4. ASSUME NEW w \in Workers, PollStarts(w) PROVE BridgeInv' /\ TailInv'
  <2>1. Ask("poll") \in Job /\ Ask("poll").rows = <<>>
      BY DEF Ask, Job
  <2> QED BY <1>4, <1>e, <2>1 DEF PollStarts, history
<1>s. ASSUME NEW w \in Workers, StoreInitial(w) \/ StorePoll(w) PROVE BridgeInv'
  <2>1. worker' = [worker EXCEPT ![w] = NoJob] /\ worker[w].job # "none"
      BY <1>s DEF StoreInitial, StorePoll
  <2>2. \A v \in Workers : worker'[v].rows = <<>>
    <3> TAKE v \in Workers
    <3>1. CASE v = w
        BY <1>t, <2>1, <3>1 DEF NoJob
    <3>2. CASE v # w
        BY <1>t, <2>1, <3>2 DEF JobInv, IInv, TypeOK
    <3> QED BY <3>1, <3>2
  <2> QED BY <2>2 DEF BridgeInv
<1>5. ASSUME NEW w \in Workers, StoreInitial(w) PROVE BridgeInv' /\ TailInv'
  <2>1. PICK n \in MaxLen .. now : IsFetch(worker[w].rows, n, MaxLen) /\ n \in Nat
      BY <1>5, FetchOf DEF StoreInitial, Size
  <2>2. Whole(worker[w].rows) /\ Final(worker[w].rows)
      BY <2>1, FetchWhole, ConstantsType
  <2>3. series' = worker[w].rows
      BY <1>5 DEF StoreInitial
  <2> QED BY <1>5, <1>s, <2>2, <2>3 DEF TailInv
<1>6. ASSUME NEW w \in Workers, StorePoll(w) PROVE BridgeInv' /\ TailInv'
  <2> DEFINE klines == worker[w].rows
             new == StoreRows(klines)
  <2>1. PICK n \in MaxLen .. now : /\ klines = KlinesAt(n, 3) /\ n \in Nat /\ n <= MaxNow
                                   /\ IsFetch(klines, n, 3)
      BY <1>6, FetchOf DEF StorePoll, Size
  <2>2. 3 <= n /\ Last(klines).t = n
      BY <2>1, ConstantsType DEF IsFetch, IInv, TypeOK
  <2>3. StoresAll(klines, new)
      BY <2>1, <2>2, StoreRowsFacts DEF IInv
  <2>4. series' = new.s /\ outage' = outage /\ klines # <<>> /\ worker[w].job = "poll"
      BY <1>6 DEF StorePoll, history
  <2>5. ~outage /\ series # <<>> => klines[1].t <= Last(series).t /\ Last(series).t <= n
      BY <2>2, <2>4 DEF BridgeInv, AheadInv
  <2> HIDE DEF new, klines
  <2>6. ~outage => Whole(new.s) /\ Final(new.s)
      BY <2>1, <2>2, <2>3, <2>5, StoredWhole DEF TailInv
  <2> QED BY <1>6, <1>s, <2>4, <2>6 DEF TailInv
<1>7. ASSUME NEW t \in Threads, ReadCached(t) \/ ReadSeries(t) \/ FrameBuilt(t)
      PROVE  BridgeInv' /\ TailInv'
    BY <1>7, <1>k DEF ReadCached, ReadSeries, FrameBuilt, history
<1>8. CASE UNCHANGED vars
    BY <1>8, <1>k DEF vars, history
<1> QED BY <1>1, <1>2, <1>3, <1>4, <1>5, <1>6, <1>7, <1>8 DEF Next

(* When requests do not overlap, the three rows of each fetch keep the stored
   tail complete and its candles final, however many fetches fail, until one is
   answered that finds the series more than two candles behind
   (data_stream.py:197-218). *)
THEOREM TailTheorem ==
    ASSUME OneByOne PROVE Spec => []TailComplete
<1>1. Init => AheadInv /\ BridgeInv /\ TailInv
  <2> SUFFICES ASSUME Init PROVE AheadInv /\ BridgeInv /\ TailInv
      OBVIOUS
  <2>1. series = <<>> /\ Len(<<>>) = 0
      BY DEF Init
  <2> QED BY <2>1 DEF AheadInv, BridgeInv, TailInv, Whole, Final
<1>2. Spec => [](IInv /\ PhaseInv /\ JobInv)
    BY Requests
<1>3. Spec => [](IInv /\ TailInv)
    BY <1>1, <1>2, AheadStep, TailStep, PTL DEF Spec
<1> QED BY <1>3, WholeComplete, PTL

-----------------------------------------------------------------------------
(* The scenarios of MCMarketData: a scenario is a behaviour of the component that *)
(* moves in it, so that the theorems of CandleProofs hold of it.                  *)

(* The theorems at the constants of rounds, cache, pages and series ... *)
Ample == INSTANCE CandleProofs
    WITH now <- time, schedulePc <- loopPc, polledAt <- roundAt, evaluated <- evaluations,
         Intervals <- {"main", "higher"}, MainInterval <- "main",
         Period <- [main |-> 6, higher |-> 12], CallbackOrder <- [main |-> 1, higher |-> 2],
         Buffer <- 1, DueWindow <- 2, MaxLate <- 1, MaxPoll <- 1, MaxCall <- 1, MaxTime <- 30,
         cache <- icache, Universe <- <<s1, s2>>, Kinds <- {"main", "context"},
         BlockSell <- TRUE, Scores <- {1}, FrameSize <- 2, CacheMax <- 3, MaxRow <- 3,
         MaxScans <- 2,
         phase <- dlPhase, Series <- {s1, s2},
         History <- [s \in {s1, s2} |-> IF s = s1 THEN 5 ELSE 3],
         Limit <- 4, PageMax <- 2, MinCandles <- 2, Retries <- 2, Workers <- 2,
         Budget <- 3, Ticks <- 2, Faults <- {"error"},
         simPhase <- phase, Symbols <- {s1}, SeriesOf <- 1, Length <- 7, MinWarm <- 2,
         MaxWarm <- 2, Hold <- 2, Skip <- 1, ContextPeriod <- 2,
         Gains <- GainsOf({-1, 1}), MayFail <- FALSE

(* ... and at those of overruns, bans and merge. *)
Tight == INSTANCE CandleProofs
    WITH now <- time, schedulePc <- loopPc, polledAt <- roundAt, evaluated <- evaluations,
         Intervals <- {"main", "higher"}, MainInterval <- "main",
         Period <- [main |-> 6, higher |-> 12], CallbackOrder <- [main |-> 2, higher |-> 1],
         Buffer <- 1, DueWindow <- 2, MaxLate <- 1, MaxPoll <- 1, MaxCall <- 7, MaxTime <- 36,
         cache <- icache, Universe <- <<s1, s2>>, Kinds <- {"main", "context"},
         BlockSell <- TRUE, Scores <- {1}, FrameSize <- 2, CacheMax <- 3, MaxRow <- 3,
         MaxScans <- 2,
         phase <- dlPhase, Series <- {s1, s2},
         History <- [s \in {s1, s2} |-> IF s = s1 THEN 5 ELSE 0],
         Limit <- 4, PageMax <- 2, MinCandles <- 2, Retries <- 2, Workers <- 1,
         Budget <- 3, Ticks <- 2, Faults <- {"error", "ban"},
         simPhase <- phase, Symbols <- {s1, s2}, SeriesOf <- 2, Length <- 4, MinWarm <- 2,
         MaxWarm <- 3, Hold <- 1, Skip <- 1, ContextPeriod <- 2,
         Gains <- GainsOf({0}), MayFail <- TRUE

mcVars == <<scenario, vars, scheduleVars, scanVars, downloadVars, simulationVars>>

(* A behaviour stays in its scenario. *)
LEMMA StaysInScenario ==
    ASSUME [MCNext]_mcVars, NEW name PROVE (scenario = name)' <=> (scenario = name)
BY DEF MCNext, mcVars

(* In each scenario its component takes a step or none. *)
LEMMA OneComponentMoves ==
    ASSUME [MCNext]_mcVars
    PROVE  /\ scenario = "rounds" => Rounds!Next \/ UNCHANGED scheduleVars
           /\ scenario = "overruns" => Overruns!Next \/ UNCHANGED scheduleVars
           /\ scenario = "cache" => Caching!Next \/ UNCHANGED scanVars
           /\ scenario = "pages" => Pages!Next \/ UNCHANGED downloadVars
           /\ scenario = "bans" => Bans!Next \/ UNCHANGED downloadVars
           /\ scenario = "series" => LongSeries!Next \/ UNCHANGED simulationVars
           /\ scenario = "merge" => Merging!Next \/ UNCHANGED simulationVars
<1>1. CASE StreamNext
    BY <1>1 DEF StreamNext
<1>2. CASE ScheduleNext
    BY <1>2 DEF ScheduleNext
<1>3. CASE ScanNext
    BY <1>3 DEF ScanNext
<1>4. CASE DownloadNext
    BY <1>4 DEF DownloadNext, Download
<1>5. CASE SimulationNext
    BY <1>5 DEF SimulationNext
<1>6. CASE UNCHANGED mcVars
    BY <1>6 DEF mcVars
<1> QED BY <1>1, <1>2, <1>3, <1>4, <1>5, <1>6 DEF MCNext

(* Five of the six seconds of a main candle are the most a round takes there. *)
LEMMA AmpleRounds == Ample!RoundsFit
<1> DEFINE S == {"main", "higher"}
<1>1. IsFiniteSet(S) /\ Cardinality(S) = 2
  <2>1. IsFiniteSet({}) /\ Cardinality({}) = 0
      BY FS_EmptySet
  <2>2. IsFiniteSet({"main"}) /\ Cardinality({"main"}) = 1
      BY <2>1, FS_AddElement
  <2> QED BY <2>2, FS_AddElement
<1>2. Ample!IsFiniteSet(S) <=> IsFiniteSet(S)
    BY Zenon DEF Ample!IsFiniteSet, IsFiniteSet
<1>3. Ample!Cardinality(S) = Cardinality(S)
    BY Zenon DEF Ample!Cardinality, Cardinality
<1> QED BY <1>1, <1>2, <1>3 DEF Ample!RoundsFit, Ample!RoundLimit

LEMMA RoundsScenario ==
    MCSpec => [](scenario = "rounds" => Rounds!NothingLost /\ Rounds!EachCloseOnce)
<1>1. MCInit /\ scenario = "rounds" => Ample!Schedule!Init
  <2>1. MCInit /\ scenario = "rounds" => Rounds!Init
      BY DEF MCInit, ScheduleInit
  <2>2. Ample!Schedule!Init <=> Rounds!Init
      BY Zenon
      DEF Ample!Schedule!Init, Rounds!Init
  <2> QED BY <2>1, <2>2
<1>2. scenario = "rounds" /\ [MCNext]_mcVars => [Ample!Schedule!Next]_Ample!Schedule!vars
  <2>1. scenario = "rounds" /\ [MCNext]_mcVars => Rounds!Next \/ UNCHANGED scheduleVars
      BY OneComponentMoves
  <2>2. Ample!Schedule!Next <=> Rounds!Next
      BY Zenon
      DEF Ample!Schedule!SecondsToNextClose, Rounds!SecondsToNextClose,
        Ample!Schedule!Sleep, Rounds!Sleep, Ample!Schedule!DueIntervals,
        Rounds!DueIntervals, Ample!Schedule!Wake, Rounds!Wake, Ample!Schedule!Poll,
        Rounds!Poll, Ample!Schedule!Close, Rounds!Close, Ample!Schedule!MakeCallback,
        Rounds!MakeCallback, Ample!Schedule!RoundEnds, Rounds!RoundEnds,
        Ample!Schedule!Stop, Rounds!Stop, Ample!Schedule!LoopEnds, Rounds!LoopEnds,
        Ample!Schedule!Scheduler, Rounds!Scheduler, Ample!Schedule!Next, Rounds!Next
  <2>3. UNCHANGED scheduleVars <=> UNCHANGED Ample!Schedule!vars
      BY DEF scheduleVars, Ample!Schedule!vars
  <2> QED BY <2>1, <2>2, <2>3
<1>3. [MCNext]_mcVars => ((scenario = "rounds")' <=> (scenario = "rounds"))
    BY StaysInScenario
<1>4. Ample!Schedule!Spec => []Ample!Schedule!NothingLost /\ []Ample!Schedule!EachCloseOnce
  <2>1. Ample!Schedule!ScheduleAssumption
      BY SchedulesAssumption, Zenon
      DEF Ample!Schedule!ScheduleAssumption, Rounds!ScheduleAssumption,
        Ample!Schedule!IsFiniteSet, Rounds!IsFiniteSet
  <2>2. Ample!RoundsFit
      BY AmpleRounds
  <2> QED BY <2>1, <2>2, Ample!NothingLostTheorem, Ample!ClosesTheorem
<1>5. /\ Ample!Schedule!NothingLost <=> Rounds!NothingLost
      /\ Ample!Schedule!EachCloseOnce <=> Rounds!EachCloseOnce
    BY Zenon
    DEF Ample!Schedule!Close, Rounds!Close, Ample!Schedule!EachCloseOnce,
      Rounds!EachCloseOnce, Ample!Schedule!NothingLost, Rounds!NothingLost
<1> QED BY <1>1, <1>2, <1>3, <1>4, <1>5, PTL DEF MCSpec, mcVars, Ample!Schedule!Spec

LEMMA OverrunsScenario ==
    MCSpec => [](scenario = "overruns" => Overruns!EachCloseOnce)
<1>1. MCInit /\ scenario = "overruns" => Tight!Schedule!Init
  <2>1. MCInit /\ scenario = "overruns" => Overruns!Init
      BY DEF MCInit, ScheduleInit, Rounds!Init, Overruns!Init
  <2>2. Tight!Schedule!Init <=> Overruns!Init
      BY Zenon
      DEF Tight!Schedule!Init, Overruns!Init
  <2> QED BY <2>1, <2>2
<1>2. scenario = "overruns" /\ [MCNext]_mcVars => [Tight!Schedule!Next]_Tight!Schedule!vars
  <2>1. scenario = "overruns" /\ [MCNext]_mcVars => Overruns!Next \/ UNCHANGED scheduleVars
      BY OneComponentMoves
  <2>2. Tight!Schedule!Next <=> Overruns!Next
      BY Zenon
      DEF Tight!Schedule!SecondsToNextClose, Overruns!SecondsToNextClose,
        Tight!Schedule!Sleep, Overruns!Sleep, Tight!Schedule!DueIntervals,
        Overruns!DueIntervals, Tight!Schedule!Wake, Overruns!Wake, Tight!Schedule!Poll,
        Overruns!Poll, Tight!Schedule!Close, Overruns!Close,
        Tight!Schedule!MakeCallback, Overruns!MakeCallback, Tight!Schedule!RoundEnds,
        Overruns!RoundEnds, Tight!Schedule!Stop, Overruns!Stop, Tight!Schedule!LoopEnds,
        Overruns!LoopEnds, Tight!Schedule!Scheduler, Overruns!Scheduler,
        Tight!Schedule!Next, Overruns!Next
  <2>3. UNCHANGED scheduleVars <=> UNCHANGED Tight!Schedule!vars
      BY DEF scheduleVars, Tight!Schedule!vars
  <2> QED BY <2>1, <2>2, <2>3
<1>3. [MCNext]_mcVars => ((scenario = "overruns")' <=> (scenario = "overruns"))
    BY StaysInScenario
<1>4. Tight!Schedule!Spec => []Tight!Schedule!EachCloseOnce
  <2>1. Tight!Schedule!ScheduleAssumption
      BY SchedulesAssumption, Zenon
      DEF Tight!Schedule!ScheduleAssumption, Overruns!ScheduleAssumption,
        Tight!Schedule!IsFiniteSet, Overruns!IsFiniteSet
  <2> QED BY <2>1, Tight!ClosesTheorem
<1>5. /\ Tight!Schedule!EachCloseOnce <=> Overruns!EachCloseOnce
    BY Zenon
    DEF Tight!Schedule!Close, Overruns!Close, Tight!Schedule!EachCloseOnce,
      Overruns!EachCloseOnce
<1> QED BY <1>1, <1>2, <1>3, <1>4, <1>5, PTL DEF MCSpec, mcVars, Tight!Schedule!Spec

LEMMA CacheScenario ==
    MCSpec => [](scenario = "cache" => Caching!OwnIndicators)
<1>1. MCInit /\ scenario = "cache" => Ample!Scan!Init
  <2>1. MCInit /\ scenario = "cache" => Caching!Init
      BY DEF MCInit
  <2>2. Ample!Scan!Init <=> Caching!Init
      BY Zenon
      DEF Ample!Scan!Symbols, Caching!Symbols, Ample!Scan!NoFrames, Caching!NoFrames,
        Ample!Scan!Init, Caching!Init, Ample!Scan!Cardinality, Caching!Cardinality
  <2> QED BY <2>1, <2>2
<1>2. scenario = "cache" /\ [MCNext]_mcVars => [Ample!Scan!Next]_Ample!Scan!vars
  <2>1. scenario = "cache" /\ [MCNext]_mcVars => Caching!Next \/ UNCHANGED scanVars
      BY OneComponentMoves
  <2>2. Ample!Scan!Next <=> Caching!Next
      BY Zenon
      DEF Ample!Scan!Symbols, Caching!Symbols, Ample!Scan!NoFrames, Caching!NoFrames,
        Ample!Scan!NewRow, Caching!NewRow, Ample!Scan!Token, Caching!Token,
        Ample!Scan!Put, Caching!Put, Ample!Scan!Trim, Caching!Trim,
        Ample!Scan!CachedWithIndicators, Caching!CachedWithIndicators, Ample!Scan!Begin,
        Caching!Begin, Ample!Scan!Advance, Caching!Advance, Ample!Scan!SkipEmpty,
        Caching!SkipEmpty, Ample!Scan!ReadMain, Caching!ReadMain,
        Ample!Scan!ReadContext, Caching!ReadContext, Ample!Scan!NoSignal,
        Caching!NoSignal, Ample!Scan!Accepted, Caching!Accepted, Ample!Scan!SignalFound,
        Caching!SignalFound, Ample!Scan!Rank, Caching!Rank, Ample!Scan!Sort,
        Caching!Sort, Ample!Scan!Scan, Caching!Scan, Ample!Scan!Next, Caching!Next,
        Ample!Scan!Cardinality, Caching!Cardinality
  <2>3. UNCHANGED scanVars <=> UNCHANGED Ample!Scan!vars
      BY DEF scanVars, Ample!Scan!vars
  <2> QED BY <2>1, <2>2, <2>3
<1>3. [MCNext]_mcVars => ((scenario = "cache")' <=> (scenario = "cache"))
    BY StaysInScenario
<1>4. Ample!Scan!Spec => []Ample!Scan!OwnIndicators
  <2>1. Ample!Scan!ScanAssumption
      BY CachingAssumption, Zenon
      DEF Ample!Scan!Symbols, Caching!Symbols, Ample!Scan!ScanAssumption,
        Caching!ScanAssumption, Ample!Scan!Cardinality, Caching!Cardinality
  <2> QED BY <2>1, Ample!IndicatorsTheorem
<1>5. /\ Ample!Scan!OwnIndicators <=> Caching!OwnIndicators
    BY Zenon
    DEF Ample!Scan!OwnIndicators, Caching!OwnIndicators, Ample!Scan!Cardinality,
      Caching!Cardinality
<1> QED BY <1>1, <1>2, <1>3, <1>4, <1>5, PTL DEF MCSpec, mcVars, Ample!Scan!Spec

LEMMA PagesScenario ==
    MCSpec => [](scenario = "pages" => Pages!SeriesWhole)
<1>1. MCInit /\ scenario = "pages" => Ample!Download!Init
  <2>1. MCInit /\ scenario = "pages" => Pages!Init
      BY DEF MCInit, DownloadInit
  <2>2. Ample!Download!Init <=> Pages!Init
      BY Zenon
      DEF Ample!Download!Init, Pages!Init, Ample!Download!Min, Pages!Min,
        Ample!Download!Max, Pages!Max, Ample!Download!Cardinality, Pages!Cardinality
  <2> QED BY <2>1, <2>2
<1>2. scenario = "pages" /\ [MCNext]_mcVars => [Ample!Download!Next]_Ample!Download!vars
  <2>1. scenario = "pages" /\ [MCNext]_mcVars => Pages!Next \/ UNCHANGED downloadVars
      BY OneComponentMoves
  <2>2. Ample!Download!Next <=> Pages!Next
      BY Zenon
      DEF Ample!Download!Weight, Pages!Weight, Ample!Download!task, Pages!task,
        Ample!Download!files, Pages!files, Ample!Download!main, Pages!main,
        Ample!Download!weights, Pages!weights, Ample!Download!Over, Pages!Over,
        Ample!Download!Goto, Pages!Goto, Ample!Download!Used, Pages!Used,
        Ample!Download!Running, Pages!Running, Ample!Download!Start, Pages!Start,
        Ample!Download!PageSize, Pages!PageSize, Ample!Download!Add, Pages!Add,
        Ample!Download!Total, Pages!Total, Ample!Download!Acquire, Pages!Acquire,
        Ample!Download!Page, Pages!Page, Ample!Download!NextEnd, Pages!NextEnd,
        Ample!Download!Answer, Pages!Answer, Ample!Download!Fails, Pages!Fails,
        Ample!Download!Banned, Pages!Banned, Ample!Download!Assemble, Pages!Assemble,
        Ample!Download!Recover, Pages!Recover, Ample!Download!Collect, Pages!Collect,
        Ample!Download!PhaseEnds, Pages!PhaseEnds, Ample!Download!Aged, Pages!Aged,
        Ample!Download!Tick, Pages!Tick, Ample!Download!Step, Pages!Step,
        Ample!Download!Next, Pages!Next, Ample!Download!Min, Pages!Min,
        Ample!Download!Max, Pages!Max, Ample!Download!Cardinality, Pages!Cardinality
  <2>3. UNCHANGED downloadVars <=> UNCHANGED Ample!Download!vars
      BY DEF downloadVars, Ample!Download!vars
  <2> QED BY <2>1, <2>2, <2>3
<1>3. [MCNext]_mcVars => ((scenario = "pages")' <=> (scenario = "pages"))
    BY StaysInScenario
<1>4. Ample!Download!Spec => []Ample!Download!SeriesWhole
  <2>1. Ample!Download!DownloadAssumption
      BY DownloadsAssumption, Zenon
      DEF Ample!Download!Weight, Pages!Weight, Ample!Download!DownloadAssumption,
        Pages!DownloadAssumption, Ample!Download!IsFiniteSet, Pages!IsFiniteSet,
        Ample!Download!Min, Pages!Min, Ample!Download!Max, Pages!Max,
        Ample!Download!Cardinality, Pages!Cardinality
  <2> QED BY <2>1, Ample!WholeTheorem
<1>5. /\ Ample!Download!SeriesWhole <=> Pages!SeriesWhole
    BY Zenon
    DEF Ample!Download!Newest, Pages!Newest, Ample!Download!SeriesWhole,
      Pages!SeriesWhole, Ample!Download!Min, Pages!Min, Ample!Download!Max, Pages!Max,
      Ample!Download!Cardinality, Pages!Cardinality
<1> QED BY <1>1, <1>2, <1>3, <1>4, <1>5, PTL DEF MCSpec, mcVars, Ample!Download!Spec

LEMMA BansScenario ==
    MCSpec => [](scenario = "bans" => Bans!SeriesWhole)
<1>1. MCInit /\ scenario = "bans" => Tight!Download!Init
  <2>1. MCInit /\ scenario = "bans" => Bans!Init
      BY DEF MCInit, DownloadInit
  <2>2. Tight!Download!Init <=> Bans!Init
      BY Zenon
      DEF Tight!Download!Init, Bans!Init, Tight!Download!Min, Bans!Min,
        Tight!Download!Max, Bans!Max, Tight!Download!Cardinality, Bans!Cardinality
  <2> QED BY <2>1, <2>2
<1>2. scenario = "bans" /\ [MCNext]_mcVars => [Tight!Download!Next]_Tight!Download!vars
  <2>1. scenario = "bans" /\ [MCNext]_mcVars => Bans!Next \/ UNCHANGED downloadVars
      BY OneComponentMoves
  <2>2. Tight!Download!Next <=> Bans!Next
      BY Zenon
      DEF Tight!Download!Weight, Bans!Weight, Tight!Download!task, Bans!task,
        Tight!Download!files, Bans!files, Tight!Download!main, Bans!main,
        Tight!Download!weights, Bans!weights, Tight!Download!Over, Bans!Over,
        Tight!Download!Goto, Bans!Goto, Tight!Download!Used, Bans!Used,
        Tight!Download!Running, Bans!Running, Tight!Download!Start, Bans!Start,
        Tight!Download!PageSize, Bans!PageSize, Tight!Download!Add, Bans!Add,
        Tight!Download!Total, Bans!Total, Tight!Download!Acquire, Bans!Acquire,
        Tight!Download!Page, Bans!Page, Tight!Download!NextEnd, Bans!NextEnd,
        Tight!Download!Answer, Bans!Answer, Tight!Download!Fails, Bans!Fails,
        Tight!Download!Banned, Bans!Banned, Tight!Download!Assemble, Bans!Assemble,
        Tight!Download!Recover, Bans!Recover, Tight!Download!Collect, Bans!Collect,
        Tight!Download!PhaseEnds, Bans!PhaseEnds, Tight!Download!Aged, Bans!Aged,
        Tight!Download!Tick, Bans!Tick, Tight!Download!Step, Bans!Step,
        Tight!Download!Next, Bans!Next, Tight!Download!Min, Bans!Min,
        Tight!Download!Max, Bans!Max, Tight!Download!Cardinality, Bans!Cardinality
  <2>3. UNCHANGED downloadVars <=> UNCHANGED Tight!Download!vars
      BY DEF downloadVars, Tight!Download!vars
  <2> QED BY <2>1, <2>2, <2>3
<1>3. [MCNext]_mcVars => ((scenario = "bans")' <=> (scenario = "bans"))
    BY StaysInScenario
<1>4. Tight!Download!Spec => []Tight!Download!SeriesWhole
  <2>1. Tight!Download!DownloadAssumption
      BY DownloadsAssumption, Zenon
      DEF Tight!Download!Weight, Bans!Weight, Tight!Download!DownloadAssumption,
        Bans!DownloadAssumption, Tight!Download!IsFiniteSet, Bans!IsFiniteSet,
        Tight!Download!Min, Bans!Min, Tight!Download!Max, Bans!Max,
        Tight!Download!Cardinality, Bans!Cardinality
  <2> QED BY <2>1, Tight!WholeTheorem
<1>5. /\ Tight!Download!SeriesWhole <=> Bans!SeriesWhole
    BY Zenon
    DEF Tight!Download!Newest, Bans!Newest, Tight!Download!SeriesWhole,
      Bans!SeriesWhole, Tight!Download!Min, Bans!Min, Tight!Download!Max, Bans!Max,
      Tight!Download!Cardinality, Bans!Cardinality
<1> QED BY <1>1, <1>2, <1>3, <1>4, <1>5, PTL DEF MCSpec, mcVars, Tight!Download!Spec

LEMMA SeriesScenario ==
    MCSpec => [](scenario = "series" => LongSeries!TradesTrue /\ LongSeries!ReportTrue)
<1>1. MCInit /\ scenario = "series" => Ample!Simulation!Init
  <2>1. MCInit /\ scenario = "series" => LongSeries!Init
      BY DEF MCInit, SimulationInit
  <2>2. Ample!Simulation!Init <=> LongSeries!Init
      BY Zenon
      DEF Ample!Simulation!NoReport, LongSeries!NoReport, Ample!Simulation!FirstCandle,
        LongSeries!FirstCandle, Ample!Simulation!Init, LongSeries!Init,
        Ample!Simulation!Min, LongSeries!Min, Ample!Simulation!Max, LongSeries!Max,
        Ample!Simulation!Cardinality, LongSeries!Cardinality
  <2> QED BY <2>1, <2>2
<1>2. scenario = "series" /\ [MCNext]_mcVars => [Ample!Simulation!Next]_Ample!Simulation!vars
  <2>1. scenario = "series" /\ [MCNext]_mcVars => LongSeries!Next \/ UNCHANGED simulationVars
      BY OneComponentMoves
  <2>2. Ample!Simulation!Next <=> LongSeries!Next
      BY Zenon
      DEF Ample!Simulation!Results, LongSeries!Results, Ample!Simulation!main,
        LongSeries!main, Ample!Simulation!NoReport, LongSeries!NoReport,
        Ample!Simulation!FirstCandle, LongSeries!FirstCandle,
        Ample!Simulation!ContextPosition, LongSeries!ContextPosition,
        Ample!Simulation!SeeContext, LongSeries!SeeContext, Ample!Simulation!Walking,
        LongSeries!Walking, Ample!Simulation!Pass, LongSeries!Pass,
        Ample!Simulation!Signal, LongSeries!Signal, Ample!Simulation!LastCandle,
        LongSeries!LastCandle, Ample!Simulation!Outcome, LongSeries!Outcome,
        Ample!Simulation!Untouched, LongSeries!Untouched, Ample!Simulation!TradeEnds,
        LongSeries!TradeEnds, Ample!Simulation!SeriesEnds, LongSeries!SeriesEnds,
        Ample!Simulation!Raise, LongSeries!Raise, Ample!Simulation!Collect,
        LongSeries!Collect, Ample!Simulation!PhaseEnds, LongSeries!PhaseEnds,
        Ample!Simulation!SortedByEntry, LongSeries!SortedByEntry,
        Ample!Simulation!Count, LongSeries!Count, Ample!Simulation!Running,
        LongSeries!Running, Ample!Simulation!Report, LongSeries!Report,
        Ample!Simulation!Step, LongSeries!Step, Ample!Simulation!Next, LongSeries!Next,
        Ample!Simulation!Min, LongSeries!Min, Ample!Simulation!Max, LongSeries!Max,
        Ample!Simulation!Cardinality, LongSeries!Cardinality
  <2>3. UNCHANGED simulationVars <=> UNCHANGED Ample!Simulation!vars
      BY DEF simulationVars, Ample!Simulation!vars
  <2> QED BY <2>1, <2>2, <2>3
<1>3. [MCNext]_mcVars => ((scenario = "series")' <=> (scenario = "series"))
    BY StaysInScenario
<1>4. Ample!Simulation!Spec => []Ample!Simulation!TradesTrue /\ []Ample!Simulation!ReportTrue
  <2>1. Ample!Simulation!SimulationAssumption
      BY SimulationsAssumption, Zenon
      DEF Ample!Simulation!Results, LongSeries!Results,
        Ample!Simulation!SimulationAssumption, LongSeries!SimulationAssumption,
        Ample!Simulation!IsFiniteSet, LongSeries!IsFiniteSet, Ample!Simulation!Min,
        LongSeries!Min, Ample!Simulation!Max, LongSeries!Max,
        Ample!Simulation!Cardinality, LongSeries!Cardinality
  <2> QED BY <2>1, Ample!TradesTheorem, Ample!TrueReportTheorem
<1>5. /\ Ample!Simulation!TradesTrue <=> LongSeries!TradesTrue
      /\ Ample!Simulation!ReportTrue <=> LongSeries!ReportTrue
    BY Zenon
    DEF Ample!Simulation!TradesTrue, LongSeries!TradesTrue, Ample!Simulation!Later,
      LongSeries!Later, Ample!Simulation!WholeTasks, LongSeries!WholeTasks,
      Ample!Simulation!Equity, LongSeries!Equity, Ample!Simulation!Drawdown,
      LongSeries!Drawdown, Ample!Simulation!CurveTrue, LongSeries!CurveTrue,
      Ample!Simulation!Streak, LongSeries!Streak, Ample!Simulation!Longest,
      LongSeries!Longest, Ample!Simulation!StreaksTrue, LongSeries!StreaksTrue,
      Ample!Simulation!ReportTrue, LongSeries!ReportTrue, Ample!Simulation!Min,
      LongSeries!Min, Ample!Simulation!Max, LongSeries!Max,
      Ample!Simulation!Cardinality, LongSeries!Cardinality
<1> QED BY <1>1, <1>2, <1>3, <1>4, <1>5, PTL DEF MCSpec, mcVars, Ample!Simulation!Spec

LEMMA MergeScenario ==
    MCSpec => [](scenario = "merge" => Merging!TradesTrue /\ Merging!ReportTrue)
<1>1. MCInit /\ scenario = "merge" => Tight!Simulation!Init
  <2>1. MCInit /\ scenario = "merge" => Merging!Init
      BY DEF MCInit, SimulationInit
  <2>2. Tight!Simulation!Init <=> Merging!Init
      BY Zenon
      DEF Tight!Simulation!NoReport, Merging!NoReport, Tight!Simulation!FirstCandle,
        Merging!FirstCandle, Tight!Simulation!Init, Merging!Init, Tight!Simulation!Min,
        Merging!Min, Tight!Simulation!Max, Merging!Max, Tight!Simulation!Cardinality,
        Merging!Cardinality
  <2> QED BY <2>1, <2>2
<1>2. scenario = "merge" /\ [MCNext]_mcVars => [Tight!Simulation!Next]_Tight!Simulation!vars
  <2>1. scenario = "merge" /\ [MCNext]_mcVars => Merging!Next \/ UNCHANGED simulationVars
      BY OneComponentMoves
  <2>2. Tight!Simulation!Next <=> Merging!Next
      BY Zenon
      DEF Tight!Simulation!Results, Merging!Results, Tight!Simulation!main,
        Merging!main, Tight!Simulation!NoReport, Merging!NoReport,
        Tight!Simulation!FirstCandle, Merging!FirstCandle,
        Tight!Simulation!ContextPosition, Merging!ContextPosition,
        Tight!Simulation!SeeContext, Merging!SeeContext, Tight!Simulation!Walking,
        Merging!Walking, Tight!Simulation!Pass, Merging!Pass, Tight!Simulation!Signal,
        Merging!Signal, Tight!Simulation!LastCandle, Merging!LastCandle,
        Tight!Simulation!Outcome, Merging!Outcome, Tight!Simulation!Untouched,
        Merging!Untouched, Tight!Simulation!TradeEnds, Merging!TradeEnds,
        Tight!Simulation!SeriesEnds, Merging!SeriesEnds, Tight!Simulation!Raise,
        Merging!Raise, Tight!Simulation!Collect, Merging!Collect,
        Tight!Simulation!PhaseEnds, Merging!PhaseEnds, Tight!Simulation!SortedByEntry,
        Merging!SortedByEntry, Tight!Simulation!Count, Merging!Count,
        Tight!Simulation!Running, Merging!Running, Tight!Simulation!Report,
        Merging!Report, Tight!Simulation!Step, Merging!Step, Tight!Simulation!Next,
        Merging!Next, Tight!Simulation!Min, Merging!Min, Tight!Simulation!Max,
        Merging!Max, Tight!Simulation!Cardinality, Merging!Cardinality
  <2>3. UNCHANGED simulationVars <=> UNCHANGED Tight!Simulation!vars
      BY DEF simulationVars, Tight!Simulation!vars
  <2> QED BY <2>1, <2>2, <2>3
<1>3. [MCNext]_mcVars => ((scenario = "merge")' <=> (scenario = "merge"))
    BY StaysInScenario
<1>4. Tight!Simulation!Spec => []Tight!Simulation!TradesTrue /\ []Tight!Simulation!ReportTrue
  <2>1. Tight!Simulation!SimulationAssumption
      BY SimulationsAssumption, Zenon
      DEF Tight!Simulation!Results, Merging!Results,
        Tight!Simulation!SimulationAssumption, Merging!SimulationAssumption,
        Tight!Simulation!IsFiniteSet, Merging!IsFiniteSet, Tight!Simulation!Min,
        Merging!Min, Tight!Simulation!Max, Merging!Max, Tight!Simulation!Cardinality,
        Merging!Cardinality
  <2> QED BY <2>1, Tight!TradesTheorem, Tight!TrueReportTheorem
<1>5. /\ Tight!Simulation!TradesTrue <=> Merging!TradesTrue
      /\ Tight!Simulation!ReportTrue <=> Merging!ReportTrue
    BY Zenon
    DEF Tight!Simulation!TradesTrue, Merging!TradesTrue, Tight!Simulation!Later,
      Merging!Later, Tight!Simulation!WholeTasks, Merging!WholeTasks,
      Tight!Simulation!Equity, Merging!Equity, Tight!Simulation!Drawdown,
      Merging!Drawdown, Tight!Simulation!CurveTrue, Merging!CurveTrue,
      Tight!Simulation!Streak, Merging!Streak, Tight!Simulation!Longest,
      Merging!Longest, Tight!Simulation!StreaksTrue, Merging!StreaksTrue,
      Tight!Simulation!ReportTrue, Merging!ReportTrue, Tight!Simulation!Min,
      Merging!Min, Tight!Simulation!Max, Merging!Max, Tight!Simulation!Cardinality,
      Merging!Cardinality
<1> QED BY <1>1, <1>2, <1>3, <1>4, <1>5, PTL DEF MCSpec, mcVars, Tight!Simulation!Spec

(* What TLC checks of the scheduler are its theorems at the constants of rounds and
   overruns: with short rounds every close has its callback, however long they are
   every close outside a round (data_stream.py:190-194, 255-264, 282-317). *)
THEOREM ScheduledCloses == MCSpec => []EachCloseOnceMC
BY RoundsScenario, OverrunsScenario, PTL DEF EachCloseOnceMC

(* A signal of the scenario cache is evaluated on the indicators of the frame that
   was read (services/signal_service.py:71-81). *)
THEOREM CachedIndicators == MCSpec => []OwnIndicators
BY CacheScenario, PTL DEF OwnIndicators

(* Downloaded series have no hole in the scenarios pages and bans
   (backtest/backtest.py:379-425). *)
THEOREM DownloadedSeries == MCSpec => []SeriesWhole
BY PagesScenario, BansScenario, PTL DEF SeriesWhole

(* Simulated trades are ones a trader could have made in the scenarios series and
   merge (backtest/backtest.py:540-546, 664-707). *)
THEOREM SimulatedTrades == MCSpec => []TradesTrue
BY SeriesScenario, MergeScenario, PTL DEF TradesTrue

(* The report of the scenarios series and merge is that of their whole tasks
   (backtest/backtest.py:1148-1169, 1437-1466, 1547). *)
THEOREM SimulatedReport == MCSpec => []ReportTrue
BY SeriesScenario, MergeScenario, PTL DEF ReportTrue
=============================================================================

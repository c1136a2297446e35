------------------------- MODULE EntryServiceProofs -------------------------
(***************************************************************************)
(* For every value of the constants: type correctness of EntryService; the *)
(* entries it makes never exceed max_positions (SafetyInv); the entry lock *)
(* is always given back and the service implements AccountLimit (EntryInv); *)
(* every position is watched; nothing is entered twice on one close        *)
(* (EnteredInv).                                                            *)
(***************************************************************************)
EXTENDS EntryService, FiniteSetTheorems, TLAPS

USE DEF Threads, market, exchange

LEMMA InitType == Init => TypeOK
BY EntryAssumption
   DEF Init, TypeOK, SharedOK, CallbacksOK, NoCallback, Callback, Locals, PCs, Chosen

-----------------------------------------------------------------------------
(* The local variables of the callbacks.                                   *)

(* A thread may move to any label with any well-formed local variables. *)
LEMMA MoveType ==
    ASSUME CallbacksOK, NEW t \in Threads, NEW l \in PCs, NEW r \in Locals,
           r.close <= candle[r.iv],
           l \in Chosen => r.best \in Symbols,
           pc' = [pc EXCEPT ![t] = l],
           w' = [w EXCEPT ![t] = r],
           candle' = candle
    PROVE  CallbacksOK'
<1>1. pc' \in [Threads -> PCs] /\ w' \in [Threads -> Locals]
    BY DEF CallbacksOK
<1>2. \A u \in Threads : /\ u = t => pc'[u] = l /\ w'[u] = r
                         /\ u # t => pc'[u] = pc[u] /\ w'[u] = w[u]
    BY DEF CallbacksOK
<1> QED BY <1>1, <1>2 DEF CallbacksOK

LEMMA NoCallbackType ==
    SharedOK => \A iv \in Intervals :
        /\ Callback(iv) \in Locals
        /\ Callback(iv).close <= candle[Callback(iv).iv]
BY DEF Callback, Locals, SharedOK

LEMMA GotoType ==
    ASSUME CallbacksOK, NEW t \in Threads, NEW l \in PCs, Goto(t, l),
           l \in Chosen => w[t].best \in Symbols,
           candle' = candle
    PROVE  CallbacksOK'
<1>1. w' = [w EXCEPT ![t] = w[t]]
    BY DEF Goto, CallbacksOK
<1> QED BY <1>1, MoveType DEF Goto, CallbacksOK

LEMMA ReturnType ==
    ASSUME SharedOK, CallbacksOK, NEW t \in Threads, Return(t), candle' = candle
    PROVE  CallbacksOK'
<1>1. "idle" \in PCs /\ "idle" \notin Chosen
    BY DEF PCs, Chosen
<1> QED BY <1>1, MoveType, NoCallbackType, EntryAssumption DEF Return, NoCallback

LEMMA UnchangedType ==
    CallbacksOK /\ UNCHANGED <<pc, w, candle>> => CallbacksOK'
BY DEF CallbacksOK

(* What a cached or fetched snapshot may hold. *)
LEMMA SnapshotType ==
    SharedOK => Open \in SUBSET Symbols /\ cache.data \in SUBSET Symbols
BY DEF SharedOK, Open

-----------------------------------------------------------------------------
(* One lemma per phase of a callback.                                      *)

LEMMA CloseType ==
    ASSUME TypeOK, NEW t \in Threads, ReadClose(t) \/ MarkClose(t)
    PROVE  TypeOK'
<1> USE DEF TypeOK
<1>1. w[t] \in Locals /\ w[t].iv \in Intervals /\ candle[w[t].iv] \in Nat
    BY DEF CallbacksOK, SharedOK, Locals
<1>2. CASE ReadClose(t)
  <2> DEFINE r == [w[t] EXCEPT !.close = AnchorClose(w[t].iv)]
  <2>1. r \in Locals /\ r.close <= candle[r.iv]
      BY <1>1 DEF AnchorClose, Locals
  <2>2. "mark" \in PCs /\ "mark" \notin Chosen
      BY DEF PCs, Chosen
  <2>3. w' = [w EXCEPT ![t] = r] /\ pc' = [pc EXCEPT ![t] = "mark"] /\ candle' = candle
      BY <1>2 DEF ReadClose
  <2>4. CallbacksOK'
      BY <2>1, <2>2, <2>3, MoveType
  <2> QED BY <1>2, <2>4 DEF ReadClose, SharedOK
<1>3. CASE MarkClose(t)
  <2>1. CallbacksOK'
    <3>1. "load" \in PCs /\ "load" \notin Chosen
        BY DEF PCs, Chosen
    <3> QED BY <1>3, <3>1, GotoType, ReturnType DEF MarkClose
  <2>2. lastClose' \in [Intervals -> Nat] /\ \A iv \in Intervals : lastClose'[iv] <= candle[iv]
      BY <1>1, <1>3 DEF MarkClose, SharedOK, CallbacksOK, Locals
  <2> QED BY <1>3, <2>1, <2>2 DEF MarkClose, SharedOK
<1> QED BY <1>2, <1>3

LEMMA LoadType ==
    ASSUME TypeOK, NEW t \in Threads,
           LoadHit(t) \/ LoadFetch(t) \/ LoadStore(t) \/ LoadFails(t)
    PROVE  TypeOK'
<1> USE DEF TypeOK
<1>1. w[t] \in Locals /\ w[t].close <= candle[w[t].iv] /\ w[t].active \in SUBSET Symbols
    BY DEF CallbacksOK, Locals
<1>2. /\ {"storeLoaded", "evaluate"} \subseteq PCs
      /\ "storeLoaded" \notin Chosen /\ "evaluate" \notin Chosen
    BY DEF PCs, Chosen
<1>3. \A A \in SUBSET Symbols :
        LET r == [w[t] EXCEPT !.active = A] IN r \in Locals /\ r.close <= candle[r.iv]
    BY <1>1 DEF Locals
<1>4. CASE LoadHit(t)
  <2>1. CallbacksOK'
      BY <1>2, <1>3, <1>4, MoveType, SnapshotType DEF LoadHit
  <2> QED BY <1>4, <2>1 DEF LoadHit, SharedOK
<1>5. CASE LoadFetch(t)
  <2>1. CallbacksOK'
      BY <1>2, <1>3, <1>5, MoveType, SnapshotType DEF LoadFetch
  <2> QED BY <1>5, <2>1 DEF LoadFetch, SharedOK
<1>6. CASE LoadStore(t)
  <2>1. CallbacksOK'
      BY <1>2, <1>6, GotoType DEF LoadStore
  <2> QED BY <1>1, <1>6, <2>1 DEF LoadStore, SharedOK
<1>7. CASE LoadFails(t)
  <2>1. CallbacksOK'
      BY <1>7, ReturnType DEF LoadFails
  <2> QED BY <1>7, <2>1 DEF LoadFails, SharedOK
<1> QED BY <1>4, <1>5, <1>6, <1>7

(* Only here a best candidate is chosen: it comes from the signals. *)
LEMMA EvaluateType ==
    ASSUME TypeOK, NEW t \in Threads, Evaluate(t)
    PROVE  TypeOK'
<1> USE DEF TypeOK
<1>1. w[t] \in Locals /\ w[t].iv \in Intervals /\ w[t].close <= candle[w[t].iv]
    BY DEF CallbacksOK, Locals
<1>2. \A i \in Valid(t) : signals[w[t].iv][i] \in Symbols
    <2>1. signals[w[t].iv] \in SignalLists \cup {<<>>}
        BY <1>1 DEF SharedOK
    <2>2. CASE signals[w[t].iv] \in SignalLists
      <3>1. signals[w[t].iv] \in Seq(Symbols)
          BY <2>2, EntryAssumption
      <3> QED BY <3>1 DEF Valid
    <2>3. CASE signals[w[t].iv] = <<>>
        BY <2>3 DEF Valid
    <2> QED BY <2>1, <2>2, <2>3
<1>3. CASE Return(t)
  <2>1. CallbacksOK'
      BY <1>3, ReturnType DEF Evaluate
  <2> QED BY <2>1 DEF Evaluate, SharedOK
<1>4. CASE \E i \in Valid(t) :
             /\ pc' = [pc EXCEPT ![t] = "gate"]
             /\ w' = [w EXCEPT ![t] = [w[t] EXCEPT !.active = {},
                                                   !.best = signals[w[t].iv][i],
                                                   !.rivals = Valid(t) # {i}]]
  <2> PICK i \in Valid(t) :
             /\ pc' = [pc EXCEPT ![t] = "gate"]
             /\ w' = [w EXCEPT ![t] = [w[t] EXCEPT !.active = {},
                                                   !.best = signals[w[t].iv][i],
                                                   !.rivals = Valid(t) # {i}]]
      BY <1>4
  <2> DEFINE r == [w[t] EXCEPT !.active = {}, !.best = signals[w[t].iv][i],
                               !.rivals = Valid(t) # {i}]
  <2>1. r \in Locals /\ r.close <= candle[r.iv] /\ r.best \in Symbols
      BY <1>1, <1>2 DEF Locals
  <2>2. "gate" \in PCs
      BY DEF PCs
  <2>3. CallbacksOK'
      BY <2>1, <2>2, MoveType DEF Evaluate
  <2> QED BY <2>3 DEF Evaluate, SharedOK
<1>5. \A i : [w EXCEPT ![t].active = {}, ![t].best = signals[w[t].iv][i],
                       ![t].rivals = Valid(t) # {i}]
             = [w EXCEPT ![t] = [w[t] EXCEPT !.active = {},
                                             !.best = signals[w[t].iv][i],
                                             !.rivals = Valid(t) # {i}]]
    BY DEF CallbacksOK, Locals
<1> QED BY <1>3, <1>4, <1>5 DEF Evaluate

LEMMA PassGateType ==
    ASSUME TypeOK, NEW t \in Threads, NEW A \in SUBSET Symbols, PassGate(t, A),
           pc[t] \in Chosen, candle' = candle
    PROVE  CallbacksOK'
<1> USE DEF TypeOK
<1>1. /\ w[t] \in Locals /\ w[t].close <= candle[w[t].iv] /\ w[t].best \in Symbols
      /\ w[t].rivals \in BOOLEAN
    BY DEF CallbacksOK, Locals
<1> DEFINE q == w[t].rivals /\ Slots(Cardinality(A)) > 1
           r == [w[t] EXCEPT !.active = {}, !.rivals = q]
<1>2. r \in Locals /\ r.close <= candle[r.iv] /\ r.best \in Symbols
  <2>1. q \in BOOLEAN
      OBVIOUS
  <2> HIDE DEF q
  <2> QED BY <1>1, <2>1 DEF Locals
<1>3. "plan" \in PCs
    BY DEF PCs
<1>4. CASE pc' = [pc EXCEPT ![t] = "plan"] /\ w' = [w EXCEPT ![t] = r]
    BY <1>2, <1>3, <1>4, MoveType
<1>5. CASE Return(t)
    BY <1>5, ReturnType
<1>6. [w EXCEPT ![t].active = {}, ![t].rivals = q] = [w EXCEPT ![t] = r]
    BY DEF CallbacksOK, Locals
<1> QED BY <1>4, <1>5, <1>6 DEF PassGate

LEMMA GateType ==
    ASSUME TypeOK, NEW t \in Threads,
           GateHit(t) \/ GateFetch(t) \/ GateStore(t) \/ GateFails(t)
    PROVE  TypeOK'
<1> USE DEF TypeOK
<1>1. /\ w[t] \in Locals /\ w[t].close <= candle[w[t].iv] /\ w[t].active \in SUBSET Symbols
      /\ pc[t] \in Chosen => w[t].best \in Symbols
    BY DEF CallbacksOK, Locals
<1>2. {"gate", "storeLive"} \subseteq Chosen /\ "storeLive" \in PCs
    BY DEF PCs, Chosen
<1>3. CASE GateHit(t)
  <2>1. CallbacksOK'
      BY <1>2, <1>3, PassGateType, SnapshotType DEF GateHit
  <2> QED BY <1>3, <2>1 DEF GateHit, SharedOK
<1>4. CASE GateFetch(t)
  <2> DEFINE r == [w[t] EXCEPT !.active = Open]
  <2>1. r \in Locals /\ r.close <= candle[r.iv] /\ r.best \in Symbols
      BY <1>1, <1>2, <1>4, SnapshotType DEF Locals, GateFetch
  <2>2. CallbacksOK'
      BY <1>2, <1>4, <2>1, MoveType DEF GateFetch
  <2> QED BY <1>4, <2>2 DEF GateFetch, SharedOK
<1>5. CASE GateStore(t)
  <2>1. CallbacksOK'
      BY <1>1, <1>2, <1>5, PassGateType DEF GateStore
  <2> QED BY <1>1, <1>5, <2>1 DEF GateStore, SharedOK
<1>6. CASE GateFails(t)
  <2>1. CallbacksOK'
      BY <1>6, ReturnType DEF GateFails
  <2> QED BY <1>6, <2>1 DEF GateFails, SharedOK
<1> QED BY <1>3, <1>4, <1>5, <1>6

-----------------------------------------------------------------------------
(* The scheduler thread.                                                   *)

(* A poll only moves candles forward, so no close read before it is ahead. *)
LEMMA PollType == TypeOK /\ Poll => TypeOK'
<1> SUFFICES ASSUME TypeOK, Poll PROVE TypeOK'
    OBVIOUS
<1> USE DEF TypeOK
<1>1. PICK dueSet \in SUBSET Intervals : due' = dueSet /\
        \E refreshed \in SUBSET dueSet :
            /\ refreshed # {} => polls < MaxPolls
            /\ polls' = IF refreshed = {} THEN polls ELSE polls + 1
            /\ candle' = [iv \in Intervals |->
                            IF iv \in refreshed THEN candle[iv] + 1 ELSE candle[iv]]
            /\ \E seen \in [refreshed -> SignalLists] :
                 signals' = [iv \in Intervals |->
                               IF iv \in refreshed THEN seen[iv] ELSE signals[iv]]
  <2>1. \A atBoundary \in SUBSET Intervals :
          atBoundary \cup {MainInterval} \in SUBSET Intervals
      BY EntryAssumption
  <2> QED BY <2>1 DEF Poll
<1>2. PICK refreshed \in SUBSET dueSet :
            /\ refreshed # {} => polls < MaxPolls
            /\ polls' = IF refreshed = {} THEN polls ELSE polls + 1
            /\ candle' = [iv \in Intervals |->
                            IF iv \in refreshed THEN candle[iv] + 1 ELSE candle[iv]]
            /\ \E seen \in [refreshed -> SignalLists] :
                 signals' = [iv \in Intervals |->
                               IF iv \in refreshed THEN seen[iv] ELSE signals[iv]]
    BY <1>1
<1>3. candle' \in [Intervals -> Nat] /\ \A iv \in Intervals : candle[iv] <= candle'[iv]
    BY <1>2 DEF SharedOK
<1>4. polls' \in 0 .. MaxPolls
    BY <1>2, EntryAssumption DEF SharedOK
<1>5. signals' \in [Intervals -> SignalLists \cup {<<>>}]
  <2> PICK seen \in [refreshed -> SignalLists] :
             signals' = [iv \in Intervals |->
                           IF iv \in refreshed THEN seen[iv] ELSE signals[iv]]
      BY <1>2
  <2> QED BY DEF SharedOK
<1>6. \A iv \in Intervals : lastClose[iv] <= candle'[iv]
    BY <1>3 DEF SharedOK
<1>7. UNCHANGED <<lastClose, pc, w, lock, cache, exchange, monitors, reporting, entered>>
    BY DEF Poll
<1>8. SharedOK'
    BY <1>1, <1>3, <1>4, <1>5, <1>6, <1>7 DEF SharedOK
<1>9. CallbacksOK'
  <2>1. \A t \in Threads : w[t].iv \in Intervals /\ w[t].close \in Nat
      BY DEF CallbacksOK, Locals
  <2>2. \A t \in Threads : w[t].close <= candle'[w[t].iv]
      BY <1>3, <2>1 DEF CallbacksOK, SharedOK
  <2> QED BY <1>7, <2>2 DEF CallbacksOK
<1> QED BY <1>8, <1>9

LEMMA DispatchType == TypeOK /\ Dispatch => TypeOK'
<1> SUFFICES ASSUME TypeOK, Dispatch PROVE TypeOK'
    OBVIOUS
<1> USE DEF TypeOK
<1> PICK iv \in due : /\ due' = due \ {iv}
                      /\ pc' = [pc EXCEPT ![Sched] = "start"]
                      /\ w' = [w EXCEPT ![Sched] = Callback(iv)]
    BY DEF Dispatch
<1>1. "start" \in PCs /\ "start" \notin Chosen /\ Sched \in Threads
    BY DEF PCs, Chosen
<1>2. iv \in Intervals /\ candle' = candle
    BY DEF SharedOK, Dispatch
<1>3. CallbacksOK'
    BY <1>1, <1>2, NoCallbackType, MoveType
<1> QED BY <1>3 DEF Dispatch, SharedOK

-----------------------------------------------------------------------------
(* Inside and around the entry lock.                                       *)

LEMMA LockType ==
    ASSUME TypeOK, NEW t \in Threads,
           \/ PlanFails(t) \/ LockBusy(t) \/ LockTaken(t)
           \/ RecheckBlocks(t) \/ RecheckPasses(t)
    PROVE  TypeOK'
<1> USE DEF TypeOK
<1>1. /\ {"plan", "recheck", "submit"} \subseteq Chosen
      /\ "recheck" \in PCs /\ "submit" \in PCs
    BY DEF PCs, Chosen
<1>2. pc[t] \in Chosen => w[t].best \in Symbols
    BY DEF CallbacksOK
<1>3. CASE PlanFails(t)
    BY <1>3, ReturnType DEF PlanFails, SharedOK
<1>4. CASE LockBusy(t)
    BY <1>4, ReturnType DEF LockBusy, SharedOK
<1>5. CASE LockTaken(t)
  <2>1. CallbacksOK'
      BY <1>1, <1>2, <1>5, GotoType DEF LockTaken
  <2> QED BY <1>5, <2>1 DEF LockTaken, SharedOK
<1>6. CASE RecheckBlocks(t)
    BY <1>6, ReturnType DEF RecheckBlocks, ReleaseLock, SharedOK
<1>7. CASE RecheckPasses(t)
  <2>1. CallbacksOK'
      BY <1>1, <1>2, <1>7, GotoType DEF RecheckPasses
  <2> QED BY <1>7, <2>1 DEF RecheckPasses, SharedOK
<1> QED BY <1>3, <1>4, <1>5, <1>6, <1>7

LEMMA SubmitType ==
    ASSUME TypeOK, NEW t \in Threads, Submit(t) \/ SubmitRejected(t)
    PROVE  TypeOK'
<1> USE DEF TypeOK
<1>1. /\ {"finalize", "waiting", "submit"} \subseteq Chosen
      /\ "finalize" \in PCs /\ "waiting" \in PCs
    BY DEF PCs, Chosen
<1>2. pc[t] = "submit" /\ w[t].best \in Symbols /\ w[t] \in Locals
    BY <1>1 DEF CallbacksOK, Submit, SubmitRejected
<1>3. CASE Submit(t)
  <2>1. CallbacksOK'
      BY <1>1, <1>2, <1>3, GotoType DEF Submit
  <2>2. Entry(t) \in [iv: Intervals, close: Nat, sym: Symbols]
      BY <1>2 DEF Entry, Best, Locals
  <2>3. resting' \subseteq Symbols /\ lock' \in Threads \cup {NoThread}
      BY <1>2, <1>3 DEF Submit, Best, ReleaseLock, SharedOK
  <2> QED BY <1>3, <2>1, <2>2, <2>3 DEF Submit, SharedOK
<1>4. CASE SubmitRejected(t)
    BY <1>4, ReturnType DEF SubmitRejected, ReleaseLock, SharedOK
<1> QED BY <1>3, <1>4

(* The outcomes of placing the order. *)
LEMMA WaitingType ==
    ASSUME TypeOK, NEW t \in Threads,
           FillReported(t) \/ MarketFallback(t) \/ LimitTimeout(t) \/ PlacementRaises(t)
    PROVE  TypeOK'
<1> USE DEF TypeOK
<1>1. {"finalize", "waiting"} \subseteq Chosen /\ "finalize" \in PCs
    BY DEF PCs, Chosen
<1>2. w[t].best \in Symbols
    BY <1>1 DEF CallbacksOK, FillReported, MarketFallback, LimitTimeout, PlacementRaises
<1>3. CASE FillReported(t)
  <2>1. CallbacksOK'
      BY <1>1, <1>2, <1>3, GotoType DEF FillReported
  <2> QED BY <1>3, <2>1 DEF FillReported, ReleaseLock, SharedOK
<1>4. CASE MarketFallback(t)
  <2>1. CallbacksOK'
      BY <1>1, <1>2, <1>4, GotoType DEF MarketFallback
  <2> QED BY <1>2, <1>4, <2>1 DEF MarketFallback, CancelOrder, Best, ReleaseLock, SharedOK
<1>5. CASE LimitTimeout(t)
  <2>1. CallbacksOK'
      BY <1>5, ReturnType DEF LimitTimeout
  <2> QED BY <1>5, <2>1 DEF LimitTimeout, CancelOrder, ReleaseLock, SharedOK
<1>6. CASE PlacementRaises(t)
  <2>1. CallbacksOK'
      BY <1>6, ReturnType DEF PlacementRaises
  <2> QED BY <1>2, <1>6, <2>1 DEF PlacementRaises, Best, ReleaseLock, SharedOK
<1> QED BY <1>3, <1>4, <1>5, <1>6

LEMMA FinalizeType ==
    ASSUME TypeOK, NEW t \in Threads, Finalize(t) \/ FinalizeLate(t) \/ FinalizeRefuses(t)
    PROVE  TypeOK'
<1> USE DEF TypeOK
<1>1. {"finalize", "followup"} \subseteq Chosen /\ "followup" \in PCs
    BY DEF PCs, Chosen
<1>2. w[t].best \in Symbols
    BY <1>1 DEF CallbacksOK, Finalize, FinalizeLate, FinalizeRefuses
<1>3. cache' \in [data: SUBSET Symbols, fresh: BOOLEAN]
    BY DEF Finalize, FinalizeLate, FinalizeRefuses, Invalidate, SharedOK
<1>4. CASE Finalize(t)
  <2>1. CallbacksOK'
      BY <1>1, <1>2, <1>4, GotoType DEF Finalize
  <2> QED BY <1>2, <1>3, <1>4, <2>1 DEF Finalize, LaunchMonitor, Best, SharedOK
<1>5. CASE FinalizeLate(t)
  <2>1. CallbacksOK'
      BY <1>1, <1>2, <1>5, GotoType DEF FinalizeLate
  <2>2. reporting' \in [Symbols -> Nat]
      BY <1>2, <1>5 DEF FinalizeLate, Best, SharedOK
  <2> QED BY <1>3, <1>5, <2>1, <2>2 DEF FinalizeLate, SharedOK
<1>6. CASE FinalizeRefuses(t)
  <2>1. CallbacksOK'
      BY <1>6, ReturnType DEF FinalizeRefuses
  <2> QED BY <1>3, <1>6, <2>1 DEF FinalizeRefuses, SharedOK
<1> QED BY <1>4, <1>5, <1>6

(* A follow-up hands the interval to an idle thread, or to the thread that
   has just returned. *)
LEMMA FollowupType ==
    ASSUME TypeOK, NEW t \in Threads, NoFollowup(t) \/ Followup(t)
    PROVE  TypeOK'
<1> USE DEF TypeOK
<1>1. w[t] \in Locals /\ w[t].iv \in Intervals
    BY DEF CallbacksOK, Locals
<1>2. CASE NoFollowup(t)
  <2>1. CallbacksOK'
      BY <1>2, ReturnType DEF NoFollowup
  <2> QED BY <1>2, <2>1 DEF NoFollowup, SharedOK
<1>3. CASE Followup(t)
  <2> DEFINE c == Callback(w[t].iv)
  <2> PICK f \in Followups :
         /\ f = t \/ pc[f] = "idle"
         /\ pc' = [pc EXCEPT ![t] = "idle", ![f] = "start"]
         /\ w' = [w EXCEPT ![t] = NoCallback, ![f] = c]
      BY <1>3 DEF Followup
  <2>1. /\ c \in Locals /\ c.close <= candle[c.iv]
        /\ NoCallback \in Locals /\ NoCallback.close <= candle[NoCallback.iv]
      BY <1>1, NoCallbackType, EntryAssumption DEF NoCallback
  <2> HIDE DEF c
  <2>2. "start" \in PCs \ Chosen /\ "idle" \in PCs \ Chosen /\ f \in Threads
      BY DEF PCs, Chosen
  <2>3. pc' \in [Threads -> PCs] /\ w' \in [Threads -> Locals]
      BY <2>1, <2>2 DEF CallbacksOK
  <2>4. \A u \in Threads : \/ w'[u] = c /\ pc'[u] = "start"
                           \/ w'[u] = NoCallback /\ pc'[u] = "idle"
                           \/ w'[u] = w[u] /\ pc'[u] = pc[u]
      BY <2>2 DEF CallbacksOK
  <2>5. candle' = candle
      BY <1>3 DEF Followup
  <2>6. CallbacksOK'
      BY <2>1, <2>2, <2>3, <2>4, <2>5 DEF CallbacksOK
  <2>7. /\ lastClose' \in [Intervals -> Nat]
        /\ \A iv \in Intervals : lastClose'[iv] <= candle[iv]
      BY <1>1, <1>3 DEF Followup, SharedOK
  <2> QED BY <1>3, <2>6, <2>7 DEF Followup, Invalidate, SharedOK
<1> QED BY <1>2, <1>3

-----------------------------------------------------------------------------
LEMMA EnvironmentType == TypeOK /\ Environment => TypeOK'
<1> SUFFICES ASSUME TypeOK, Environment PROVE TypeOK'
    OBVIOUS
<1> USE DEF TypeOK
<1>1. CASE \E s \in Symbols : LimitFills(s)
    BY <1>1, UnchangedType DEF LimitFills, SharedOK
<1>2. CASE \E s \in Symbols : PositionCloses(s)
  <2> PICK s \in Symbols : PositionCloses(s)
      BY <1>2
  <2>1. reporting' \in [Symbols -> Nat]
      BY DEF PositionCloses, SharedOK
  <2> QED BY <2>1, UnchangedType DEF PositionCloses, SharedOK
<1>3. CASE \E s \in Symbols : MonitorReports(s)
  <2> PICK s \in Symbols : MonitorReports(s)
      BY <1>3
  <2>1. reporting' \in [Symbols -> Nat]
      BY DEF MonitorReports, SharedOK
  <2> QED BY <2>1, UnchangedType DEF MonitorReports, Invalidate, SharedOK
<1>4. CASE CacheExpires
    BY <1>4, UnchangedType DEF CacheExpires, Invalidate, SharedOK
<1> QED BY <1>1, <1>2, <1>3, <1>4 DEF Environment

LEMMA NextType == TypeOK /\ [Next]_vars => TypeOK'
<1> SUFFICES ASSUME TypeOK, [Next]_vars PROVE TypeOK'
    OBVIOUS
<1>1. CASE UNCHANGED vars
    BY <1>1, UnchangedType DEF TypeOK, SharedOK, vars
<1>2. ASSUME NEW t \in Threads, Step(t) PROVE TypeOK'
    BY <1>2, CloseType, LoadType, EvaluateType, GateType, LockType, SubmitType,
       WaitingType, FinalizeType, FollowupType DEF Step
<1> QED BY <1>1, <1>2, PollType, DispatchType, EnvironmentType DEF Next

(* Every variable keeps its type, no close is remembered or held that the
   market has not made, and a callback past the filter has a candidate to
   execute (entry_service.py:118-346). *)
THEOREM TypeCorrect == Spec => []TypeOK
BY InitType, NextType, PTL DEF Spec

-----------------------------------------------------------------------------
(* The positions never exceed max_positions.  MaxPositionsHeld is not       *)
(* inductive: a fill may come at any time, so what rests on the book must   *)
(* be known to fit.  SafetyInv says that only the holder of the entry lock  *)
(* has an order resting, and that there is room for it.                     *)

LEMMA FinitePositions ==
    ASSUME SharedOK
    PROVE  /\ IsFiniteSet(positions)
           /\ Cardinality(positions) \in Nat
           /\ \A s : /\ IsFiniteSet(positions \cup {s})
                     /\ Cardinality(positions \cup {s}) \in Nat
                     /\ Cardinality(positions \cup {s}) <= Cardinality(positions) + 1
<1>1. IsFiniteSet(positions) /\ Cardinality(positions) \in Nat
    BY FS_Subset, FS_CardinalityType, EntryAssumption DEF SharedOK
<1> QED BY <1>1, FS_AddElement, FS_CardinalityType

(* The lock excludes: two threads in the critical section are one. *)
LEMMA OneHolder ==
    ASSUME LockInv
    PROVE  /\ \A t, u \in Threads : pc[t] \in Critical /\ pc[u] \in Critical => t = u
           /\ lock = NoThread => \A t \in Threads : pc[t] \notin Critical
BY EntryAssumption DEF LockInv

(* A thread that is in the critical section without an order of its own knows
   that nothing rests on the book. *)
LEMMA BookEmpty ==
    ASSUME LockInv, RestingInv,
           lock = NoThread \/ \E t \in Threads : lock = t /\ pc[t] # "waiting"
    PROVE  resting = {}
BY OneHolder, EntryAssumption DEF LockInv, RestingInv, Critical

(* A step that gives the lock back, whatever the outcome of the entry. *)
LEMMA LeaveStep ==
    ASSUME TypeOK, SafetyInv, NEW t \in Threads, pc[t] \in Critical,
           lock' = NoThread, resting' = {}, MaxPositionsHeld',
           NEW l, l \notin Critical, pc' = [pc EXCEPT ![t] = l]
    PROVE  SafetyInv'
<1>1. \A u \in Threads : pc'[u] \notin Critical
    BY OneHolder DEF SafetyInv, TypeOK, CallbacksOK
<1>2. LockInv'
    BY <1>1, EntryAssumption DEF LockInv
<1> QED BY <1>1, <1>2 DEF SafetyInv, RestingInv, RoomInv, Critical

(* Every step of a thread before it takes the lock and after it gave it back. *)
QuietStep(t) ==
    \/ ReadClose(t) \/ MarkClose(t)
    \/ LoadHit(t) \/ LoadFetch(t) \/ LoadStore(t) \/ LoadFails(t)
    \/ Evaluate(t)
    \/ GateHit(t) \/ GateFetch(t) \/ GateStore(t) \/ GateFails(t)
    \/ PlanFails(t) \/ LockBusy(t)
    \/ Finalize(t) \/ FinalizeLate(t) \/ FinalizeRefuses(t) \/ NoFollowup(t)

(* A step that moves no thread into or out of the critical section. *)
Outside ==
    /\ UNCHANGED <<lock, exchange, entered>>
    /\ \A t \in Threads :
         \/ pc[t] \notin Critical /\ pc'[t] \notin Critical
         \/ pc'[t] = pc[t] /\ w'[t] = w[t]

LEMMA QuietOutside ==
    ASSUME TypeOK, NEW t \in Threads, QuietStep(t)
    PROVE  Outside
<1> DEFINE Quiet == /\ UNCHANGED <<lock, exchange, entered>>
                    /\ pc[t] \notin Critical
                    /\ \E l : l \notin Critical /\ pc' = [pc EXCEPT ![t] = l]
                    /\ \A u \in Threads : u # t => w'[u] = w[u]
<1>1. CASE Quiet
    BY <1>1 DEF TypeOK, CallbacksOK, Outside
<1> USE DEF Critical, Goto, Return, TypeOK, CallbacksOK
<1>2. CASE ReadClose(t) \/ MarkClose(t)
    BY <1>1, <1>2 DEF ReadClose, MarkClose
<1>3. CASE LoadHit(t) \/ LoadFetch(t) \/ LoadStore(t) \/ LoadFails(t)
    BY <1>1, <1>3 DEF LoadHit, LoadFetch, LoadStore, LoadFails
<1>4. CASE Evaluate(t)
    BY <1>1, <1>4 DEF Evaluate
<1>5. CASE GateHit(t) \/ GateFetch(t) \/ GateStore(t) \/ GateFails(t)
    BY <1>1, <1>5 DEF GateHit, GateFetch, GateStore, GateFails, PassGate
<1>6. CASE PlanFails(t) \/ LockBusy(t) \/ NoFollowup(t)
    BY <1>1, <1>6 DEF PlanFails, LockBusy, NoFollowup
<1>7. CASE Finalize(t) \/ FinalizeLate(t) \/ FinalizeRefuses(t)
    BY <1>1, <1>7 DEF Finalize, FinalizeLate, FinalizeRefuses
<1> QED BY <1>2, <1>3, <1>4, <1>5, <1>6, <1>7 DEF QuietStep

(* So is a follow-up: it moves threads that hold nothing. *)
LEMMA FollowupOutside ==
    ASSUME TypeOK, NEW t \in Threads, Followup(t)
    PROVE  Outside
<1> PICK f \in Followups :
       /\ f = t \/ pc[f] = "idle"
       /\ pc' = [pc EXCEPT ![t] = "idle", ![f] = "start"]
       /\ w' = [w EXCEPT ![t] = NoCallback, ![f] = Callback(w[t].iv)]
    BY DEF Followup
<1> QED BY DEF TypeOK, CallbacksOK, Critical, Followup, Outside

(* So are the scheduler and what happens beside the threads. *)
LEMMA OthersOutside ==
    ASSUME TypeOK,
           \/ Poll \/ Dispatch \/ CacheExpires \/ UNCHANGED vars
           \/ \E s \in Symbols : MonitorReports(s)
    PROVE  Outside
<1>1. CASE Dispatch
    BY <1>1 DEF Dispatch, TypeOK, CallbacksOK, Critical, Outside
<1> QED BY <1>1 DEF Poll, CacheExpires, MonitorReports, vars, Outside

LEMMA OutsideStep ==
    ASSUME SafetyInv, Outside
    PROVE  SafetyInv'
<1> USE DEF SafetyInv, Critical, Best, Outside
<1>1. LockInv'
    BY DEF LockInv
<1>2. RestingInv'
  <2> SUFFICES ASSUME NEW s \in resting
               PROVE  \E t \in Threads : pc'[t] = "waiting" /\ w'[t].best = s
      BY DEF RestingInv
  <2> QED BY DEF RestingInv
<1>3. RoomInv' /\ MaxPositionsHeld'
    BY DEF RoomInv, MaxPositionsHeld
<1> QED BY <1>1, <1>2, <1>3

LEMMA LockStep ==
    ASSUME TypeOK, SafetyInv, NEW t \in Threads, LockTaken(t) \/ RecheckPasses(t)
    PROVE  SafetyInv'
<1> USE DEF SafetyInv
<1>1. \A u \in Threads : u # t => pc[u] \notin Critical
    BY OneHolder DEF LockTaken, RecheckPasses, Critical
<1>2. resting = {}
  <2>1. CASE LockTaken(t)
      BY <2>1, BookEmpty DEF LockTaken
  <2>2. CASE RecheckPasses(t)
      BY <2>2, BookEmpty DEF RecheckPasses, LockInv, Critical
  <2> QED BY <2>1, <2>2
<1>3. \A u \in Threads : u # t => pc'[u] = pc[u]
    BY DEF TypeOK, CallbacksOK, LockTaken, RecheckPasses, Goto
<1>4. CASE LockTaken(t)
  <2>1. pc'[t] = "recheck" /\ lock' = t /\ resting' = {} /\ positions' = positions
      BY <1>2, <1>4 DEF LockTaken, Goto, TypeOK, CallbacksOK
  <2>2. LockInv'
      BY <1>1, <1>3, <2>1 DEF LockInv, Critical
  <2>3. RestingInv' /\ RoomInv' /\ MaxPositionsHeld'
      BY <1>1, <1>3, <2>1 DEF RestingInv, RoomInv, MaxPositionsHeld, Critical
  <2> QED BY <2>2, <2>3
<1>5. CASE RecheckPasses(t)
  <2>1. /\ pc[t] = "recheck" /\ pc'[t] = "submit"
        /\ lock' = lock /\ resting' = {} /\ positions' = positions
      BY <1>2, <1>5 DEF RecheckPasses, Goto, TypeOK, CallbacksOK
  <2>2. ~Paper => Cardinality(positions) < MaxPositions
    <3>1. ~Paper => ~(Cardinality(positions) >= MaxPositions)
        BY <1>5 DEF RecheckPasses, PositionGateBlocked, Open
    <3> QED BY <3>1, FinitePositions, EntryAssumption DEF TypeOK
  <2>3. LockInv'
      BY <1>3, <2>1 DEF LockInv, Critical
  <2>4. RestingInv' /\ RoomInv' /\ MaxPositionsHeld'
      BY <1>1, <1>3, <2>1, <2>2 DEF RestingInv, RoomInv, MaxPositionsHeld, Critical
  <2> QED BY <2>3, <2>4
<1> QED BY <1>4, <1>5

(* Only here a limit order is placed: there is room for its fill. *)
LEMMA SubmitStep ==
    ASSUME TypeOK, SafetyInv, NEW t \in Threads, Submit(t) \/ SubmitRejected(t)
    PROVE  SafetyInv'
<1> USE DEF SafetyInv
<1>1. pc[t] = "submit" /\ lock = t
    BY DEF Submit, SubmitRejected, LockInv, Critical
<1>2. resting = {}
    BY <1>1, BookEmpty
<1>3. positions' = positions
    BY DEF Submit, SubmitRejected
<1>4. CASE lock' = NoThread
  <2>1. resting' = {} /\ MaxPositionsHeld'
      BY <1>1, <1>2, <1>3, <1>4, EntryAssumption
         DEF Submit, SubmitRejected, MaxPositionsHeld
  <2>2. \E l : l \notin Critical /\ pc' = [pc EXCEPT ![t] = l]
      BY <1>1, <1>4, EntryAssumption DEF Submit, SubmitRejected, Goto, Return, Critical
  <2> QED BY <1>1, <1>4, <2>1, <2>2, LeaveStep DEF Critical
<1>5. CASE lock' # NoThread
  <2>1. /\ ~Paper /\ lock' = lock /\ w' = w
        /\ pc' = [pc EXCEPT ![t] = "waiting"] /\ resting' = {Best(t)}
      BY <1>2, <1>5 DEF Submit, SubmitRejected, Goto, ReleaseLock
  <2>2. /\ pc'[t] = "waiting"
        /\ \A u \in Threads : u # t => pc'[u] = pc[u] /\ pc[u] \notin Critical
      BY <1>1, <2>1, OneHolder DEF TypeOK, CallbacksOK, Critical
  <2>3. LockInv'
      BY <1>1, <2>1, <2>2 DEF LockInv, Critical
  <2>4. RestingInv'
      BY <2>1, <2>2 DEF RestingInv, Best
  <2>5. Cardinality(positions \cup {Best(t)}) <= MaxPositions
    <3>1. Cardinality(positions) < MaxPositions
        BY <1>1, <2>1 DEF RoomInv
    <3>2. /\ Cardinality(positions) \in Nat
          /\ Cardinality(positions \cup {Best(t)}) \in Nat
          /\ Cardinality(positions \cup {Best(t)}) <= Cardinality(positions) + 1
        BY FinitePositions DEF TypeOK
    <3>3. MaxPositions \in Nat
        BY EntryAssumption
    <3> QED BY <3>1, <3>2, <3>3
  <2>6. RoomInv' /\ MaxPositionsHeld'
      BY <1>3, <2>1, <2>2, <2>5 DEF RoomInv, MaxPositionsHeld, Best, Critical
  <2> QED BY <2>3, <2>4, <2>6
<1> QED BY <1>4, <1>5

(* The placement ends: the order is off the book, filled or not. *)
LEMMA LeaveSteps ==
    ASSUME TypeOK, SafetyInv, "stray_limit" \notin Faults, NEW t \in Threads,
           \/ RecheckBlocks(t) \/ FillReported(t) \/ MarketFallback(t)
           \/ LimitTimeout(t) \/ PlacementRaises(t)
    PROVE  SafetyInv'
<1> USE DEF SafetyInv
<1>1. pc[t] \in {"recheck", "waiting"} /\ lock = t /\ lock' = NoThread
    BY DEF RecheckBlocks, FillReported, MarketFallback, LimitTimeout, PlacementRaises,
           ReleaseLock, LockInv, Critical
<1>2. \E l : l \notin Critical /\ pc' = [pc EXCEPT ![t] = l]
    BY DEF RecheckBlocks, FillReported, MarketFallback, LimitTimeout, PlacementRaises,
           Goto, Return, Critical
<1>3. CASE RecheckBlocks(t)
  <2>1. resting' = {} /\ MaxPositionsHeld'
      BY <1>1, <1>3, BookEmpty DEF RecheckBlocks, MaxPositionsHeld
  <2> QED BY <1>1, <1>2, <2>1, LeaveStep DEF Critical
<1>4. CASE ~RecheckBlocks(t)
  <2>1. pc[t] = "waiting"
      BY <1>4 DEF FillReported, MarketFallback, LimitTimeout, PlacementRaises
  <2>2. resting \subseteq {Best(t)}
      BY <2>1, OneHolder DEF RestingInv, Critical
  <2>3. resting' = {}
      BY <1>4, <2>2 DEF FillReported, MarketFallback, LimitTimeout, PlacementRaises, CancelOrder
  <2>4. positions' = positions \/ positions' = positions \cup {Best(t)}
      BY <1>4 DEF FillReported, MarketFallback, LimitTimeout, PlacementRaises
  <2>5. MaxPositionsHeld'
      BY <2>1, <2>4 DEF RoomInv, MaxPositionsHeld
  <2> QED BY <1>1, <1>2, <2>3, <2>5, LeaveStep DEF Critical
<1> QED BY <1>3, <1>4

LEMMA EnvironmentStep ==
    ASSUME TypeOK, SafetyInv, Environment
    PROVE  SafetyInv'
<1> USE DEF SafetyInv
<1>1. ASSUME NEW s \in Symbols, LimitFills(s) PROVE SafetyInv'
  <2>1. PICK t \in Threads : pc[t] = "waiting" /\ Best(t) = s
      BY <1>1 DEF LimitFills, RestingInv
  <2>2. UNCHANGED <<pc, w, lock>> /\ resting' \subseteq resting
        /\ positions' = positions \cup {s}
      BY <1>1 DEF LimitFills
  <2>3. \A u \in Threads : pc[u] \in Critical => u = t
      BY <2>1, OneHolder DEF Critical
  <2>4. LockInv' /\ RestingInv'
      BY <2>2 DEF LockInv, RestingInv, Best
  <2>5. RoomInv' /\ MaxPositionsHeld'
    <3>1. Cardinality(positions \cup {s}) <= MaxPositions
        BY <2>1 DEF RoomInv
    <3>2. positions' \cup {s} = positions \cup {s}
        BY <2>2
    <3> QED BY <2>1, <2>2, <2>3, <3>1, <3>2 DEF RoomInv, MaxPositionsHeld, Best, Critical
  <2> QED BY <2>4, <2>5
<1>2. ASSUME NEW s \in Symbols, PositionCloses(s) PROVE SafetyInv'
  <2>1. UNCHANGED <<pc, w, lock, resting>> /\ positions' = positions \ {s}
      BY <1>2 DEF PositionCloses
  <2>2. Cardinality(positions') <= Cardinality(positions)
    <3>1. positions' \subseteq positions
        BY <2>1
    <3> QED BY <3>1, FinitePositions, FS_Subset DEF TypeOK
  <2>3. \A x : Cardinality(positions' \cup {x}) <= Cardinality(positions \cup {x})
    <3> TAKE x
    <3>1. positions' \cup {x} \subseteq positions \cup {x}
        BY <2>1
    <3> QED BY <3>1, FinitePositions, FS_Subset DEF TypeOK
  <2>4. IsFiniteSet(positions') /\ Cardinality(positions') \in Nat
      BY <2>1, FinitePositions, FS_Subset, FS_CardinalityType DEF TypeOK
  <2>5. \A x : Cardinality(positions' \cup {x}) \in Nat
      BY <2>4, FS_AddElement, FS_CardinalityType
  <2>6. /\ MaxPositions \in Nat /\ Cardinality(positions) \in Nat
        /\ \A x : Cardinality(positions \cup {x}) \in Nat
      BY FinitePositions, EntryAssumption DEF TypeOK
  <2>7. LockInv' /\ RestingInv'
      BY <2>1 DEF LockInv, RestingInv, Best
  <2>8. RoomInv'
    <3> SUFFICES ASSUME NEW t \in Threads
                 PROVE  /\ pc[t] = "submit" /\ ~Paper => Cardinality(positions') < MaxPositions
                        /\ pc[t] = "waiting" =>
                             Cardinality(positions' \cup {Best(t)}) <= MaxPositions
        BY <2>1 DEF RoomInv, Best
    <3>1. ASSUME pc[t] = "submit", ~Paper PROVE Cardinality(positions') < MaxPositions
      <4>1. Cardinality(positions) < MaxPositions
          BY <3>1 DEF RoomInv
      <4> QED BY <2>2, <2>4, <2>6, <4>1
    <3>2. ASSUME pc[t] = "waiting"
          PROVE  Cardinality(positions' \cup {Best(t)}) <= MaxPositions
      <4>1. Cardinality(positions \cup {Best(t)}) <= MaxPositions
          BY <3>2 DEF RoomInv
      <4> HIDE DEF Best
      <4>2. /\ Cardinality(positions' \cup {Best(t)}) <= Cardinality(positions \cup {Best(t)})
            /\ Cardinality(positions' \cup {Best(t)}) \in Nat
            /\ Cardinality(positions \cup {Best(t)}) \in Nat
          BY <2>3, <2>5, <2>6
      <4> QED BY <2>6, <4>1, <4>2
    <3> QED BY <3>1, <3>2
  <2>9. MaxPositionsHeld'
      BY <2>2, <2>4, <2>6 DEF MaxPositionsHeld
  <2> QED BY <2>7, <2>8, <2>9
<1>3. CASE (\E s \in Symbols : MonitorReports(s)) \/ CacheExpires
    BY <1>3, OthersOutside, OutsideStep
<1> QED BY <1>1, <1>2, <1>3 DEF Environment

LEMMA NextStep ==
    ASSUME TypeOK, SafetyInv, "stray_limit" \notin Faults, [Next]_vars
    PROVE  SafetyInv'
<1>1. CASE Poll \/ Dispatch \/ UNCHANGED vars
    BY <1>1, OthersOutside, OutsideStep
<1>2. ASSUME NEW t \in Threads, Step(t) PROVE SafetyInv'
    BY <1>2, QuietOutside, FollowupOutside, OutsideStep, LockStep, SubmitStep, LeaveSteps
       DEF Step, QuietStep
<1> QED BY <1>1, <1>2, EnvironmentStep DEF Next

LEMMA SafetyCorrect ==
    ASSUME "stray_limit" \notin Faults
    PROVE  Spec => [](TypeOK /\ SafetyInv)
<1>1. Init => TypeOK /\ SafetyInv
  <2>1. Init => SafetyInv
      BY EntryAssumption
         DEF Init, SafetyInv, LockInv, RestingInv, RoomInv, MaxPositionsHeld, Critical
  <2> QED BY <2>1, InitType
<1>2. TypeOK /\ SafetyInv /\ [Next]_vars => (TypeOK /\ SafetyInv)'
    BY NextType, NextStep
<1> QED BY <1>1, <1>2, PTL DEF Spec

(* Over any number of threads, symbols and candles, the entries of the bot
   never take the account above max_positions, provided that no cancel of a
   limit order is lost (entry_service.py:645-760, execution.py:290-348). *)
THEOREM MaxPositionsTheorem ==
    ASSUME "stray_limit" \notin Faults
    PROVE  Spec => []MaxPositionsHeld
<1>1. TypeOK /\ SafetyInv => MaxPositionsHeld
    BY DEF SafetyInv
<1> QED BY <1>1, SafetyCorrect, PTL

-----------------------------------------------------------------------------
(* The entry lock, and the refinement of AccountLimit.  Neither needs the   *)
(* room of SafetyInv, so both hold with every fault: EntryInv adds to the   *)
(* lock only that paper trading never reaches the exchange.                 *)

PaperInv ==
    Paper => positions = {} /\ resting = {} /\ \A t \in Threads : pc[t] # "waiting"

EntryInv == LockInv /\ PaperInv

LEMMA OutsideKeeps ==
    ASSUME EntryInv, Outside
    PROVE  EntryInv'
BY DEF EntryInv, LockInv, PaperInv, Outside, Critical

(* The holder moves on and keeps the lock. *)
LEMMA HolderMoves ==
    ASSUME TypeOK, EntryInv, NEW t \in Threads, pc[t] \in Critical, lock' = lock,
           NEW l \in Critical, l = "waiting" => ~Paper, pc' = [pc EXCEPT ![t] = l],
           positions' = positions, ~Paper \/ resting' = resting
    PROVE  EntryInv'
BY DEF TypeOK, CallbacksOK, EntryInv, LockInv, PaperInv, Critical

(* The holder leaves and gives it back. *)
LEMMA HolderLeaves ==
    ASSUME TypeOK, EntryInv, NEW t \in Threads, pc[t] \in Critical, lock' = NoThread,
           NEW l, l \notin Critical, pc' = [pc EXCEPT ![t] = l],
           ~Paper \/ UNCHANGED exchange
    PROVE  EntryInv'
<1>1. \A u \in Threads : pc'[u] \notin Critical
    BY OneHolder DEF EntryInv, TypeOK, CallbacksOK
<1> QED BY <1>1, EntryAssumption DEF EntryInv, LockInv, PaperInv, Critical

LEMMA LockTakenKeeps ==
    ASSUME TypeOK, EntryInv, NEW t \in Threads, LockTaken(t)
    PROVE  EntryInv'
<1>1. \A u \in Threads : pc[u] \notin Critical
    BY OneHolder DEF EntryInv, LockTaken
<1>2. /\ pc'[t] = "recheck" /\ lock' = t /\ UNCHANGED exchange
      /\ \A u \in Threads : u # t => pc'[u] = pc[u]
    BY DEF LockTaken, Goto, TypeOK, CallbacksOK
<1> QED BY <1>1, <1>2 DEF EntryInv, LockInv, PaperInv, Critical

(* The steps of a thread that holds the lock. *)
HolderStep(t) ==
    \/ RecheckBlocks(t) \/ RecheckPasses(t)
    \/ Submit(t) \/ SubmitRejected(t)
    \/ FillReported(t) \/ MarketFallback(t) \/ LimitTimeout(t) \/ PlacementRaises(t)

LEMMA HolderKeeps ==
    ASSUME TypeOK, EntryInv, NEW t \in Threads, HolderStep(t)
    PROVE  EntryInv'
<1> USE DEF Critical, Goto, Return
<1>1. CASE RecheckPasses(t)
    BY <1>1, HolderMoves DEF RecheckPasses
<1>2. CASE Submit(t)
  <2>1. CASE Paper
      BY <1>2, <2>1, HolderLeaves DEF Submit, ReleaseLock
  <2>2. CASE ~Paper
      BY <1>2, <2>2, HolderMoves DEF Submit
  <2> QED BY <2>1, <2>2
<1>3. CASE RecheckBlocks(t) \/ SubmitRejected(t)
    BY <1>3, HolderLeaves DEF RecheckBlocks, SubmitRejected, ReleaseLock
<1>4. CASE FillReported(t) \/ MarketFallback(t) \/ LimitTimeout(t) \/ PlacementRaises(t)
  <2>1. pc[t] = "waiting" /\ ~Paper /\ lock' = NoThread
      BY <1>4 DEF FillReported, MarketFallback, LimitTimeout, PlacementRaises,
                  ReleaseLock, EntryInv, PaperInv
  <2>2. \E l : l \notin Critical /\ pc' = [pc EXCEPT ![t] = l]
      BY <1>4 DEF FillReported, MarketFallback, LimitTimeout, PlacementRaises
  <2> QED BY <2>1, <2>2, HolderLeaves
<1> QED BY <1>1, <1>2, <1>3, <1>4 DEF HolderStep

LEMMA ExchangeKeeps ==
    ASSUME EntryInv, NEW s \in Symbols, LimitFills(s) \/ PositionCloses(s)
    PROVE  EntryInv'
BY DEF LimitFills, PositionCloses, EntryInv, LockInv, PaperInv

(* What a step is, seen from the entry lock. *)
LEMMA StepKinds ==
    ASSUME TypeOK, [Next]_vars
    PROVE  \/ Outside
           \/ \E t \in Threads : LockTaken(t) \/ HolderStep(t)
           \/ \E s \in Symbols : LimitFills(s) \/ PositionCloses(s)
<1>1. ASSUME NEW t \in Threads, Step(t)
      PROVE  Outside \/ LockTaken(t) \/ HolderStep(t)
    BY <1>1, QuietOutside, FollowupOutside DEF Step, QuietStep, HolderStep
<1>2. CASE Environment
    BY <1>2, OthersOutside DEF Environment
<1>3. CASE Poll \/ Dispatch \/ UNCHANGED vars
    BY <1>3, OthersOutside
<1> QED BY <1>1, <1>2, <1>3 DEF Next

LEMMA EntryInvCorrect == Spec => [](TypeOK /\ EntryInv)
<1>1. Init => TypeOK /\ EntryInv
    BY InitType, EntryAssumption DEF Init, EntryInv, LockInv, PaperInv, Critical
<1>2. TypeOK /\ EntryInv /\ [Next]_vars => (TypeOK /\ EntryInv)'
    BY NextType, StepKinds, OutsideKeeps, LockTakenKeeps, HolderKeeps, ExchangeKeeps
<1> QED BY <1>1, <1>2, PTL DEF Spec

(* Whoever placed an entry, whatever came of it, has given _entry_lock back
   when it leaves the placement, and nobody else ever holds it
   (entry_service.py:645, 739).  Every fault is admitted. *)
THEOREM LockTheorem == Spec => []LockInv
BY EntryInvCorrect, PTL DEF EntryInv

-----------------------------------------------------------------------------
(* Step by step, EntryService implements AccountLimit.                     *)

AtWork == {"submit", "waiting"}

LEMMA WorkingKept ==
    ASSUME \A t \in Threads : \/ pc[t] \notin AtWork /\ pc'[t] \notin AtWork
                              \/ pc'[t] = pc[t] /\ w'[t] = w[t]
    PROVE  Working' = Working
BY DEF Working, AtWork, Best

LEMMA OutsideRefines ==
    ASSUME Outside
    PROVE  UNCHANGED <<positions, Working>>
BY WorkingKept DEF Outside, Critical, AtWork

(* The one thread in the critical section is the only one that may be at work. *)
LEMMA WorkingOfHolder ==
    ASSUME LockInv, NEW t \in Threads, pc[t] \in Critical
    PROVE  Working = IF pc[t] \in AtWork THEN {Best(t)} ELSE {}
<1>1. \A u \in Threads : u # t => pc[u] \notin AtWork
    BY OneHolder DEF Critical, AtWork
<1> QED BY <1>1 DEF Working, AtWork

(* After a step of the holder, it still is. *)
LEMMA WorkingAfter ==
    ASSUME TypeOK, LockInv, NEW t \in Threads, pc[t] \in Critical,
           NEW l, pc' = [pc EXCEPT ![t] = l], w' = w \/ l \notin AtWork
    PROVE  Working' = IF l \in AtWork THEN {Best(t)} ELSE {}
<1>1. \A u \in Threads : u # t => pc'[u] \notin AtWork
    BY OneHolder DEF TypeOK, CallbacksOK, Critical, AtWork
<1>2. pc'[t] = l
    BY DEF TypeOK, CallbacksOK
<1> QED BY <1>1, <1>2 DEF Working, AtWork, Best

(* The cardinality AccountLimit counts with is the usual one. *)
LEMMA SameCardinality == \A S : Account!Cardinality(S) = Cardinality(S)
BY Zenon DEF Cardinality, Account!Cardinality

(* The recheck lets an entry in: alone, for a free symbol, with room. *)
LEMMA RecheckAdmits ==
    ASSUME TypeOK, EntryInv, NEW t \in Threads, RecheckPasses(t)
    PROVE  Account!Admit(Best(t)) /\ Best(t) \in Symbols
<1>1. pc[t] = "recheck" /\ Goto(t, "submit") /\ positions' = positions
    BY DEF RecheckPasses
<1>2. Working = {} /\ Working' = {Best(t)}
    BY <1>1, WorkingOfHolder, WorkingAfter DEF Goto, EntryInv, Critical, AtWork
<1>3. Open = positions
    BY DEF Open, EntryInv, PaperInv
<1>4. Best(t) \notin positions /\ ~(Cardinality(positions) >= MaxPositions)
    BY <1>3 DEF RecheckPasses, PositionGateBlocked
<1>5. Cardinality(positions) < MaxPositions
    BY <1>4, FinitePositions, EntryAssumption DEF TypeOK
<1>6. Best(t) \in Symbols
    BY <1>1 DEF TypeOK, CallbacksOK, Chosen, Best
<1> QED BY <1>1, <1>2, <1>4, <1>5, <1>6, SameCardinality DEF Account!Admit

LEMMA HolderRefines ==
    ASSUME TypeOK, EntryInv, NEW t \in Threads, HolderStep(t)
    PROVE  Account!Next \/ UNCHANGED <<positions, Working>>
<1> USE DEF EntryInv
<1>1. CASE RecheckPasses(t)
    BY <1>1, RecheckAdmits DEF Account!Next
<1>2. CASE RecheckBlocks(t)
  <2>1. pc[t] = "recheck" /\ positions' = positions
      BY <1>2 DEF RecheckBlocks
  <2>2. UNCHANGED Working
    <3>1. \A u \in Threads : u # t => pc'[u] = pc[u] /\ w'[u] = w[u]
        BY <1>2 DEF RecheckBlocks, Return, TypeOK, CallbacksOK
    <3>2. pc'[t] = "idle"
        BY <1>2 DEF RecheckBlocks, Return, TypeOK, CallbacksOK
    <3> QED BY <2>1, <3>1, <3>2, WorkingKept DEF AtWork
  <2> QED BY <2>1, <2>2
<1>3. CASE HolderStep(t) /\ ~RecheckPasses(t) /\ ~RecheckBlocks(t)
  <2>1. pc[t] \in AtWork /\ pc[t] \in Critical
      BY <1>3 DEF HolderStep, Submit, SubmitRejected, FillReported, MarketFallback,
                  LimitTimeout, PlacementRaises, AtWork, Critical
  <2>2. Working = {Best(t)} /\ Best(t) \in Symbols
      BY <2>1, WorkingOfHolder DEF TypeOK, CallbacksOK, AtWork, Chosen, Best
  <2>3. Working' = {Best(t)} \/ Working' = {}
    <3>1. \E l : pc' = [pc EXCEPT ![t] = l] /\ (w' = w \/ l \notin AtWork)
        BY <1>3 DEF HolderStep, Submit, SubmitRejected, FillReported, MarketFallback,
                    LimitTimeout, PlacementRaises, Goto, Return, AtWork
    <3> QED BY <2>1, <3>1, WorkingAfter
  <2>4. positions' = positions \/ positions' = positions \cup {Best(t)}
      BY <1>3 DEF HolderStep, Submit, SubmitRejected, FillReported, MarketFallback,
                  LimitTimeout, PlacementRaises
  <2>5. CASE positions' = positions
      BY <2>2, <2>3, <2>5 DEF Account!Next, Account!End
  <2>6. CASE positions' = positions \cup {Best(t)}
      BY <2>2, <2>3, <2>6 DEF Account!Next, Account!Fill
  <2> QED BY <2>4, <2>5, <2>6
<1> QED BY <1>1, <1>2, <1>3

(* A fill belongs to the entry at work, or to an order nobody waits for. *)
LEMMA FillRefines ==
    ASSUME EntryInv, NEW s \in Symbols, LimitFills(s)
    PROVE  Account!Next \/ s \in Stray
<1>1. s \in resting /\ positions' = positions \cup {s} /\ Working' = Working
    BY WorkingKept DEF LimitFills
<1>2. CASE \E t \in Threads : pc[t] = "waiting" /\ Best(t) = s
    BY <1>1, <1>2 DEF Working, Account!Next, Account!Fill
<1>3. CASE ~\E t \in Threads : pc[t] = "waiting" /\ Best(t) = s
    BY <1>1, <1>3 DEF Stray
<1> QED BY <1>2, <1>3

LEMMA CloseRefines ==
    ASSUME NEW s \in Symbols, PositionCloses(s)
    PROVE  Account!Next
<1>1. s \in positions /\ positions' = positions \ {s} /\ Working' = Working
    BY WorkingKept DEF PositionCloses
<1> QED BY <1>1 DEF Account!Next, Account!Close

(* Whatever the gates before it read, and whatever fails, an entry is let in
   alone, for a free symbol, while there is room, keeps its room until it has
   ended, and positions open for it and for orders the code gave up on only
   (entry_service.py:645-739). *)
THEOREM RefinementTheorem == Spec => ImplementsAccountLimit
<1>1. Init => Account!Init
  <2>1. Init => Working = {}
    <3>1. Init => \A t \in Threads : pc[t] \notin {"submit", "waiting"}
        BY DEF Init
    <3> QED BY <3>1 DEF Working
  <2> QED BY <2>1, SameCardinality DEF Init, Account!Init
<1>2. TypeOK /\ EntryInv /\ [Next]_vars =>
        [Account!Next \/ \E s \in Stray : LimitFills(s)]_<<positions, Working>>
  <2> SUFFICES ASSUME TypeOK, EntryInv, [Next]_vars
               PROVE  \/ Account!Next \/ \E s \in Stray : LimitFills(s)
                      \/ UNCHANGED <<positions, Working>>
      OBVIOUS
  <2>1. CASE \E t \in Threads : LockTaken(t)
    <3>1. UNCHANGED <<positions, Working>>
        BY <2>1, WorkingKept DEF LockTaken, Goto, TypeOK, CallbacksOK, AtWork
    <3> QED BY <3>1
  <2> QED BY <2>1, StepKinds, OutsideRefines, HolderRefines, FillRefines, CloseRefines
<1> QED BY <1>1, <1>2, EntryInvCorrect, PTL DEF Spec, ImplementsAccountLimit

(* When no cancel of a limit order is lost, nothing opens but the entry at
   work: the whole behaviour is one of AccountLimit (entry_service.py:645-739,
   execution.py:290-348). *)
THEOREM AccountTheorem ==
    ASSUME "stray_limit" \notin Faults
    PROVE  Spec => Account!Spec
<1>1. TypeOK /\ SafetyInv => Stray = {}
    BY DEF SafetyInv, RestingInv, Stray
<1>2. ASSUME Stray = {}, [Account!Next \/ \E s \in Stray : LimitFills(s)]_<<positions, Working>>
      PROVE  [Account!Next]_Account!account
    BY <1>2 DEF Account!account
<1> QED BY <1>1, <1>2, SafetyCorrect, RefinementTheorem, PTL
       DEF ImplementsAccountLimit, Account!Spec

-----------------------------------------------------------------------------
(* Every position is watched.                                              *)

Watching == {"waiting", "finalize"}

(* A step that opens nothing, drops no monitor and moves no thread that is on
   its way to launch one. *)
LEMMA WatchKept ==
    ASSUME EveryPositionMonitored, positions' \subseteq positions, monitors' = monitors,
           \A t \in Threads : pc[t] \in Watching => pc'[t] \in Watching /\ w'[t] = w[t]
    PROVE  EveryPositionMonitored'
BY DEF EveryPositionMonitored, Watching, Best

LEMMA QuietWatch ==
    ASSUME TypeOK, EntryInv, EveryPositionMonitored, Faults = {},
           NEW t \in Threads, QuietStep(t)
    PROVE  EveryPositionMonitored'
<1> USE DEF Goto, Return, TypeOK, CallbacksOK, Watching
<1>1. CASE Finalize(t) \/ FinalizeLate(t)
  <2>1. /\ positions' = positions /\ monitors \subseteq monitors'
        /\ \A u \in Threads : u # t => pc'[u] = pc[u] /\ w'[u] = w[u]
        /\ Best(t) \in positions => Best(t) \in monitors' \/ Paper
      BY <1>1 DEF Finalize, FinalizeLate, LaunchMonitor
  <2>2. CASE Paper
      BY <2>1, <2>2 DEF EveryPositionMonitored, EntryInv, PaperInv
  <2>3. CASE ~Paper
      BY <2>1, <2>3 DEF EveryPositionMonitored, Best
  <2> QED BY <2>2, <2>3
<1>2. CASE ReadClose(t) \/ MarkClose(t)
    BY <1>2, WatchKept DEF ReadClose, MarkClose
<1>3. CASE LoadHit(t) \/ LoadFetch(t) \/ LoadStore(t) \/ LoadFails(t)
    BY <1>3, WatchKept DEF LoadHit, LoadFetch, LoadStore, LoadFails
<1>4. CASE Evaluate(t)
    BY <1>4, WatchKept DEF Evaluate
<1>5. CASE GateHit(t) \/ GateFetch(t) \/ GateStore(t) \/ GateFails(t)
    BY <1>5, WatchKept DEF GateHit, GateFetch, GateStore, GateFails, PassGate
<1>6. CASE PlanFails(t) \/ LockBusy(t) \/ NoFollowup(t)
    BY <1>6, WatchKept DEF PlanFails, LockBusy, NoFollowup
<1>7. ~FinalizeRefuses(t)
    BY DEF FinalizeRefuses
<1> QED BY <1>1, <1>2, <1>3, <1>4, <1>5, <1>6, <1>7 DEF QuietStep

(* Without lost answers a placement ends with its thread on the way to the
   monitor, or without a position. *)
LEMMA HolderWatch ==
    ASSUME TypeOK, EntryInv, EveryPositionMonitored, Faults = {}, ~LimitOnly,
           NEW t \in Threads, HolderStep(t)
    PROVE  EveryPositionMonitored'
<1> USE DEF Goto, Return, TypeOK, CallbacksOK, Watching
<1>1. CASE RecheckBlocks(t) \/ RecheckPasses(t) \/ SubmitRejected(t) \/ FillReported(t)
    BY <1>1, WatchKept DEF RecheckBlocks, RecheckPasses, SubmitRejected, FillReported
<1>2. CASE Submit(t)
    BY <1>2, WatchKept DEF Submit
<1>3. CASE MarketFallback(t)
  <2>1. /\ positions' = positions \cup {Best(t)} /\ monitors' = monitors
        /\ pc[t] = "waiting" /\ pc'[t] = "finalize" /\ w' = w
        /\ \A u \in Threads : u # t => pc'[u] = pc[u]
      BY <1>3 DEF MarketFallback
  <2> QED BY <2>1 DEF EveryPositionMonitored, Best
<1>4. ~LimitTimeout(t) /\ ~PlacementRaises(t)
    BY DEF LimitTimeout, PlacementRaises
<1> QED BY <1>1, <1>2, <1>3, <1>4 DEF HolderStep

LEMMA OtherWatch ==
    ASSUME TypeOK, RestingInv, EveryPositionMonitored,
           \/ Poll \/ Dispatch \/ UNCHANGED vars \/ Environment
           \/ \E t \in Threads : Followup(t) \/ LockTaken(t)
    PROVE  EveryPositionMonitored'
<1>1. CASE Poll \/ UNCHANGED vars \/ CacheExpires \/ \E s \in Symbols : MonitorReports(s)
    BY <1>1, WatchKept DEF Poll, vars, CacheExpires, MonitorReports
<1>2. CASE Dispatch
    BY <1>2, WatchKept DEF Dispatch, TypeOK, CallbacksOK, Watching
<1>3. ASSUME NEW t \in Threads, Followup(t) PROVE EveryPositionMonitored'
  <2> PICK f \in Followups :
         /\ f = t \/ pc[f] = "idle"
         /\ pc' = [pc EXCEPT ![t] = "idle", ![f] = "start"]
         /\ w' = [w EXCEPT ![t] = NoCallback, ![f] = Callback(w[t].iv)]
      BY <1>3 DEF Followup
  <2>1. \A u \in Threads : pc[u] \in Watching => pc'[u] = pc[u] /\ w'[u] = w[u]
      BY <1>3 DEF Followup, TypeOK, CallbacksOK, Watching
  <2> QED BY <1>3, <2>1, WatchKept DEF Followup
<1>4. ASSUME NEW t \in Threads, LockTaken(t) PROVE EveryPositionMonitored'
    BY <1>4, WatchKept DEF LockTaken, Goto, TypeOK, CallbacksOK, Watching
<1>5. ASSUME NEW s \in Symbols, LimitFills(s) PROVE EveryPositionMonitored'
    BY <1>5 DEF LimitFills, RestingInv, EveryPositionMonitored, Best
<1>6. ASSUME NEW s \in Symbols, PositionCloses(s) PROVE EveryPositionMonitored'
    BY <1>6 DEF PositionCloses, EveryPositionMonitored, Best
<1> QED BY <1>1, <1>2, <1>3, <1>4, <1>5, <1>6 DEF Environment

(* With market fallback and no lost answer, a position is at every moment
   watched by a monitor or owned by the thread that is about to launch one,
   whatever else the threads and the exchange do meanwhile
   (entry_service.py:693-760, 837-887). *)
THEOREM MonitoredTheorem ==
    ASSUME Faults = {}, ~LimitOnly
    PROVE  Spec => []EveryPositionMonitored
<1>1. Init => EveryPositionMonitored
    BY DEF Init, EveryPositionMonitored
<1>2. TypeOK /\ SafetyInv /\ EntryInv /\ EveryPositionMonitored /\ [Next]_vars
        => EveryPositionMonitored'
  <2> SUFFICES ASSUME TypeOK, SafetyInv, EntryInv, EveryPositionMonitored, [Next]_vars
               PROVE  EveryPositionMonitored'
      OBVIOUS
  <2>1. ASSUME NEW t \in Threads, Step(t) PROVE EveryPositionMonitored'
      BY <2>1, QuietWatch, HolderWatch, OtherWatch DEF Step, QuietStep, HolderStep, SafetyInv
  <2> QED BY <2>1, OtherWatch DEF Next, SafetyInv
<1>3. "stray_limit" \notin Faults
    OBVIOUS
<1> QED BY <1>1, <1>2, <1>3, SafetyCorrect, EntryInvCorrect, PTL DEF Spec

-----------------------------------------------------------------------------
(* No candle is entered twice.                                             *)

(* What is entered is on the exchange, and a submission starts from nothing. *)
EnteredInv ==
    /\ \A e \in entered : e.sym \in positions \cup resting
    /\ \A t \in Threads :
        /\ pc[t] = "submit" => Best(t) \notin positions
        /\ pc[t] = "waiting" => \A e \in entered : e.sym = Best(t) => e = Entry(t)

LEMMA OutsideEntered ==
    ASSUME EnteredInv, Outside
    PROVE  EnteredInv'
BY DEF EnteredInv, Outside, Critical, Best, Entry

LEMMA LockEntered ==
    ASSUME TypeOK, EnteredInv, NEW t \in Threads, LockTaken(t)
    PROVE  EnteredInv'
BY DEF EnteredInv, LockTaken, Goto, TypeOK, CallbacksOK, Best, Entry

LEMMA HolderEntered ==
    ASSUME TypeOK, SafetyInv, EnteredInv, "stray_limit" \notin Faults, ~Paper,
           NEW t \in Threads, HolderStep(t)
    PROVE  EnteredInv'
<1> USE DEF Goto, Return, TypeOK, CallbacksOK, SafetyInv
<1>1. /\ pc[t] \in Critical
      /\ \A u \in Threads : u # t => pc[u] \notin Critical /\ pc'[u] = pc[u]
  <2>1. pc[t] \in Critical
      BY DEF HolderStep, RecheckBlocks, RecheckPasses, Submit, SubmitRejected,
             FillReported, MarketFallback, LimitTimeout, PlacementRaises, Critical
  <2>2. \A u \in Threads : u # t => pc'[u] = pc[u]
      BY DEF HolderStep, RecheckBlocks, RecheckPasses, Submit, SubmitRejected,
             FillReported, MarketFallback, LimitTimeout, PlacementRaises
  <2> QED BY <2>1, <2>2, OneHolder
<1>2. pc[t] # "waiting" => resting = {}
    BY <1>1, BookEmpty DEF LockInv
<1>3. CASE RecheckBlocks(t) \/ RecheckPasses(t)
  <2>1. /\ UNCHANGED <<exchange, entered>> /\ pc[t] = "recheck"
        /\ \/ pc'[t] = "idle"
           \/ pc'[t] = "submit" /\ w' = w /\ Best(t) \notin positions
      BY <1>3 DEF RecheckBlocks, RecheckPasses, PositionGateBlocked, Open
  <2> QED BY <1>1, <2>1 DEF EnteredInv, Critical, Best, Entry
<1>4. CASE Submit(t)
  <2>1. /\ pc[t] = "submit" /\ pc'[t] = "waiting" /\ w' = w /\ positions' = positions
        /\ resting' = {Best(t)} /\ entered' = entered \cup {Entry(t)}
      BY <1>2, <1>4 DEF Submit
  <2>2. \A e \in entered : e.sym # Best(t)
      BY <1>2, <2>1 DEF EnteredInv
  <2>3. Entry(t).sym = Best(t) /\ Entry(t)' = Entry(t) /\ Best(t)' = Best(t)
      BY <2>1 DEF Entry, Best
  <2> QED BY <1>1, <1>2, <2>1, <2>2, <2>3 DEF EnteredInv, Critical
<1>5. CASE SubmitRejected(t)
  <2>1. /\ pc[t] = "submit" /\ pc'[t] = "idle" /\ UNCHANGED <<exchange, entered>>
      BY <1>2, <1>5 DEF SubmitRejected
  <2> QED BY <1>1, <2>1 DEF EnteredInv, Critical
<1>6. CASE FillReported(t) \/ MarketFallback(t) \/ LimitTimeout(t) \/ PlacementRaises(t)
  <2>1. pc[t] = "waiting" /\ pc'[t] \notin Critical
      BY <1>6 DEF FillReported, MarketFallback, LimitTimeout, PlacementRaises, Critical
  <2>2. \A e \in entered' : e.sym \in positions' \cup resting'
    <3>1. CASE FillReported(t) \/ MarketFallback(t) \/ PlacementRaises(t)
        BY <3>1 DEF FillReported, MarketFallback, PlacementRaises, CancelOrder, EnteredInv
    <3>2. CASE LimitTimeout(t)
      <4>1. /\ positions' = positions /\ resting' = resting \ {Best(t)}
            /\ entered' = IF resting' = resting THEN entered ELSE entered \ {Entry(t)}
          BY <3>2 DEF LimitTimeout, CancelOrder
      <4>2. \A e \in entered \ {Entry(t)} : e.sym # Best(t)
          BY <2>1 DEF EnteredInv
      <4> QED BY <4>1, <4>2 DEF EnteredInv
    <3> QED BY <1>6, <3>1, <3>2
  <2> QED BY <1>1, <2>1, <2>2 DEF EnteredInv, Critical
<1> QED BY <1>3, <1>4, <1>5, <1>6 DEF HolderStep

LEMMA ExchangeEntered ==
    ASSUME TypeOK, SafetyInv, EnteredInv, NEW s \in Symbols,
           LimitFills(s) \/ PositionCloses(s)
    PROVE  EnteredInv'
<1>1. CASE LimitFills(s)
  <2>1. \A u \in Threads : pc[u] # "submit"
      BY <1>1, OneHolder DEF LimitFills, SafetyInv, RestingInv, Critical
  <2> QED BY <1>1, <2>1 DEF LimitFills, EnteredInv, Best, Entry
<1>2. CASE PositionCloses(s)
    BY <1>2 DEF PositionCloses, EnteredInv, Best, Entry
<1> QED BY <1>1, <1>2

(* On a live account no thread enters a symbol again on the same close while
   the first entry is working or its position is open, though every follow-up
   forgets last_close_ms and every gate but the recheck reads a snapshot
   (entry_service.py:180-183, 318, 896). *)
THEOREM EnteredOnceTheorem ==
    ASSUME "stray_limit" \notin Faults, ~Paper
    PROVE  Spec => SameCandleEnteredOnce
<1>1. Init => EnteredInv
    BY DEF Init, EnteredInv
<1>2. TypeOK /\ SafetyInv /\ EnteredInv /\ [Next]_vars => EnteredInv'
    BY StepKinds, OutsideEntered, LockEntered, HolderEntered, ExchangeEntered
<1>3. TypeOK /\ SafetyInv /\ EnteredInv => [EntersOnce]_vars
  <2> SUFFICES ASSUME TypeOK, SafetyInv, EnteredInv, NEW t \in Threads, pc[t] = "submit"
               PROVE  Entry(t) \notin entered
      BY DEF EntersOnce
  <2>1. resting = {}
      BY BookEmpty DEF SafetyInv, LockInv, Critical
  <2> QED BY <2>1 DEF EnteredInv, Entry
<1> QED BY <1>1, <1>2, <1>3, SafetyCorrect, PTL DEF Spec, SameCandleEnteredOnce
=============================================================================

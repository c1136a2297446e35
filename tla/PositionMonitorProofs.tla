------------------------ MODULE PositionMonitorProofs ------------------------
(***************************************************************************)
(* For every value of the constants: type correctness of PositionMonitor,  *)
(* the stop that is never moved back, and the truth of the reported        *)
(* result.                                                                 *)
(***************************************************************************)
EXTENDS PositionMonitor, TLAPS

(* What the labels say of the local variables: the end of a trade knows what
   ended it, a replacement has orders to replace, and the attempts left. *)
StageOK ==
    /\ pc = "finish" => goal \in {"TP", "SL"}
    /\ pc = "placeSl" => placed # 0
    /\ pc = "cancel" => goal \in {"safety", "breakeven"}
    /\ pc \in {"placeTp", "placeSl"} => goal \in {"ensure", "safety", "breakeven"}
    /\ pc \in {"cancel", "placeTp", "placeSl"} /\ goal # "ensure" =>
         tpRef # NoRef /\ slRef # NoRef
    /\ pc \in {"ensure", "refs"} => attempts < MaxAttempts
    /\ pc \in {"placeTp", "placeSl"} /\ goal = "ensure" => attempts < MaxAttempts

(* What the monitor refers to has been placed. *)
RefsPlaced ==
    /\ tpRef # NoRef => book[<<"tp", tpRef>>] # "unused"
    /\ slRef # NoRef => book[<<"sl", slRef>>] # "unused"
    /\ pc = "placeSl" => book[<<"tp", placed>>] # "unused"

IInv == TypeOK /\ StageOK /\ RefsPlaced

LEMMA ConstantsType ==
    /\ MaxPairs \in Nat \ {0} /\ MaxAttempts \in Nat \ {0} /\ MaxFaults \in Nat
    /\ Algo \in BOOLEAN /\ Orphan \in BOOLEAN
BY MonitorAssumption

USE DEF NoRef

-----------------------------------------------------------------------------
(* The helpers.                                                            *)

(* No step forgets that an order was placed. *)
OrdersKept ==
    \A k \in Kinds, n \in Pairs : book[<<k, n>>] # "unused" => book'[<<k, n>>] # "unused"

BookStep == BookOK' /\ OrdersKept

LEMMA FaultType ==
    ASSUME faults \in 0 .. MaxFaults, CallOk \/ CallFails
    PROVE  faults' \in 0 .. MaxFaults
BY ConstantsType DEF CallOk, CallFails

LEMMA CancelType ==
    ASSUME BookOK, CancelAllOrders PROVE BookStep
<1>1. book' \in [Kinds \X Pairs -> {"unused", "open", "filled", "gone"}]
    BY DEF BookOK, CancelAllOrders
<1>2. \A k \in Kinds, n \in Pairs : book'[<<k, n>>] # "unused" <=> book[<<k, n>>] # "unused"
    BY DEF BookOK, CancelAllOrders
<1> QED BY <1>1, <1>2 DEF BookOK, CancelAllOrders, BookStep, OrdersKept

LEMMA AddType ==
    ASSUME BookOK, NEW k \in Kinds, NEW n \in Pairs, AddOrder(k, n)
    PROVE  /\ book' \in [Kinds \X Pairs -> {"unused", "open", "filled", "gone"}]
           /\ unlisted' \subseteq Kinds \X Pairs
           /\ \A j \in Kinds, m \in Pairs :
                book'[<<j, m>>] = IF j = k /\ m = n THEN "open" ELSE book[<<j, m>>]
           /\ OrdersKept
BY DEF BookOK, AddOrder, OrdersKept

LEMMA MarketType == ASSUME BookOK, MarketClose PROVE BookStep
BY DEF BookOK, MarketClose, BookStep, OrdersKept

LEMMA UntouchedType == ASSUME BookOK, UNCHANGED exchange PROVE BookStep
BY DEF exchange, BookOK, BookStep, OrdersKept

LEMMA CloseFailsType ==
    ASSUME BookOK, CloseFails, faults \in 0 .. MaxFaults
    PROVE  BookStep /\ faults' \in 0 .. MaxFaults
BY UntouchedType, MarketType, FaultType DEF CloseFails

(* The next pair: the TP of the number that follows, or the SL of the last. *)
LEMMA NextPairType ==
    ASSUME BookOK, NextPair, AddOrder("tp", placed + 1), UNCHANGED <<position, level>>
    PROVE  BookStep /\ placed' # 0 /\ book'[<<"tp", placed'>>] = "open"
<1>1. placed + 1 \in Pairs /\ "tp" \in Kinds
    BY ConstantsType DEF BookOK, NextPair, Pairs, Kinds
<1>2. \A j \in Kinds, m \in Pairs : book'[<<j, m>>] # "unused" => m <= placed'
    BY <1>1, AddType DEF BookOK, NextPair, Pairs
<1>3. placed' \in 0 .. MaxPairs /\ placed' = placed + 1 /\ placed' # 0
    BY ConstantsType DEF BookOK, NextPair
<1>4. BookOK'
    BY <1>1, <1>2, <1>3, AddType DEF BookOK
<1> QED BY <1>1, <1>3, <1>4, AddType DEF BookStep

LEMMA StopType ==
    ASSUME BookOK, placed # 0, AddStop, stop \in {"initial", "entry"}
    PROVE  BookStep /\ book'[<<"sl", placed>>] = "open"
<1>1. placed \in Pairs /\ "sl" \in Kinds
    BY DEF BookOK, Pairs, Kinds
<1>2. AddOrder("sl", placed) /\ UNCHANGED <<position, placed>>
    BY DEF AddStop
<1>3. level' \in [Pairs -> {"initial", "entry"}]
    BY DEF AddStop, BookOK, NewStop
<1>4. BookOK'
    BY <1>1, <1>2, <1>3, AddType DEF BookOK
<1> QED BY <1>1, <1>2, <1>4, AddType DEF BookStep

(* References that stay, or go to orders that are there, are good. *)
LEMMA RefsKept ==
    ASSUME IInv, OrdersKept, UNCHANGED <<tpRef, slRef>>,
           pc' = "placeSl" => book'[<<"tp", placed'>>] # "unused"
    PROVE  RefsPlaced'
BY DEF IInv, TypeOK, MonitorOK, RefsPlaced, OrdersKept, Kinds

-----------------------------------------------------------------------------
LEMMA InitInv == Init => IInv
<1> SUFFICES ASSUME Init PROVE IInv
    OBVIOUS
<1>1. BookOK
  <2>1. /\ book \in [Kinds \X Pairs -> {"unused", "open", "filled", "gone"}]
        /\ level \in [Pairs -> {"initial", "entry"}]
        /\ placed \in 0 .. MaxPairs
        /\ unlisted = {} /\ position \in BOOLEAN
      BY ConstantsType DEF Init
  <2>2. ASSUME NEW k \in Kinds, NEW n \in Pairs, book[<<k, n>>] # "unused"
        PROVE  n <= placed
      BY <2>2 DEF Init
  <2> QED BY <2>1, <2>2 DEF BookOK
<1>2. MonitorOK
  <2>1. guard \in BOOLEAN /\ checkDue \in BOOLEAN /\ held \in BOOLEAN /\ late \in BOOLEAN
        /\ breakEven \in BOOLEAN
      BY DEF Init
  <2>2. attempts \in 0 .. MaxAttempts /\ tpRef = NoRef /\ slRef = NoRef
      BY ConstantsType DEF Init
  <2>3. /\ pc = "ensure" /\ pc \in PCs /\ result = "none" /\ result \in Results
        /\ goal = "ensure" /\ seenTp = "open" /\ stop = "initial"
      BY DEF Init, PCs, Results
  <2> QED BY <2>1, <2>2, <2>3 DEF MonitorOK
<1>3. faults \in 0 .. MaxFaults /\ StageOK /\ RefsPlaced
    BY ConstantsType DEF Init, StageOK, RefsPlaced
<1> QED BY <1>1, <1>2, <1>3 DEF IInv, TypeOK

LEMMA FailedType ==
    ASSUME IInv, pc \in {"placeTp", "placeSl"}, PlacementFailed,
           BookStep, faults' \in 0 .. MaxFaults
    PROVE  TypeOK' /\ StageOK' /\ OrdersKept
<1> USE DEF IInv, TypeOK, MonitorOK, StageOK, BookStep, Goto, Finish, PCs, Results
<1>1. CASE goal = "ensure"
  <2>1. attempts' \in 0 .. MaxAttempts /\ attempts' <= attempts + 1
      BY <1>1, ConstantsType DEF PlacementFailed
  <2>2. pc' = (IF attempts' = MaxAttempts THEN "emergency" ELSE "ensure")
      BY <1>1 DEF PlacementFailed
  <2> QED BY <1>1, <2>1, <2>2, ConstantsType DEF PlacementFailed
<1>2. CASE goal = "safety"
    BY <1>2 DEF PlacementFailed
<1>3. CASE goal = "breakeven"
    BY <1>3 DEF PlacementFailed
<1> QED BY <1>1, <1>2, <1>3

LEMMA EnsureStep ==
    ASSUME IInv, SeePosition \/ SeeNoPosition \/ ReuseRefs \/ NoRefs
    PROVE  TypeOK' /\ StageOK' /\ OrdersKept
<1> USE DEF IInv, TypeOK, MonitorOK, StageOK, BookStep, Goto, Finish, PCs, Results, locals, timers
<1>1. BookStep /\ faults' \in 0 .. MaxFaults
  <2>1. UNCHANGED exchange /\ (UNCHANGED faults \/ CallOk \/ CallFails)
      BY DEF SeePosition, SeeNoPosition, ReuseRefs, NoRefs
  <2> QED BY <2>1, UntouchedType, FaultType
<1>2. CASE SeePosition
    BY <1>1, <1>2 DEF SeePosition
<1>3. CASE SeeNoPosition
    BY <1>1, <1>3 DEF SeeNoPosition
<1>4. CASE ReuseRefs
  <2>1. tpRef' \in Pairs /\ slRef' \in Pairs /\ tpRef' # NoRef /\ slRef' # NoRef
      BY <1>4 DEF ReuseRefs, OwnListed, Listed, OpenOrders, Pairs
  <2> QED BY <1>1, <1>4, <2>1 DEF ReuseRefs
<1>5. CASE NoRefs
    BY <1>1, <1>5 DEF NoRefs
<1> QED BY <1>2, <1>3, <1>4, <1>5

LEMMA PlaceStep ==
    ASSUME IInv, PlaceTp \/ PlaceTpFails \/ PlaceSl \/ PlaceSlFails
    PROVE  TypeOK' /\ StageOK' /\ OrdersKept
<1> USE DEF IInv, TypeOK, MonitorOK, StageOK, BookStep, Goto, Finish, PCs, Results, locals, timers
<1>1. CASE PlaceTp
  <2>1. BookStep /\ placed' # 0 /\ book'[<<"tp", placed'>>] = "open"
      BY <1>1, NextPairType DEF PlaceTp
  <2> QED BY <1>1, <2>1 DEF PlaceTp
<1>2. CASE PlaceTpFails
  <2>1. BookStep
      BY <1>2, UntouchedType, NextPairType DEF PlaceTpFails
  <2> QED BY <1>2, <2>1, FaultType, FailedType DEF PlaceTpFails
<1>3. CASE PlaceSl
  <2>1. BookStep
      BY <1>3, StopType DEF PlaceSl, AddStop
  <2>2. placed \in Pairs /\ placed # NoRef
      BY <1>3 DEF PlaceSl, BookOK, Pairs
  <2>3. stop' \in {"initial", "entry"}
      BY <1>3 DEF PlaceSl, KeepStop, NewStop
  <2> QED BY <1>3, <2>1, <2>2, <2>3 DEF PlaceSl
<1>4. CASE PlaceSlFails
  <2>1. BookStep
      BY <1>4, UntouchedType, StopType DEF PlaceSlFails, AddStop
  <2> QED BY <1>4, <2>1, FaultType, FailedType DEF PlaceSlFails
<1> QED BY <1>1, <1>2, <1>3, <1>4

(* The steps that leave the orders alone. *)
LEMMA QuietStep ==
    ASSUME IInv, StartTurn \/ ReadTp \/ ReadFails \/ ReadSl \/ SafetyPasses \/ SafetyReplaces
                 \/ ReviewPasses \/ BreakevenTriggers \/ EndTurn
    PROVE  TypeOK' /\ StageOK' /\ OrdersKept
<1> USE DEF IInv, TypeOK, MonitorOK, StageOK, BookStep, Goto, Finish, PCs, Results, locals, timers
<1>1. BookStep /\ faults' \in 0 .. MaxFaults
  <2>1. UNCHANGED exchange /\ (UNCHANGED faults \/ CallOk \/ CallFails)
      BY DEF StartTurn, ReadTp, ReadFails, ReadSl, SafetyPasses, SafetyReplaces, ReviewPasses,
             BreakevenTriggers, EndTurn
  <2> QED BY <2>1, UntouchedType, FaultType
<1>2. CASE StartTurn
    BY <1>1, <1>2 DEF StartTurn
<1>3. CASE ReadTp
  <2>1. seenTp' \in {"open", "filled", "gone"}
    <3>1. book[<<"tp", tpRef>>] \in {"unused", "open", "filled", "gone"}
        BY <1>3 DEF ReadTp, BookOK, Kinds
    <3>2. Status("tp", tpRef) \in {"open", "filled", "gone"}
        BY <1>3, <3>1 DEF Status, ReadTp, RefsPlaced
    <3> QED BY <1>3, <3>2 DEF ReadTp
  <2> QED BY <1>1, <1>3, <2>1 DEF ReadTp
<1>4. CASE ReadFails
    BY <1>1, <1>4 DEF ReadFails
<1>5. CASE ReadSl
  <2>1. PICK r \in {"TP", "SL", "UNKNOWN", "none"} :
            \/ r \in {"TP", "SL"} /\ goal' = r /\ Goto("finish")
            \/ r = "UNKNOWN" /\ Finish(r) /\ UNCHANGED goal
            \/ r = "none" /\ Goto("safety") /\ UNCHANGED goal
      BY <1>5 DEF ReadSl, Outcome
  <2> QED BY <1>1, <1>5, <2>1 DEF ReadSl
<1>6. CASE SafetyPasses
    BY <1>1, <1>6 DEF SafetyPasses
<1>7. CASE SafetyReplaces
    BY <1>1, <1>7 DEF SafetyReplaces
<1>8. CASE ReviewPasses \/ EndTurn
    BY <1>1, <1>8 DEF ReviewPasses, EndTurn
<1>9. CASE BreakevenTriggers
    BY <1>1, <1>9 DEF BreakevenTriggers
<1> QED BY <1>2, <1>3, <1>4, <1>5, <1>6, <1>7, <1>8, <1>9

(* The steps that close the position at market or cancel the orders. *)
LEMMA CloseStep ==
    ASSUME IInv, Emergency \/ HoldTimeout \/ EndTrade \/ CancelForReplace \/ ReviewExits
    PROVE  TypeOK' /\ StageOK' /\ OrdersKept
<1> USE DEF IInv, TypeOK, MonitorOK, StageOK, BookStep, Goto, Finish, PCs, Results, locals, timers
<1>1. BookStep /\ faults' \in 0 .. MaxFaults
  <2>1. \/ MarketClose /\ CallOk
        \/ CloseFails
        \/ CancelAllOrders /\ CallOk
        \/ UNCHANGED exchange /\ CallFails
      BY DEF Emergency, HoldTimeout, EndTrade, CancelForReplace, ReviewExits
  <2>2. CASE MarketClose /\ CallOk
      BY <2>2, MarketType, FaultType DEF MarketClose
  <2>3. CASE CloseFails
      BY <2>3, CloseFailsType
  <2>4. CASE CancelAllOrders /\ CallOk
      BY <2>4, CancelType, FaultType DEF CancelAllOrders
  <2>5. CASE UNCHANGED exchange /\ CallFails
      BY <2>5, UntouchedType, FaultType
  <2> QED BY <2>1, <2>2, <2>3, <2>4, <2>5
<1>2. CASE Emergency
    BY <1>1, <1>2 DEF Emergency
<1>3. CASE HoldTimeout
    BY <1>1, <1>3 DEF HoldTimeout
<1>4. CASE EndTrade
    BY <1>1, <1>4 DEF EndTrade
<1>5. CASE CancelForReplace
    BY <1>1, <1>5 DEF CancelForReplace
<1>6. CASE ReviewExits
    BY <1>1, <1>6 DEF ReviewExits
<1> QED BY <1>2, <1>3, <1>4, <1>5, <1>6

(* The market and the clock leave the monitor's label and locals alone. *)
LEMMA WorldStep ==
    ASSUME IInv, Clock \/ HoldElapses \/ Market
    PROVE  TypeOK' /\ StageOK' /\ OrdersKept
<1>1. UNCHANGED <<pc, locals, result, placed>>
    BY DEF Clock, ListCatchesUp, GuardElapses, CheckFallsDue, DeadlinePasses, HoldElapses, Market,
           Fills, Expires, ClosedByOthers, MarketClose, exchange
<1>2. guard' \in BOOLEAN /\ checkDue' \in BOOLEAN /\ held' \in BOOLEAN /\ late' \in BOOLEAN
    BY DEF IInv, TypeOK, MonitorOK, Clock, ListCatchesUp, GuardElapses, CheckFallsDue, DeadlinePasses,
           HoldElapses, Market, Fills, Expires, ClosedByOthers, timers
<1>3. BookStep /\ faults' \in 0 .. MaxFaults
  <2>1. CASE ListCatchesUp
      BY <2>1 DEF IInv, TypeOK, ListCatchesUp, BookOK, BookStep, OrdersKept
  <2>2. CASE GuardElapses \/ CheckFallsDue \/ DeadlinePasses \/ HoldElapses
    <3>1. UNCHANGED <<exchange, faults>>
        BY <2>2 DEF GuardElapses, CheckFallsDue, DeadlinePasses, HoldElapses
    <3> QED BY <3>1, UntouchedType DEF IInv, TypeOK
  <2>3. CASE ClosedByOthers
      BY <2>3, MarketType, FaultType DEF IInv, TypeOK, ClosedByOthers, MarketClose
  <2>4. ASSUME NEW k \in Kinds, NEW n \in Pairs, Fills(k, n) \/ Expires(k, n)
        PROVE  BookStep /\ faults' \in 0 .. MaxFaults
    <3>1. PICK r \in {"filled", "gone"} : book' = [book EXCEPT ![<<k, n>>] = r]
        BY <2>4 DEF Fills, Expires
    <3>2. book' \in [Kinds \X Pairs -> {"unused", "open", "filled", "gone"}]
        BY <3>1 DEF IInv, TypeOK, BookOK
    <3>3. \A j \in Kinds, m \in Pairs :
              book'[<<j, m>>] # "unused" <=> book[<<j, m>>] # "unused"
      <4>1. book[<<k, n>>] = "open"
          BY <2>4 DEF Fills, Expires
      <4> QED BY <3>1, <4>1 DEF IInv, TypeOK, BookOK
    <3>4. UNCHANGED <<level, placed>> /\ unlisted' \subseteq unlisted
        BY <2>4 DEF Fills, Expires
    <3>5. faults' \in 0 .. MaxFaults
        BY <2>4, FaultType DEF IInv, TypeOK, Fills, Expires
    <3>6. BookOK
        BY DEF IInv, TypeOK
    <3>7. position' \in BOOLEAN
      <4>1. position' = FALSE \/ position' = position
          BY <2>4 DEF Fills, Expires
      <4> QED BY <3>6, <4>1 DEF BookOK
    <3>8. BookOK'
        BY <3>2, <3>3, <3>4, <3>6, <3>7 DEF BookOK
    <3> QED BY <3>3, <3>5, <3>8 DEF BookStep, OrdersKept
  <2> QED BY <2>1, <2>2, <2>3, <2>4 DEF Clock, Market
<1> QED BY <1>1, <1>2, <1>3 DEF IInv, TypeOK, MonitorOK, StageOK, locals, BookStep

LEMMA StutterStep ==
    ASSUME IInv, UNCHANGED vars
    PROVE  TypeOK' /\ StageOK' /\ OrdersKept
<1>1. BookStep
    BY UntouchedType DEF vars, IInv, TypeOK
<1> QED BY <1>1 DEF IInv, TypeOK, MonitorOK, StageOK, vars, exchange, locals, timers, BookStep

LEMMA NextInv == IInv /\ [Next]_vars => IInv'
<1> SUFFICES ASSUME IInv, [Next]_vars PROVE IInv'
    OBVIOUS
<1>1. TypeOK' /\ StageOK' /\ OrdersKept
    BY EnsureStep, PlaceStep, QuietStep, CloseStep, WorldStep, StutterStep DEF Next, Monitor
<1>2. RefsPlaced'
  <2>1. CASE ReuseRefs
    <3>1. /\ tpRef' \in Pairs /\ book[<<"tp", tpRef'>>] = "open"
          /\ slRef' \in Pairs /\ book[<<"sl", slRef'>>] = "open"
        BY <2>1 DEF ReuseRefs, OwnListed, Listed, OpenOrders
    <3> QED BY <1>1, <2>1, <3>1 DEF RefsPlaced, OrdersKept, Kinds, ReuseRefs, Goto
  <2>2. CASE PlaceTp
    <3>1. book'[<<"tp", placed'>>] = "open"
        BY <2>2, NextPairType DEF PlaceTp, IInv, TypeOK
    <3> QED BY <1>1, <2>2, <3>1, RefsKept DEF PlaceTp, locals
  <2>3. CASE PlaceSl
    <3>1. book'[<<"sl", placed>>] = "open" /\ placed \in Pairs
        BY <2>3, StopType DEF PlaceSl, IInv, TypeOK, MonitorOK, BookOK, StageOK, Pairs
    <3>2. book'[<<"tp", placed>>] # "unused"
        BY <1>1, <2>3, <3>1 DEF PlaceSl, IInv, RefsPlaced, OrdersKept, Kinds
    <3> QED BY <2>3, <3>1, <3>2 DEF RefsPlaced, PlaceSl, Goto
  <2>4. CASE ~ReuseRefs /\ ~PlaceTp /\ ~PlaceSl
    <3>1. UNCHANGED <<tpRef, slRef>> /\ (pc' = "placeSl" => UNCHANGED <<pc, placed>>)
        BY <2>4 DEF Next, Monitor, Clock, Market, SeePosition, SeeNoPosition, NoRefs, PlaceTpFails,
                    PlaceSlFails, Emergency, HoldTimeout, StartTurn, ReadTp, ReadFails, ReadSl,
                    EndTrade, SafetyPasses, SafetyReplaces, CancelForReplace, ReviewExits,
                    ReviewPasses, BreakevenTriggers, EndTurn, ListCatchesUp, GuardElapses,
                    CheckFallsDue, DeadlinePasses, HoldElapses, Fills, Expires, ClosedByOthers,
                    MarketClose, PlacementFailed, Goto, Finish, locals, exchange, vars
    <3>2. pc = "placeSl" => placed \in Pairs
        BY DEF IInv, TypeOK, BookOK, StageOK, Pairs
    <3>3. pc' = "placeSl" => book'[<<"tp", placed'>>] # "unused"
        BY <1>1, <3>1, <3>2 DEF IInv, RefsPlaced, OrdersKept, Kinds
    <3> QED BY <1>1, <3>1, <3>3, RefsKept
  <2> QED BY <2>1, <2>2, <2>3, <2>4
<1> QED BY <1>1, <1>2 DEF IInv

LEMMA InvCorrect == Spec => []IInv
BY InitInv, NextInv, PTL DEF Spec

(* Whatever fails, expires or closes, every variable keeps its type, orders
   exist for the pairs placed so far only, and past the first placement the
   monitor never loses sight of its two orders
   (monitor_protection.py:40-138, execution.py:588-747). *)
THEOREM TypeCorrect == Spec => []TypeOK
BY InvCorrect, PTL DEF IInv
-----------------------------------------------------------------------------
(* The stop.                                                               *)

(* current_sl is at the entry price as soon as the breakeven has been made. *)
StopInv == breakEven => stop = "entry"

(* What changes neither the stop nor the breakeven flag. *)
LEMMA StopsKept ==
    ASSUME [Next]_vars, ~PlaceSl
    PROVE  UNCHANGED <<stop, breakEven>>
BY DEF Next, Monitor, Clock, Market, SeePosition, SeeNoPosition, ReuseRefs, NoRefs, PlaceTp,
       PlaceTpFails, PlaceSlFails, Emergency, HoldTimeout, StartTurn, ReadTp, ReadFails, ReadSl,
       EndTrade, SafetyPasses, SafetyReplaces, CancelForReplace, ReviewExits, ReviewPasses,
       BreakevenTriggers, EndTurn, ListCatchesUp, GuardElapses, CheckFallsDue, DeadlinePasses,
       HoldElapses, Fills, Expires, ClosedByOthers, PlacementFailed, locals, vars

LEMMA NextStop == StopInv /\ [Next]_vars => StopInv'
<1> SUFFICES ASSUME StopInv, [Next]_vars PROVE StopInv'
    OBVIOUS
<1>1. CASE PlaceSl
    BY <1>1 DEF PlaceSl, KeepStop, NewStop, StopInv
<1>2. CASE ~PlaceSl
    BY <1>2, StopsKept DEF StopInv
<1> QED BY <1>1, <1>2

(* A stop is opened by the second call of a placement only. *)
LEMMA StopsOpen ==
    ASSUME TypeOK, [Next]_vars, NEW n \in Pairs,
           book[<<"sl", n>>] = "unused", book'[<<"sl", n>>] = "open"
    PROVE  AddStop /\ n = placed
<1>1. ~UNCHANGED book /\ "sl" \in Kinds /\ "tp" \in Kinds
    BY DEF Kinds
<1>2. ~CancelAllOrders
    BY <1>1 DEF CancelAllOrders, TypeOK, BookOK
<1>3. ~(NextPair /\ AddOrder("tp", placed + 1))
  <2> SUFFICES ASSUME NextPair, AddOrder("tp", placed + 1) PROVE FALSE
      OBVIOUS
  <2>1. placed + 1 \in Pairs
      BY ConstantsType DEF NextPair, TypeOK, BookOK, Pairs
  <2> QED BY <1>1, <2>1, AddType DEF TypeOK
<1>4. ASSUME NEW k \in Kinds, NEW m \in Pairs, Fills(k, m) \/ Expires(k, m) PROVE FALSE
    BY <1>1, <1>4 DEF Fills, Expires, TypeOK, BookOK
<1>5. AddStop
    BY <1>1, <1>2, <1>3, <1>4
       DEF Next, Monitor, Clock, Market, SeePosition, SeeNoPosition, ReuseRefs, NoRefs, PlaceTp,
           PlaceTpFails, PlaceSl, PlaceSlFails, Emergency, HoldTimeout, StartTurn, ReadTp,
           ReadFails, ReadSl, EndTrade, SafetyPasses, SafetyReplaces, CancelForReplace,
           ReviewExits, ReviewPasses, BreakevenTriggers, EndTurn, ListCatchesUp, GuardElapses,
           CheckFallsDue, DeadlinePasses, HoldElapses, ClosedByOthers, MarketClose, CloseFails,
           exchange, vars
<1>6. n = placed
  <2>1. AddOrder("sl", placed)
      BY <1>5 DEF AddStop
  <2> QED BY <1>1, <2>1 DEF AddOrder, TypeOK, BookOK
<1> QED BY <1>5, <1>6

(* Once the stop has moved to the entry price, every stop placed afterwards
   is placed there, by whichever check and after whichever failures
   (execution.py:554-586, 718-745). *)
THEOREM StopTheorem == Spec => StopNeverLoosened
<1>1. Init => StopInv
    BY DEF Init, StopInv
<1>2. TypeOK /\ StopInv /\ [Next]_vars => [StopNotLoosened]_vars
  <2> SUFFICES ASSUME TypeOK, StopInv, [Next]_vars, NEW n \in Pairs,
                      book[<<"sl", n>>] = "unused", book'[<<"sl", n>>] = "open", breakEven
               PROVE  level'[n] = "entry"
      BY DEF StopNotLoosened
  <2>1. AddStop /\ n = placed
      BY StopsOpen
  <2> QED BY <2>1 DEF AddStop, NewStop, StopInv, TypeOK, BookOK
<1> QED BY <1>1, <1>2, NextStop, TypeCorrect, PTL DEF Spec, StopNeverLoosened

-----------------------------------------------------------------------------
(* The result.                                                             *)

SomeFilled(k) == \E n \in Pairs : book[<<k, n>>] = "filled"

(* A filled order has closed the position, what the end of a trade is told to
   have filled has, and the reported result is true. *)
ResultInv ==
    /\ \A k \in Kinds : SomeFilled(k) => ~position
    /\ pc = "finish" /\ goal = "TP" => SomeFilled("tp")
    /\ pc = "finish" /\ goal = "SL" => SomeFilled("sl")
    /\ ResultIsTrue

(* What a turn concludes from the two states it has read is true. *)
ConclusionTrue ==
    /\ pc' = "finish" /\ goal' = "TP" => SomeFilled("tp")
    /\ pc' = "finish" /\ goal' = "SL" => SomeFilled("sl")
    /\ result' = "UNKNOWN" => ~position

(* The steps of the exchange, and the rest. *)
BookMoves ==
    \/ NextPair /\ AddOrder("tp", placed + 1) /\ position
    \/ AddStop /\ position
    \/ CancelAllOrders
    \/ \E k \in Kinds, n \in Pairs : Fills(k, n) \/ Expires(k, n)

LEMMA BookSteps ==
    ASSUME [Next]_vars
    PROVE  /\ BookMoves \/ UNCHANGED book
           /\ position' = FALSE \/ position' = position
BY DEF BookMoves, Next, Monitor, Clock, Market, SeePosition, SeeNoPosition, ReuseRefs, NoRefs,
       PlaceTp, PlaceTpFails, PlaceSl, PlaceSlFails, Emergency, HoldTimeout, StartTurn, ReadTp,
       ReadFails, ReadSl, EndTrade, SafetyPasses, SafetyReplaces, CancelForReplace,
       ReviewExits, ReviewPasses, BreakevenTriggers, EndTurn, ListCatchesUp, GuardElapses,
       CheckFallsDue, DeadlinePasses, HoldElapses, ClosedByOthers, MarketClose, CloseFails,
       CancelAllOrders, AddStop, Fills, Expires, exchange, vars

(* Once an order has filled, it stays filled: nothing is placed without a
   position. *)
LEMMA FilledStays ==
    ASSUME TypeOK, ~position, [Next]_vars, NEW k \in Kinds, SomeFilled(k)
    PROVE  SomeFilled(k)'
<1>1. PICK n \in Pairs : book[<<k, n>>] = "filled"
    BY DEF SomeFilled
<1>2. book'[<<k, n>>] = "filled"
  <2>1. CASE UNCHANGED book
      BY <1>1, <2>1
  <2>2. CASE CancelAllOrders
      BY <1>1, <2>2 DEF CancelAllOrders, TypeOK, BookOK
  <2>3. ASSUME NEW j \in Kinds, NEW m \in Pairs, Fills(j, m) \/ Expires(j, m)
        PROVE  book'[<<k, n>>] = "filled"
      BY <1>1, <2>3 DEF Fills, Expires, TypeOK, BookOK
  <2> QED BY <2>1, <2>2, <2>3, BookSteps DEF BookMoves
<1> QED BY <1>2 DEF SomeFilled

(* An order fills as it closes the position. *)
LEMMA FilledCloses ==
    ASSUME TypeOK, [Next]_vars, NEW k \in Kinds, SomeFilled(k)', ~SomeFilled(k)
    PROVE  ~position'
<1>1. PICK n \in Pairs : book'[<<k, n>>] = "filled"
    BY DEF SomeFilled
<1>2. book[<<k, n>>] # "filled"
    BY DEF SomeFilled
<1>3. \A j \in Kinds, m \in Pairs : AddOrder(j, m) => FALSE
    BY <1>1, <1>2, AddType DEF TypeOK
<1>4. ~(NextPair /\ AddOrder("tp", placed + 1))
  <2>1. NextPair => placed + 1 \in Pairs
      BY ConstantsType DEF NextPair, TypeOK, BookOK, Pairs
  <2> QED BY <1>3, <2>1 DEF Kinds
<1>5. ~AddStop
  <2>1. AddStop => AddOrder("sl", placed)
      BY DEF AddStop
  <2>2. AddOrder("sl", placed) => book' = [book EXCEPT ![<<"sl", placed>>] = "open"]
      BY DEF AddOrder
  <2> QED BY <1>1, <1>2, <2>1, <2>2 DEF TypeOK, BookOK
<1>6. ~CancelAllOrders /\ ~UNCHANGED book
    BY <1>1, <1>2 DEF CancelAllOrders, TypeOK, BookOK
<1>7. \A j \in Kinds, m \in Pairs : ~Expires(j, m)
    BY <1>1, <1>2 DEF Expires, TypeOK, BookOK
<1>8. PICK j \in Kinds, m \in Pairs : Fills(j, m)
    BY <1>4, <1>5, <1>6, <1>7, BookSteps DEF BookMoves
<1> QED BY <1>8 DEF Fills

(* Whatever does not conclude keeps the goal of an end and the result. *)
LEMMA EndsKept ==
    ASSUME [Next]_vars, ~ReadSl
    PROVE  /\ pc' = "finish" => pc = "finish" /\ goal' = goal
           /\ \/ result' = result
              \/ result' \in {"gone", "died", "unrecoverable"}
              \/ result' = "EARLY" /\ MarketClose
              \/ pc = "finish" /\ result' = goal
BY DEF Next, Monitor, Clock, Market, SeePosition, SeeNoPosition, ReuseRefs, NoRefs, PlaceTp,
       PlaceTpFails, PlaceSl, PlaceSlFails, Emergency, HoldTimeout, StartTurn, ReadTp, ReadFails,
       EndTrade, SafetyPasses, SafetyReplaces, CancelForReplace, ReviewExits, ReviewPasses,
       BreakevenTriggers, EndTurn, ListCatchesUp, GuardElapses, CheckFallsDue, DeadlinePasses,
       HoldElapses, Fills, Expires, ClosedByOthers, PlacementFailed, Goto, Finish, locals, vars

LEMMA NextResult ==
    ASSUME IInv, ResultInv, [Next]_vars, ReadSl => ConclusionTrue
    PROVE  ResultInv'
<1> USE DEF IInv
<1>1. "tp" \in Kinds /\ "sl" \in Kinds
    BY DEF Kinds
<1>2. ASSUME NEW k \in Kinds, SomeFilled(k)' PROVE ~position'
  <2>1. CASE SomeFilled(k)
      BY <2>1, BookSteps DEF ResultInv
  <2>2. CASE ~SomeFilled(k)
      BY <1>2, <2>2, FilledCloses
  <2> QED BY <2>1, <2>2
<1>3. ASSUME NEW k \in Kinds, SomeFilled(k) PROVE SomeFilled(k)' /\ ~position'
    BY <1>2, <1>3, FilledStays DEF ResultInv
<1>4. ~position => ~position'
    BY BookSteps
<1>5. CASE ReadSl
  <2>1. /\ result' # result => result' = "UNKNOWN"
        /\ pc = "slStatus" /\ UNCHANGED <<position, book>>
      BY <1>5 DEF ReadSl, Goto, Finish, exchange
  <2>2. ResultIsTrue'
      BY <1>1, <1>3, <1>4, <1>5, <2>1 DEF ConclusionTrue, ResultInv, ResultIsTrue, SomeFilled
  <2>3. /\ pc' = "finish" /\ goal' = "TP" => SomeFilled("tp")'
        /\ pc' = "finish" /\ goal' = "SL" => SomeFilled("sl")'
      BY <1>1, <1>3, <1>5 DEF ConclusionTrue
  <2> QED BY <1>2, <2>2, <2>3 DEF ResultInv
<1>6. CASE ~ReadSl
  <2>1. /\ pc' = "finish" /\ goal' = "TP" => SomeFilled("tp")'
        /\ pc' = "finish" /\ goal' = "SL" => SomeFilled("sl")'
      BY <1>1, <1>3, <1>6, EndsKept DEF ResultInv
  <2>2. MarketClose => ~position'
      BY DEF MarketClose
  <2>3. pc = "finish" => goal \in {"TP", "SL"}
      BY DEF StageOK
  <2>4. /\ result' \in {"TP", "SL", "EARLY", "UNKNOWN"} => ~position'
        /\ result' = "TP" => SomeFilled("tp")'
        /\ result' = "SL" => SomeFilled("sl")'
      BY <1>1, <1>3, <1>4, <1>6, <2>2, <2>3, EndsKept DEF ResultInv, ResultIsTrue, SomeFilled
  <2>5. ResultIsTrue'
      BY <2>4 DEF ResultIsTrue, SomeFilled
  <2> QED BY <1>2, <2>1, <2>5 DEF ResultInv
<1> QED BY <1>5, <1>6

LEMMA InitResult == Init => ResultInv
BY DEF Init, ResultInv, ResultIsTrue, SomeFilled

(* Orders with ids: the state of an order is what the exchange says. *)
IdInv == pc = "slStatus" /\ seenTp = "filled" => SomeFilled("tp")

LEMMA SeenKept ==
    ASSUME [Next]_vars, pc' = "slStatus", ~ReadTp
    PROVE  pc = "slStatus" /\ seenTp' = seenTp
BY DEF Next, Monitor, Clock, Market, SeePosition, SeeNoPosition, ReuseRefs, NoRefs, PlaceTp,
       PlaceTpFails, PlaceSl, PlaceSlFails, Emergency, HoldTimeout, StartTurn, ReadFails, ReadSl,
       EndTrade, SafetyPasses, SafetyReplaces, CancelForReplace, ReviewExits, ReviewPasses,
       BreakevenTriggers, EndTurn, ListCatchesUp, GuardElapses, CheckFallsDue, DeadlinePasses,
       HoldElapses, Fills, Expires, ClosedByOthers, PlacementFailed, Goto, Finish, locals, vars

LEMMA NextId ==
    ASSUME ~Algo, IInv, ResultInv, IdInv, [Next]_vars
    PROVE  ResultInv' /\ IdInv'
<1>1. ReadSl => ConclusionTrue
  <2> SUFFICES ASSUME ReadSl PROVE ConclusionTrue
      OBVIOUS
  <2>1. PICK s \in {"open", "filled", "gone"} :
            /\ s = book[<<"sl", slRef>>]
            /\ LET r == Outcome(seenTp, s) IN
               \/ r \in {"TP", "SL"} /\ goal' = r /\ Goto("finish")
               \/ r = "UNKNOWN" /\ Finish(r) /\ UNCHANGED goal
               \/ r = "none" /\ Goto("safety") /\ UNCHANGED goal
      BY DEF ReadSl, Status
  <2>2. slRef \in Pairs /\ pc = "slStatus" /\ result = "none"
      BY DEF ReadSl, IInv, TypeOK, MonitorOK
  <2>3. s = "filled" => SomeFilled("sl") /\ ~position
      BY <2>1, <2>2 DEF SomeFilled, ResultInv, Kinds
  <2>4. seenTp = "filled" => SomeFilled("tp")
      BY <2>2 DEF IdInv
  <2> QED BY <2>1, <2>2, <2>3, <2>4 DEF ConclusionTrue, Outcome, Goto, Finish
<1>2. IdInv'
  <2>1. CASE ReadTp
    <3>1. seenTp' = book[<<"tp", tpRef>>] /\ UNCHANGED book /\ tpRef \in Pairs
        BY <2>1 DEF ReadTp, Status, exchange, IInv, TypeOK, MonitorOK
    <3> QED BY <3>1 DEF IdInv, SomeFilled
  <2>2. CASE ~ReadTp
    <3> SUFFICES ASSUME pc' = "slStatus", seenTp' = "filled" PROVE SomeFilled("tp")'
        BY DEF IdInv
    <3>1. SomeFilled("tp")
        BY <2>2, SeenKept DEF IdInv
    <3> QED BY <3>1, FilledStays DEF ResultInv, IInv, Kinds
  <2> QED BY <2>1, <2>2
<1> QED BY <1>1, <1>2, NextResult

(* For orders with ids, and whatever calls fail, orders expire or positions
   others close: a TP or SL result means that such an order filled, and after
   every result but those of a monitor that gave up the position is closed
   (execution.py:522-552, 630-690). *)
THEOREM ResultById == ASSUME ~Algo PROVE Spec => []ResultIsTrue
<1>1. Init => IdInv
    BY DEF Init, IdInv
<1>2. IInv /\ ResultInv /\ IdInv /\ [Next]_vars => ResultInv' /\ IdInv'
    BY NextId
<1>3. ResultInv => ResultIsTrue
    BY DEF ResultInv
<1> QED BY <1>1, <1>2, <1>3, InitResult, InvCorrect, PTL DEF Spec
-----------------------------------------------------------------------------
(* The result, for orders with algo ids.  Not being listed is all the       *)
(* monitor knows of an algo order, so the theorem is about an exchange that *)
(* lists without delay and answers, and about a position nobody else        *)
(* touches: without these TLC refutes the property.                         *)

AlgoSetting == Algo /\ ~StaleList /\ ~Restless /\ MaxFaults = 0

Looping == pc \in {"loop", "tpStatus", "slStatus", "safety", "review", "breakeven"}

Tp == book[<<"tp", tpRef>>]
Sl == book[<<"sl", slRef>>]

(* The two orders of the loop are open while the position is; afterwards both
   are gone, or one of them is filled. *)
AlgoInv ==
    /\ unlisted = {}
    /\ Looping /\ position => Tp = "open" /\ Sl = "open"
    /\ Looping /\ Tp = "open" => Sl \in {"open", "filled"}
    /\ Looping /\ Sl = "open" => Tp \in {"open", "filled"}
    /\ pc = "placeSl" /\ position => book[<<"tp", placed>>] = "open"
    /\ pc \in {"placeTp", "placeSl"} /\ goal = "safety" => Tp # "open" /\ Sl # "open"
    /\ pc = "slStatus" /\ seenTp = "filled" => Tp # "open"
    /\ pc = "slStatus" /\ seenTp = "open" => Sl \in {"open", "filled"}

LEMMA NoFault ==
    ASSUME AlgoSetting, TypeOK PROVE ~CallFails
BY DEF AlgoSetting, TypeOK, CallFails

LEMMA InitAlgo == Init => AlgoInv
BY DEF Init, AlgoInv, Looping

(* Every algo order that is not listed is not open. *)
LEMMA AlgoStatus ==
    ASSUME AlgoSetting, AlgoInv, NEW k \in Kinds, NEW n \in Pairs
    PROVE  Status(k, n) = IF book[<<k, n>>] = "open" THEN "open" ELSE "filled"
BY DEF AlgoSetting, AlgoInv, Status, Listed, OpenOrders

LEMMA AlgoConclusion ==
    ASSUME AlgoSetting, IInv, AlgoInv, ReadSl
    PROVE  ConclusionTrue
<1>1. slRef \in Pairs /\ tpRef \in Pairs /\ pc = "slStatus" /\ result = "none" /\ Looping
    BY DEF ReadSl, IInv, TypeOK, MonitorOK, Looping
<1>2. PICK s \in {"open", "filled", "gone"} :
          /\ s = Status("sl", slRef)
          /\ LET r == Outcome(seenTp, s) IN
             \/ r \in {"TP", "SL"} /\ goal' = r /\ Goto("finish")
             \/ r = "UNKNOWN" /\ Finish(r) /\ UNCHANGED goal
             \/ r = "none" /\ Goto("safety") /\ UNCHANGED goal
    BY NoFault DEF ReadSl, IInv
<1>3. s = IF Sl = "open" THEN "open" ELSE "filled"
    BY <1>1, <1>2, AlgoStatus DEF Kinds, Sl
<1>4. seenTp = "filled" /\ s = "open" => SomeFilled("tp")
    BY <1>1, <1>3 DEF AlgoInv, SomeFilled, Tp, Sl
<1>5. seenTp = "open" /\ s = "filled" => SomeFilled("sl")
    BY <1>1, <1>3 DEF AlgoInv, SomeFilled, Tp, Sl
<1>6. s = "filled" => ~position
    BY <1>1, <1>3 DEF AlgoInv
<1> QED BY <1>1, <1>2, <1>4, <1>5, <1>6 DEF ConclusionTrue, Outcome, Goto, Finish

(* Looking at the orders, placing and cancelling them. *)
LEMMA ReuseAlgo == ASSUME AlgoInv, ReuseRefs PROVE AlgoInv'
<1>1. Tp' = "open" /\ Sl' = "open"
    BY DEF ReuseRefs, OwnListed, Listed, OpenOrders, exchange, Tp, Sl
<1> QED BY <1>1 DEF AlgoInv, ReuseRefs, Goto, exchange

LEMMA ReadAlgo == ASSUME AlgoSetting, IInv, AlgoInv, ReadTp PROVE AlgoInv'
<1>1. tpRef \in Pairs /\ Looping
    BY DEF ReadTp, IInv, TypeOK, MonitorOK, Looping
<1>2. seenTp' = IF Tp = "open" THEN "open" ELSE "filled"
    BY <1>1, NoFault, AlgoStatus DEF ReadTp, Kinds, Tp, IInv
<1> QED BY <1>1, <1>2 DEF AlgoInv, ReadTp, Goto, exchange, Tp, Sl, Looping

LEMMA PlaceTpAlgo == ASSUME AlgoSetting, IInv, AlgoInv, PlaceTp PROVE AlgoInv'
<1>1. placed + 1 \in Pairs /\ "tp" \in Kinds /\ "sl" \in Kinds
    BY ConstantsType DEF PlaceTp, NextPair, IInv, TypeOK, BookOK, Pairs, Kinds
<1>2. \A k \in Kinds, n \in Pairs :
          book'[<<k, n>>] = IF k = "tp" /\ n = placed + 1 THEN "open" ELSE book[<<k, n>>]
    BY <1>1, AddType DEF PlaceTp, IInv, TypeOK
<1>3. goal = "safety" => Tp' # "open" /\ Sl' # "open"
  <2> SUFFICES ASSUME goal = "safety" PROVE Tp' # "open" /\ Sl' # "open"
      OBVIOUS
  <2>1. /\ tpRef \in Pairs /\ slRef \in Pairs /\ Tp # "unused"
        /\ Tp # "open" /\ Sl # "open" /\ UNCHANGED <<tpRef, slRef>>
      BY DEF IInv, TypeOK, MonitorOK, StageOK, RefsPlaced, PlaceTp, Tp, Sl, AlgoInv, locals
  <2>2. tpRef <= placed
      BY <1>1, <2>1 DEF IInv, TypeOK, BookOK, Tp
  <2>3. tpRef # placed + 1
      BY <2>1, <2>2 DEF IInv, TypeOK, BookOK, Pairs
  <2> QED BY <1>1, <1>2, <2>1, <2>3 DEF Tp, Sl
<1>4. placed' = placed + 1 /\ book'[<<"tp", placed'>>] = "open"
    BY <1>1, <1>2 DEF PlaceTp, NextPair
<1>5. unlisted' = {}
    BY DEF PlaceTp, AddOrder, AlgoSetting, AlgoInv
<1> QED BY <1>3, <1>4, <1>5 DEF AlgoInv, PlaceTp, Goto, Looping, locals

LEMMA PlaceSlAlgo == ASSUME AlgoSetting, IInv, AlgoInv, PlaceSl PROVE AlgoInv'
<1>1. placed \in Pairs /\ "tp" \in Kinds /\ "sl" \in Kinds
    BY DEF PlaceSl, IInv, TypeOK, BookOK, StageOK, Pairs, Kinds
<1>2. AddOrder("sl", placed) /\ tpRef' = placed /\ slRef' = placed /\ position
    BY DEF PlaceSl, AddStop
<1>3. Tp' = "open" /\ Sl' = "open"
    BY <1>1, <1>2, AddType DEF AlgoInv, PlaceSl, IInv, TypeOK, Tp, Sl
<1>4. unlisted' = {}
    BY <1>2 DEF AddOrder, AlgoSetting, AlgoInv
<1> QED BY <1>3, <1>4 DEF AlgoInv, PlaceSl, Goto, Looping

LEMMA RefusedAlgo ==
    ASSUME AlgoSetting, IInv, AlgoInv, PlaceTpFails \/ PlaceSlFails PROVE AlgoInv'
<1>1. ~position /\ UNCHANGED exchange /\ PlacementFailed
    BY NoFault DEF PlaceTpFails, PlaceSlFails, IInv
<1>2. pc \in {"placeTp", "placeSl"}
    BY DEF PlaceTpFails, PlaceSlFails
<1> QED BY <1>1, <1>2
       DEF AlgoInv, PlacementFailed, Goto, Finish, exchange, Looping, Tp, Sl

LEMMA CancelAlgo == ASSUME AlgoSetting, IInv, AlgoInv, CancelForReplace PROVE AlgoInv'
<1>1. CancelAllOrders /\ pc' = "placeTp" /\ UNCHANGED <<tpRef, slRef>>
    BY NoFault DEF CancelForReplace, Goto, locals, IInv
<1>2. tpRef \in Pairs /\ slRef \in Pairs
    BY DEF CancelForReplace, IInv, TypeOK, MonitorOK, StageOK
<1>3. Tp' # "open" /\ Sl' # "open" /\ unlisted' = {}
    BY <1>1, <1>2 DEF CancelAllOrders, Tp, Sl, IInv, TypeOK, BookOK, Kinds
<1> QED BY <1>1, <1>3 DEF AlgoInv, Looping

(* An order of the pair fills, or an older one. *)
LEMMA FillAlgo ==
    ASSUME IInv, AlgoInv, NEW k \in Kinds, NEW n \in Pairs, Fills(k, n)
    PROVE  AlgoInv'
<1>1. ~position' /\ UNCHANGED <<pc, goal, seenTp, tpRef, slRef>> /\ unlisted' = {}
    BY DEF Fills, locals, AlgoInv
<1>2. ASSUME NEW j \in Kinds, NEW m \in Pairs
      PROVE  \/ book'[<<j, m>>] = book[<<j, m>>]
             \/ book[<<j, m>>] = "open" /\ book'[<<j, m>>] = "filled"
    BY DEF Fills, IInv, TypeOK, BookOK
<1>3. ASSUME tpRef \in Pairs PROVE Tp' = Tp \/ (Tp = "open" /\ Tp' = "filled")
    BY <1>1, <1>2, <1>3 DEF Tp, Kinds
<1>4. ASSUME slRef \in Pairs PROVE Sl' = Sl \/ (Sl = "open" /\ Sl' = "filled")
    BY <1>1, <1>2, <1>4 DEF Sl, Kinds
<1>5. Looping \/ (pc \in {"placeTp", "placeSl"} /\ goal = "safety") =>
          tpRef \in Pairs /\ slRef \in Pairs
    BY DEF IInv, TypeOK, MonitorOK, StageOK, Looping
<1> QED BY <1>1, <1>3, <1>4, <1>5 DEF AlgoInv, Looping

(* The rest ends the monitor or leaves the orders and the position alone. *)
LEMMA RestSteps ==
    ASSUME ~Restless, ~CallFails, [Next]_vars,
           ~ReuseRefs, ~ReadTp, ~PlaceTp, ~PlaceSl, ~PlaceTpFails, ~PlaceSlFails,
           ~CancelForReplace, \A k \in Kinds, n \in Pairs : ~Fills(k, n)
    PROVE  /\ unlisted' = {} \/ unlisted' = unlisted
           /\ \/ pc' = "done"
              \/ /\ UNCHANGED <<book, position, tpRef, slRef>>
                 /\ Looping' => Looping
                 /\ pc' \in {"placeTp", "placeSl"} =>
                      UNCHANGED <<pc, goal, placed>> \/ (pc' = "placeTp" /\ goal' = "ensure")
                 /\ pc' = "slStatus" => UNCHANGED <<pc, seenTp>>
BY DEF Next, Monitor, Clock, Market, SeePosition, SeeNoPosition, NoRefs, Emergency, HoldTimeout,
       StartTurn, ReadFails, ReadSl, EndTrade, SafetyPasses, SafetyReplaces, ReviewExits,
       ReviewPasses, BreakevenTriggers, EndTurn, ListCatchesUp, GuardElapses, CheckFallsDue,
       DeadlinePasses, HoldElapses, Expires, ClosedByOthers, MarketClose, CloseFails,
       CancelAllOrders, Goto, Finish, Looping, exchange, locals, vars

LEMMA NextAlgo ==
    ASSUME AlgoSetting, IInv, AlgoInv, [Next]_vars PROVE AlgoInv'
<1>1. CASE /\ ~ReuseRefs /\ ~ReadTp /\ ~PlaceTp /\ ~PlaceSl /\ ~PlaceTpFails
           /\ ~PlaceSlFails /\ ~CancelForReplace
           /\ \A k \in Kinds, n \in Pairs : ~Fills(k, n)
    BY <1>1, RestSteps, NoFault DEF AlgoSetting, IInv, AlgoInv, Looping, Tp, Sl
<1> QED BY <1>1, ReuseAlgo, ReadAlgo, PlaceTpAlgo, PlaceSlAlgo, RefusedAlgo, CancelAlgo, FillAlgo

(* For algo orders listed without delay, while nothing fails or expires and
   nobody else touches the position: the result is true although an order
   that is not listed counts as filled (execution.py:522-552, 748-758). *)
THEOREM ResultByListing == ASSUME AlgoSetting PROVE Spec => []ResultIsTrue
<1>1. IInv /\ AlgoInv /\ [Next]_vars => AlgoInv'
    BY NextAlgo
<1>2. IInv /\ ResultInv /\ AlgoInv /\ [Next]_vars => ResultInv'
    BY AlgoConclusion, NextResult
<1>3. ResultInv => ResultIsTrue
    BY DEF ResultInv
<1> QED BY <1>1, <1>2, <1>3, InitAlgo, InitResult, InvCorrect, PTL DEF Spec
=============================================================================

----------------------- MODULE OperationalServiceProofs -----------------------
(***************************************************************************)
(* For every value of the constants: type correctness of OperationalService *)
(* and the suspension served before new entries are allowed; and, by the   *)
(* theorems about TelegramService, the spacing of the alerts in the        *)
(* scenarios of MCServices.                                                *)
(***************************************************************************)
EXTENDS MCServices, TLAPS

(* The records the two passes work on. *)
GuardsType == [count: [Counted -> Nat], on: SUBSET Reasons, left: [Reasons -> 0 .. SuspendSec]]

(* Counters stop at their limits, and only an active suspension has time left. *)
WellFormed(g) ==
    /\ g \in GuardsType
    /\ \A r \in Counted : g.count[r] <= Limit[r]
    /\ \A r \in Reasons : g.left[r] > 0 => r \in g.on

LEMMA ConstantsType ==
    /\ Limit \in [Counted -> Nat] /\ SuspendSec \in Nat /\ MaxIdle \in Nat
    /\ Counted \subseteq Reasons
    /\ "consecutive_errors" \in Counted /\ "order_failures" \in Counted
    /\ "protection_failures" \in Counted
BY OpsAssumption DEF Counted, Reasons

(* The fields of what the passes return, one by one. *)
LEMMA ClearFields ==
    ASSUME NEW g, NEW S
    PROVE  /\ Clear(g, S).count =
                [r \in Counted |-> IF r \in S \cap g.on THEN 0 ELSE g.count[r]]
           /\ Clear(g, S).on = g.on \ S
           /\ Clear(g, S).left = [r \in Reasons |-> IF r \in S THEN 0 ELSE g.left[r]]
BY DEF Clear

LEMMA ActivateFields ==
    ASSUME NEW g \in GuardsType, NEW S
    PROVE  /\ Activate(g, S).count = g.count
           /\ Activate(g, S).on = g.on \cup S
           /\ Activate(g, S).left =
                [r \in Reasons |-> IF r \in S THEN SuspendSec ELSE g.left[r]]
<1> DEFINE o == g.on \cup S
           l == [r \in Reasons |-> IF r \in S THEN SuspendSec ELSE g.left[r]]
<1>1. Activate(g, S) = [g EXCEPT !.on = o, !.left = l]
    BY DEF Activate
<1> HIDE DEF o, l
<1>2. /\ [g EXCEPT !.on = o, !.left = l].count = g.count
      /\ [g EXCEPT !.on = o, !.left = l].on = o
      /\ [g EXCEPT !.on = o, !.left = l].left = l
    BY DEF GuardsType
<1> QED BY <1>1, <1>2 DEF o, l

LEMMA ClearType ==
    ASSUME NEW g, WellFormed(g), NEW S PROVE WellFormed(Clear(g, S))
<1> DEFINE c == [r \in Counted |-> IF r \in S \cap g.on THEN 0 ELSE g.count[r]]
           l == [r \in Reasons |-> IF r \in S THEN 0 ELSE g.left[r]]
<1>1. /\ g.count \in [Counted -> Nat] /\ g.on \subseteq Reasons
      /\ g.left \in [Reasons -> 0 .. SuspendSec]
    BY DEF WellFormed, GuardsType
<1>2. c \in [Counted -> Nat] /\ l \in [Reasons -> 0 .. SuspendSec]
    BY <1>1, ConstantsType
<1>3. Clear(g, S) \in GuardsType
    BY <1>1, <1>2 DEF Clear, GuardsType
<1>4. \A r \in Counted : c[r] <= Limit[r]
    BY <1>1, ConstantsType DEF WellFormed
<1>5. \A r \in Reasons : l[r] > 0 => r \in g.on \ S
    BY <1>1 DEF WellFormed
<1>6. Clear(g, S).count = c /\ Clear(g, S).on = g.on \ S /\ Clear(g, S).left = l
    BY ClearFields
<1> HIDE DEF c, l
<1> QED BY <1>3, <1>4, <1>5, <1>6 DEF WellFormed

LEMMA ActivateType ==
    ASSUME NEW g, WellFormed(g), NEW S, S \subseteq Reasons PROVE WellFormed(Activate(g, S))
<1> DEFINE o == g.on \cup S
           l == [r \in Reasons |-> IF r \in S THEN SuspendSec ELSE g.left[r]]
<1>1. /\ g \in GuardsType /\ g.on \subseteq Reasons
      /\ g.left \in [Reasons -> 0 .. SuspendSec]
    BY DEF WellFormed, GuardsType
<1>2. o \subseteq Reasons /\ l \in [Reasons -> 0 .. SuspendSec]
    BY <1>1, ConstantsType
<1>3. Activate(g, S) = [g EXCEPT !.on = o, !.left = l]
    BY DEF Activate
<1>4. Activate(g, S) \in GuardsType
  <2> HIDE DEF o, l
  <2> QED BY <1>1, <1>2, <1>3 DEF GuardsType
<1>5. \A r \in Reasons : l[r] > 0 => r \in o
    BY <1>1 DEF WellFormed
<1> QED BY <1>1, <1>4, <1>5, ActivateFields DEF WellFormed

LEMMA TriggeredType == \A g, age : Triggered(g, age) \subseteq Reasons
BY DEF Triggered, Reasons

LEMMA EvaluateType ==
    ASSUME NEW g, WellFormed(g), NEW age PROVE WellFormed(Evaluate(g, age))
BY ActivateType, TriggeredType DEF Evaluate

LEMMA ExpireType ==
    ASSUME NEW g, WellFormed(g) PROVE WellFormed(Expire(g))
BY ClearType DEF Expire

-----------------------------------------------------------------------------
(* Types.                                                                  *)

LEMMA GuardsOK == TypeOK => WellFormed(Guards)
BY DEF TypeOK, WellFormed, Guards, GuardsType

LEMMA BecomeType ==
    ASSUME TypeOK, NEW g, WellFormed(g), Become(g),
           idle' \in {NoPoll} \cup Nat, polled' \in BOOLEAN,
           entry' \in [Callbacks -> {"idle", "allowed", "executed"}],
           answer' \in [Callbacks -> {"none", "yes", "no"}],
           since' \in [Counted -> {Never} \cup 0 .. SuspendSec]
    PROVE  TypeOK'
BY DEF TypeOK, WellFormed, GuardsType, Become

LEMMA InitType == Init => TypeOK
<1> SUFFICES ASSUME Init PROVE TypeOK
    OBVIOUS
<1>1. count \in [Counted -> Nat] /\ \A r \in Counted : count[r] <= Limit[r]
    BY ConstantsType DEF Init
<1>2. left \in [Reasons -> 0 .. SuspendSec] /\ \A r \in Reasons : ~(left[r] > 0)
    BY ConstantsType DEF Init
<1>3. since \in [Counted -> {Never} \cup 0 .. SuspendSec]
    BY DEF Init
<1>4. /\ entry \in [Callbacks -> {"idle", "allowed", "executed"}]
      /\ answer \in [Callbacks -> {"none", "yes", "no"}]
    BY DEF Init
<1> QED BY <1>1, <1>2, <1>3, <1>4 DEF Init, TypeOK

(* A counter counts up to its limit. *)
Raised(S) == [r \in Counted |-> IF r \in S /\ count[r] < Limit[r] THEN count[r] + 1 ELSE count[r]]

LEMMA FailType ==
    ASSUME TypeOK, NEW S, Fail(S), UNCHANGED <<idle, polled>>,
           entry' \in [Callbacks -> {"idle", "allowed", "executed"}],
           answer' \in [Callbacks -> {"none", "yes", "no"}]
    PROVE  TypeOK'
<1> DEFINE g == [Guards EXCEPT !.count = Raised(S)]
<1>1. Become(Evaluate(g, idle))
    BY DEF Fail, Raised
<1>2. Raised(S) \in [Counted -> Nat] /\ \A r \in Counted : Raised(S)[r] <= Limit[r]
    BY ConstantsType DEF Raised, TypeOK
<1>3. g = [count |-> Raised(S), on |-> on, left |-> left]
    BY DEF Guards
<1>4. WellFormed(g)
    BY <1>2, <1>3 DEF TypeOK, WellFormed, GuardsType
<1>5. since' \in [Counted -> {Never} \cup 0 .. SuspendSec]
    BY ConstantsType DEF Fail, TypeOK
<1> HIDE DEF g
<1> QED BY <1>1, <1>4, <1>5, EvaluateType, BecomeType DEF TypeOK

(* Counters that are reset stay below their limits. *)
LEMMA ResetType ==
    ASSUME TypeOK, NEW k \in Counted
    PROVE  /\ [count EXCEPT ![k] = 0] \in [Counted -> Nat]
           /\ \A r \in Counted : [count EXCEPT ![k] = 0][r] <= Limit[r]
BY ConstantsType DEF TypeOK

LEMMA TypeStep == TypeOK /\ [Next]_vars => TypeOK'
<1> SUFFICES ASSUME TypeOK, [Next]_vars PROVE TypeOK'
    OBVIOUS
<1>g. WellFormed(Guards) /\ Guards \in GuardsType
    BY GuardsOK DEF WellFormed
<1>e. \A c \in Callbacks : EntryEnds(c) =>
        /\ entry' \in [Callbacks -> {"idle", "allowed", "executed"}]
        /\ answer' \in [Callbacks -> {"none", "yes", "no"}]
    BY DEF EntryEnds, TypeOK
<1>1. ASSUME NEW apiRelated \in BOOLEAN, RecordError(apiRelated) PROVE TypeOK'
    BY <1>1, FailType DEF RecordError, TypeOK
<1>2. CASE RecordProtectionFailed
    BY <1>2, FailType DEF RecordProtectionFailed, TypeOK
<1>3. CASE RecordProtectionOk
  <2> DEFINE reset == [count EXCEPT !["protection_failures"] = 0]
             g == [Guards EXCEPT !.count["protection_failures"] = 0]
  <2>1. g = [count |-> reset, on |-> on, left |-> left]
      BY DEF Guards
  <2>2. WellFormed(g)
      BY <2>1, ResetType, ConstantsType DEF TypeOK, WellFormed, GuardsType
  <2>3. Become(Evaluate(g, idle))
      BY <1>3 DEF RecordProtectionOk
  <2> HIDE DEF g
  <2> QED BY <1>3, <2>2, <2>3, EvaluateType, BecomeType DEF RecordProtectionOk, TypeOK
<1>4. CASE RecordOrphanUnrecoverable
  <2>1. WellFormed(Activate(Guards, {"orphan_unrecoverable"}))
      BY <1>g, ActivateType DEF Reasons
  <2> QED BY <1>4, <2>1, BecomeType DEF RecordOrphanUnrecoverable, TypeOK
<1>5. ASSUME NEW c \in Callbacks, CanOpenNewEntries(c) PROVE TypeOK'
  <2>1. /\ entry' \in [Callbacks -> {"idle", "allowed", "executed"}]
        /\ answer' \in [Callbacks -> {"none", "yes", "no"}]
      BY <1>5 DEF CanOpenNewEntries, TypeOK
  <2>2. WellFormed(Evaluate(Expire(Guards), idle))
      BY <1>g, ExpireType, EvaluateType
  <2>3. CASE Enabled
      BY <1>5, <2>1, <2>2, <2>3, BecomeType DEF CanOpenNewEntries, TypeOK
  <2>4. CASE ~Enabled
      BY <1>5, <2>1, <2>4 DEF CanOpenNewEntries, TypeOK
  <2> QED BY <2>3, <2>4
<1>6. ASSUME NEW c \in Callbacks, RecordEntryFailed(c) PROVE TypeOK'
    BY <1>6, <1>e, FailType DEF RecordEntryFailed
<1>7. ASSUME NEW c \in Callbacks, EntryDropped(c) PROVE TypeOK'
    BY <1>7, <1>e DEF EntryDropped, TypeOK
<1>8. ASSUME NEW c \in Callbacks, RecordEntryExecuted(c) PROVE TypeOK'
  <2>1. entry' \in [Callbacks -> {"idle", "allowed", "executed"}]
      BY <1>8 DEF RecordEntryExecuted, TypeOK
  <2> QED BY <1>8, <2>1, ResetType, ConstantsType DEF RecordEntryExecuted, TypeOK
<1>9. ASSUME NEW c \in Callbacks, RecordSuccess(c) PROVE TypeOK'
    BY <1>9, <1>e, ResetType, ConstantsType DEF RecordSuccess, TypeOK
<1>10. CASE Heartbeat
  <2> DEFINE g == IF polled THEN Clear(Guards, {"scheduler_stale"}) ELSE Guards
             age == IF polled THEN 0 ELSE idle
  <2>1. WellFormed(g)
      BY <1>g, ClearType
  <2>2. age \in {NoPoll} \cup Nat
      BY DEF TypeOK
  <2>3. Become(Evaluate(Expire(g), age)) /\ idle' = age
      BY <1>10 DEF Heartbeat
  <2> HIDE DEF g, age
  <2>4. WellFormed(Evaluate(Expire(g), age))
      BY <2>1, ExpireType, EvaluateType
  <2> QED BY <1>10, <2>2, <2>3, <2>4, BecomeType DEF Heartbeat, TypeOK
<1>11. CASE Poll
    BY <1>11 DEF Poll, TypeOK
<1>12. CASE Tick
  <2>1. /\ left' \in [Reasons -> 0 .. SuspendSec]
        /\ \A r \in Reasons : left'[r] > 0 => left[r] > 0
      BY <1>12, ConstantsType DEF Tick, TypeOK
  <2>2. idle' \in {NoPoll} \cup Nat
      BY <1>12 DEF Tick, TypeOK, NoPoll
  <2>3. since' \in [Counted -> {Never} \cup 0 .. SuspendSec]
      BY <1>12, ConstantsType DEF Tick, TypeOK
  <2> QED BY <1>12, <2>1, <2>2, <2>3 DEF Tick, TypeOK
<1>13. CASE UNCHANGED vars
    BY <1>13 DEF vars, TypeOK
<1> QED
    BY <1>1, <1>2, <1>3, <1>4, <1>5, <1>6, <1>7, <1>8, <1>9, <1>10, <1>11, <1>12, <1>13
    DEF Next

(* Every call leaves the counters at or below their limits, and no
   suspension that is off has time left
   (services/operational_service.py:549-643). *)
THEOREM TypeCorrect == Spec => []TypeOK
BY InitType, TypeStep, PTL DEF Spec

-----------------------------------------------------------------------------
(* The suspension served.                                                  *)

(* A suspension whose failure is s old is over, or still on with what is
   left of its time; one with no end stays on. *)
Serves(r, s, isOn, rest) ==
    \/ SuspendSec > 0 /\ s = SuspendSec
    \/ isOn /\ (SuspendSec = 0 \/ rest >= SuspendSec - s)

AllServe(g, age) ==
    \A r \in Counted : age[r] # Never =>
        Enabled /\ Serves(r, age[r], r \in g.on, g.left[r])

ServedInv == AllServe(Guards, since)

(* The type of the history. *)
Ages == [Counted -> {Never} \cup 0 .. SuspendSec]

(* Activating any reasons and clearing elapsed ones, or ones that are not
   counted, keep what is left to serve. *)
LEMMA ActivateServes ==
    ASSUME NEW g \in GuardsType, NEW S, NEW age \in Ages, AllServe(g, age)
    PROVE  AllServe(Activate(g, S), age)
<1>1. Counted \subseteq Reasons /\ SuspendSec \in Nat
    BY ConstantsType
<1>f. Activate(g, S).left = [r \in Reasons |-> IF r \in S THEN SuspendSec ELSE g.left[r]]
    BY ActivateFields
<1>2. \A r \in Counted : Activate(g, S).left[r] = IF r \in S THEN SuspendSec ELSE g.left[r]
    BY <1>1, <1>f
<1>3. Activate(g, S).on = g.on \cup S
    BY ActivateFields
<1> SUFFICES ASSUME NEW r \in Counted, age[r] # Never
             PROVE  Enabled /\ Serves(r, age[r], r \in Activate(g, S).on, Activate(g, S).left[r])
    BY DEF AllServe
<1>4. Enabled /\ Serves(r, age[r], r \in g.on, g.left[r]) /\ age[r] \in 0 .. SuspendSec
    BY DEF AllServe, Ages
<1> QED BY <1>1, <1>2, <1>3, <1>4 DEF Serves

LEMMA ClearServes ==
    ASSUME NEW g \in GuardsType, NEW S, NEW age \in Ages, AllServe(g, age),
           \A r \in S \cap Counted : r \in Elapsed(g)
    PROVE  AllServe(Clear(g, S), age)
<1>1. Counted \subseteq Reasons /\ SuspendSec \in Nat
    BY ConstantsType
<1>f. Clear(g, S).left = [r \in Reasons |-> IF r \in S THEN 0 ELSE g.left[r]]
    BY DEF Clear
<1>2. \A r \in Counted : Clear(g, S).left[r] = IF r \in S THEN 0 ELSE g.left[r]
    BY <1>1, <1>f
<1>3. Clear(g, S).on = g.on \ S
    BY ClearFields
<1> SUFFICES ASSUME NEW r \in Counted, age[r] # Never
             PROVE  Enabled /\ Serves(r, age[r], r \in Clear(g, S).on, Clear(g, S).left[r])
    BY DEF AllServe
<1>4. Enabled /\ Serves(r, age[r], r \in g.on, g.left[r]) /\ age[r] \in 0 .. SuspendSec
    BY DEF AllServe, Ages
<1>5. CASE r \in S
  <2>1. SuspendSec > 0 /\ g.left[r] = 0
      BY <1>5 DEF Elapsed
  <2>2. age[r] = SuspendSec
      BY <1>1, <1>4, <2>1 DEF Serves
  <2> QED BY <1>4, <2>1, <2>2 DEF Serves
<1>6. CASE r \notin S
    BY <1>2, <1>3, <1>4, <1>6 DEF Serves
<1> QED BY <1>5, <1>6

LEMMA EvaluateServes ==
    ASSUME NEW g \in GuardsType, NEW t, NEW age \in Ages, AllServe(g, age)
    PROVE  AllServe(Evaluate(g, t), age)
BY ActivateServes DEF Evaluate

LEMMA ExpireServes ==
    ASSUME NEW g \in GuardsType, NEW age \in Ages, AllServe(g, age)
    PROVE  AllServe(Expire(g), age)
<1>1. \A r \in Elapsed(g) \cap Counted : r \in Elapsed(g)
    OBVIOUS
<1> HIDE DEF Elapsed
<1> QED BY <1>1, ClearServes DEF Expire

LEMMA BecomeServes ==
    ASSUME NEW g, NEW age, AllServe(g, age), Become(g), since' = age
    PROVE  ServedInv'
BY DEF AllServe, Become, ServedInv, Guards

(* A failure that reaches its limit starts the suspension over. *)
LEMMA FailServes ==
    ASSUME TypeOK, ServedInv, NEW S, Fail(S) PROVE ServedInv'
<1> DEFINE g == [Guards EXCEPT !.count = Raised(S)]
           h == Evaluate(g, idle)
           Hit(r) == Enabled /\ r \in S /\ Limit[r] > 0 /\ Raised(S)[r] >= Limit[r]
<1>1. Become(h) /\ since' = [r \in Counted |-> IF Hit(r) THEN 0 ELSE since[r]]
    BY DEF Fail, Raised
<1>2. g = [count |-> Raised(S), on |-> on, left |-> left]
    BY DEF Guards
<1>3. Raised(S) \in [Counted -> Nat]
    BY ConstantsType DEF Raised, TypeOK
<1>4. g \in GuardsType /\ g.count = Raised(S) /\ g.on = on /\ g.left = left
    BY <1>2, <1>3 DEF TypeOK, GuardsType
<1>5. AllServe(g, since) /\ since \in Ages
    BY <1>4 DEF ServedInv, AllServe, Guards, TypeOK, Ages
<1>6. AllServe(h, since)
  <2> HIDE DEF g
  <2> QED BY <1>4, <1>5, EvaluateServes
<1>7. ASSUME NEW r \in Counted, Hit(r) PROVE Enabled /\ r \in h.on /\ h.left[r] = SuspendSec
  <2>1. r \in Triggered(g, idle)
      BY <1>4, <1>7 DEF Triggered
  <2>2. h = Activate(g, Triggered(g, idle))
      BY <1>7 DEF Evaluate
  <2>3. g \in GuardsType
      BY <1>4
  <2> HIDE DEF g, h
  <2>4. /\ Activate(g, Triggered(g, idle)).on = g.on \cup Triggered(g, idle)
        /\ Activate(g, Triggered(g, idle)).left =
             [q \in Reasons |-> IF q \in Triggered(g, idle) THEN SuspendSec ELSE g.left[q]]
      BY <2>3, ActivateFields
  <2>5. r \in Reasons /\ Enabled
      BY <1>7, ConstantsType
  <2> QED BY <2>1, <2>2, <2>4, <2>5
<1> HIDE DEF g, h
<1>8. ASSUME NEW r \in Counted, since'[r] # Never
      PROVE  Enabled /\ Serves(r, since'[r], r \in h.on, h.left[r])
  <2>1. CASE Hit(r)
      BY <1>1, <1>7, <2>1, ConstantsType DEF Serves
  <2>2. CASE ~Hit(r)
      BY <1>1, <1>6, <1>8, <2>2 DEF AllServe
  <2> QED BY <2>1, <2>2
<1> QED BY <1>1, <1>8 DEF ServedInv, AllServe, Become, Guards

LEMMA TickServes == TypeOK /\ ServedInv /\ Tick => ServedInv'
<1> SUFFICES ASSUME TypeOK, ServedInv, Tick, NEW r \in Counted, since'[r] # Never
             PROVE  Enabled /\ Serves(r, since'[r], r \in on', left'[r])
    BY DEF ServedInv, AllServe, Guards
<1>1. /\ SuspendSec \in Nat /\ r \in Reasons /\ left[r] \in 0 .. SuspendSec
      /\ since[r] \in {Never} \cup 0 .. SuspendSec
    BY ConstantsType DEF TypeOK
<1>2. /\ on' = on
      /\ left'[r] = IF left[r] > 0 THEN left[r] - 1 ELSE 0
      /\ since'[r] = IF since[r] = Never \/ since[r] = SuspendSec THEN since[r] ELSE since[r] + 1
    BY <1>1 DEF Tick
<1>3. since[r] # Never
    BY <1>2
<1>4. Enabled /\ Serves(r, since[r], r \in on, left[r])
    BY <1>3 DEF ServedInv, AllServe, Guards
<1> QED BY <1>1, <1>2, <1>3, <1>4 DEF Serves

LEMMA ServedStep == TypeOK /\ ServedInv /\ [Next]_vars => ServedInv'
<1> SUFFICES ASSUME TypeOK, ServedInv, [Next]_vars PROVE ServedInv'
    OBVIOUS
<1>g. Guards \in GuardsType /\ WellFormed(Guards) /\ since \in Ages
    BY GuardsOK DEF WellFormed, TypeOK, Ages
<1>k. UNCHANGED <<on, left, since>> => ServedInv'
    BY DEF ServedInv, AllServe, Guards
<1>1. ASSUME NEW apiRelated \in BOOLEAN, RecordError(apiRelated) PROVE ServedInv'
    BY <1>1, FailServes DEF RecordError
<1>2. CASE RecordProtectionFailed
    BY <1>2, FailServes DEF RecordProtectionFailed
<1>3. CASE RecordProtectionOk
  <2> DEFINE reset == [count EXCEPT !["protection_failures"] = 0]
             g == [Guards EXCEPT !.count["protection_failures"] = 0]
  <2>1. g = [count |-> reset, on |-> on, left |-> left]
      BY DEF Guards
  <2>2. g \in GuardsType /\ g.on = on /\ g.left = left
      BY <2>1, ResetType, ConstantsType DEF TypeOK, GuardsType
  <2>3. AllServe(g, since)
      BY <2>2 DEF ServedInv, AllServe, Guards
  <2>4. Become(Evaluate(g, idle)) /\ since' = since
      BY <1>3 DEF RecordProtectionOk
  <2> HIDE DEF g
  <2> QED BY <1>g, <2>2, <2>3, <2>4, EvaluateServes, BecomeServes
<1>4. CASE RecordOrphanUnrecoverable
    BY <1>4, <1>g, ActivateServes, BecomeServes DEF RecordOrphanUnrecoverable, ServedInv
<1>5. ASSUME NEW c \in Callbacks, CanOpenNewEntries(c) PROVE ServedInv'
  <2>1. Expire(Guards) \in GuardsType
      BY <1>g, ExpireType DEF WellFormed
  <2>2. AllServe(Evaluate(Expire(Guards), idle), since)
      BY <1>g, <2>1, ExpireServes, EvaluateServes DEF ServedInv
  <2>3. CASE Enabled
      BY <1>5, <2>2, <2>3, BecomeServes DEF CanOpenNewEntries
  <2>4. CASE ~Enabled
      BY <1>5, <1>k, <2>4 DEF CanOpenNewEntries
  <2> QED BY <2>3, <2>4
<1>6. ASSUME NEW c \in Callbacks, RecordEntryFailed(c) PROVE ServedInv'
    BY <1>6, FailServes DEF RecordEntryFailed
<1>7. ASSUME NEW c \in Callbacks, EntryDropped(c) PROVE ServedInv'
    BY <1>7, <1>k DEF EntryDropped
<1>8. ASSUME NEW c \in Callbacks, RecordEntryExecuted(c) PROVE ServedInv'
    BY <1>8, <1>k DEF RecordEntryExecuted
<1>9. ASSUME NEW c \in Callbacks, RecordSuccess(c) PROVE ServedInv'
    BY <1>9, <1>k DEF RecordSuccess
<1>10. CASE Heartbeat
  <2> DEFINE g == IF polled THEN Clear(Guards, {"scheduler_stale"}) ELSE Guards
             age == IF polled THEN 0 ELSE idle
  <2>1. g \in GuardsType /\ WellFormed(g)
      BY <1>g, ClearType DEF WellFormed
  <2>2. AllServe(g, since)
    <3>1. {"scheduler_stale"} \cap Counted = {}
        BY DEF Counted
    <3> QED BY <1>g, <3>1, ClearServes DEF ServedInv
  <2>3. Become(Evaluate(Expire(g), age)) /\ since' = since
      BY <1>10 DEF Heartbeat
  <2> HIDE DEF g, age
  <2>4. Expire(g) \in GuardsType
      BY <2>1, ExpireType DEF WellFormed
  <2> QED BY <1>g, <2>1, <2>2, <2>3, <2>4, ExpireServes, EvaluateServes, BecomeServes
<1>11. CASE Poll
    BY <1>11, <1>k DEF Poll
<1>12. CASE Tick
    BY <1>12, TickServes
<1>13. CASE UNCHANGED vars
    BY <1>13, <1>k DEF vars
<1> QED
    BY <1>1, <1>2, <1>3, <1>4, <1>5, <1>6, <1>7, <1>8, <1>9, <1>10, <1>11, <1>12, <1>13
    DEF Next

(* Only can_open_new_entries allows an entry, and when no suspension is on. *)
LEMMA AllowedOnlyWhenServed == TypeOK /\ ServedInv /\ [Next]_vars => [ServedBeforeAllowed]_vars
<1> SUFFICES ASSUME TypeOK, ServedInv, [Next]_vars, NEW c \in Callbacks, Allows(c),
                    NEW r \in Counted, since[r] # Never
             PROVE  SuspendSec > 0 /\ since[r] = SuspendSec
    BY DEF ServedBeforeAllowed
<1>1. CanOpenNewEntries(c)
    BY DEF Next, Allows, RecordError, RecordProtectionFailed, RecordProtectionOk,
           RecordOrphanUnrecoverable, CanOpenNewEntries, RecordEntryFailed, EntryDropped,
           RecordEntryExecuted, RecordSuccess, Heartbeat, Poll, Tick, EntryEnds, vars, TypeOK
<1>2. Enabled /\ Serves(r, since[r], r \in on, left[r])
    BY DEF ServedInv, AllServe, Guards
<1>3. SuspendSec \in Nat /\ since[r] \in 0 .. SuspendSec
    BY ConstantsType DEF TypeOK
<1>4. Evaluate(Expire(Guards), idle).on = {}
    BY <1>1, <1>2 DEF CanOpenNewEntries, Allows, TypeOK
<1>5. Expire(Guards) \in GuardsType
    BY GuardsOK, ExpireType DEF WellFormed
<1>6. Expire(Guards).on = {}
  <2> DEFINE g == Expire(Guards)
  <2>1. Evaluate(g, idle) = Activate(g, Triggered(g, idle))
      BY <1>2 DEF Evaluate
  <2>2. g \in GuardsType /\ Evaluate(g, idle).on = {}
      BY <1>4, <1>5
  <2> HIDE DEF g
  <2>3. Activate(g, Triggered(g, idle)).on = g.on \cup Triggered(g, idle)
      BY <2>2, ActivateFields
  <2>4. g.on = {}
      BY <2>1, <2>2, <2>3
  <2> QED BY <2>4 DEF g
<1>7. on \ Elapsed(Guards) = {}
  <2>1. Clear(Guards, Elapsed(Guards)).on = Guards.on \ Elapsed(Guards)
      BY ClearFields
  <2>2. Guards.on = on
      BY DEF Guards
  <2> QED BY <1>6, <2>1, <2>2 DEF Expire
<1>8. r \in on => SuspendSec > 0 /\ left[r] = 0
    BY <1>7 DEF Elapsed, Guards
<1> QED BY <1>2, <1>3, <1>8 DEF Serves

(* A failure that reached its limit costs the whole suspension without new
   entries, whatever the callbacks, the monitors and the heartbeat do
   meanwhile, a late success included
   (services/operational_service.py:549-614). *)
THEOREM SuspensionTheorem == Spec => SuspensionServed
<1>1. Init => ServedInv
    BY DEF Init, ServedInv, AllServe
<1>2. Spec => []ServedInv
    BY <1>1, InitType, TypeStep, ServedStep, PTL DEF Spec
<1> QED
    BY <1>2, TypeCorrect, AllowedOnlyWhenServed, PTL DEF Spec, SuspensionServed

-----------------------------------------------------------------------------
(* The alerts in the scenarios of MCServices.                              *)

(* What ServiceProofs is about beside the alerts, which no scenario here uses. *)
CONSTANTS Qty, LimitOnly, OrderFaults, MaxPolls, MaxAttempts, MaxReplace, MaxAdds,
          ScalingFaults, FileFaults, MaxVersion, MaxLoads, Symbols, NoSymbol, Universes,
          AppFaults, AppLimitOnly, DieInEntry, Crashes, MaxTrades, MaxStarts, Environments,
          Files, Pairs, Name, Volume, Liquid, TopCount, Requests, MaxPositions, Threads, NoThread,
          Leverage, LeverageLimits, RiskLots, SetupFaults, MaxCalls
VARIABLES orderPc, status, filled, bought, seen, polls, result, scalingPc, level, done,
          attempts, deferred, replaced, qty, held, tp, sl, added, filePc, state, snapshot,
          target, tmp, moved, reported, saved, loads, appPc, signalled, universe, orphans,
          scheduler, entering, monitors, trades, disk, position, order, protected, starts,
          stage, given, lines, environ, settings, request, tradable, scanned, opened, atWork,
          registryPc, symbol, lev, executors, executorsLock, loaded, metadataLock, limit,
          heldBefore, leverage, isolated, calls

(* The theorems for three alerts, and for two with all attempts. *)
OfTurns == INSTANCE ServiceProofs
    WITH alertPc <- pc, Messages <- {a1, a2, a3}, Attempts <- 2,
         MinInterval <- 2, RetryAfter <- 3, Outcomes <- {"sent", "limited", "error"}
OfEnds == INSTANCE ServiceProofs
    WITH alertPc <- pc, Messages <- {a1, a2}, Attempts <- 5,
         MinInterval <- 2, RetryAfter <- 3, Outcomes <- {"sent", "limited", "error"}

mcVars == <<scenario, vars, alertVars>>

(* A behaviour stays in its scenario, and the alerts take no step in others. *)
LEMMA StaysInScenario ==
    ASSUME [MCNext]_mcVars, NEW name PROVE (scenario = name)' <=> (scenario = name)
BY DEF MCNext, mcVars

LEMMA TurnsScenario == MCSpec => [](scenario = "turns" => Turns!SendsSpaced)
<1>1. MCInit /\ scenario = "turns" => OfTurns!Alerts!Init
    BY DEF MCInit, Turns!Init, OfTurns!Alerts!Init
<1>2. OfTurns!Alerts!Next <=> Turns!Next
    BY
    DEF OfTurns!Alerts!Next, Turns!Next, OfTurns!Alerts!Step, Turns!Step,
      OfTurns!Alerts!Tick, Turns!Tick, OfTurns!Alerts!Send, Turns!Send,
      OfTurns!Alerts!TakeTurn, Turns!TakeTurn, OfTurns!Alerts!Post, Turns!Post,
      OfTurns!Alerts!Sent, Turns!Sent, OfTurns!Alerts!Limited, Turns!Limited,
      OfTurns!Alerts!Errs, Turns!Errs, OfTurns!Alerts!Wake, Turns!Wake,
      OfTurns!Alerts!Goto, Turns!Goto, OfTurns!Alerts!WaitSec, Turns!WaitSec,
      OfTurns!Alerts!AfterLimit, Turns!AfterLimit, OfTurns!Alerts!Down, Turns!Down
<1>3. scenario = "turns" /\ [MCNext]_mcVars => [OfTurns!Alerts!Next]_OfTurns!Alerts!vars
    BY <1>2 DEF MCNext, OpsNext, AlertNext, mcVars, alertVars, OfTurns!Alerts!vars
<1>4. [MCNext]_mcVars => ((scenario = "turns")' <=> (scenario = "turns"))
    BY StaysInScenario
<1>5. OfTurns!Alerts!Spec => []OfTurns!Alerts!SendsSpaced
  <2>1. OfTurns!Alerts!TelegramAssumption
      BY AlertAssumption DEF Turns!TelegramAssumption, OfTurns!Alerts!TelegramAssumption
  <2> QED BY <2>1, OfTurns!SpacingTheorem
<1>6. OfTurns!Alerts!SendsSpaced => Turns!SendsSpaced
    BY DEF OfTurns!Alerts!SendsSpaced, Turns!SendsSpaced
<1> QED
    BY <1>1, <1>3, <1>4, <1>5, <1>6, PTL DEF MCSpec, mcVars, OfTurns!Alerts!Spec

LEMMA EndsScenario == MCSpec => [](scenario = "ends" => Ends!SendsSpaced)
<1>1. MCInit /\ scenario = "ends" => OfEnds!Alerts!Init
    BY DEF MCInit, Ends!Init, OfEnds!Alerts!Init
<1>2. OfEnds!Alerts!Next <=> Ends!Next
    BY
    DEF OfEnds!Alerts!Next, Ends!Next, OfEnds!Alerts!Step, Ends!Step,
      OfEnds!Alerts!Tick, Ends!Tick, OfEnds!Alerts!Send, Ends!Send,
      OfEnds!Alerts!TakeTurn, Ends!TakeTurn, OfEnds!Alerts!Post, Ends!Post,
      OfEnds!Alerts!Sent, Ends!Sent, OfEnds!Alerts!Limited, Ends!Limited,
      OfEnds!Alerts!Errs, Ends!Errs, OfEnds!Alerts!Wake, Ends!Wake, OfEnds!Alerts!Goto,
      Ends!Goto, OfEnds!Alerts!WaitSec, Ends!WaitSec, OfEnds!Alerts!AfterLimit,
      Ends!AfterLimit, OfEnds!Alerts!Down, Ends!Down
<1>3. scenario = "ends" /\ [MCNext]_mcVars => [OfEnds!Alerts!Next]_OfEnds!Alerts!vars
    BY <1>2 DEF MCNext, OpsNext, AlertNext, mcVars, alertVars, OfEnds!Alerts!vars
<1>4. [MCNext]_mcVars => ((scenario = "ends")' <=> (scenario = "ends"))
    BY StaysInScenario
<1>5. OfEnds!Alerts!Spec => []OfEnds!Alerts!SendsSpaced
  <2>1. OfEnds!Alerts!TelegramAssumption
      BY AlertAssumption DEF Ends!TelegramAssumption, OfEnds!Alerts!TelegramAssumption
  <2> QED BY <2>1, OfEnds!SpacingTheorem
<1>6. OfEnds!Alerts!SendsSpaced => Ends!SendsSpaced
    BY DEF OfEnds!Alerts!SendsSpaced, Ends!SendsSpaced
<1> QED
    BY <1>1, <1>3, <1>4, <1>5, <1>6, PTL DEF MCSpec, mcVars, OfEnds!Alerts!Spec

(* What TLC checks of the alerts in the scenarios turns and ends is the theorem
   about TelegramService at their constants: no message is posted earlier than the
   interval after the last one that was sent (services/telegram_service.py:83-87). *)
THEOREM AlertsSpacedTheorem == MCSpec => []SendsSpaced
<1>1. (scenario = "turns" => Turns!SendsSpaced) /\ (scenario = "ends" => Ends!SendsSpaced)
        => SendsSpaced
    BY DEF SendsSpaced
<1> QED BY <1>1, TurnsScenario, EndsScenario, PTL
=============================================================================

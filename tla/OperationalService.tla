------------------------- MODULE OperationalService -------------------------
(***************************************************************************)
(* services.operational_service.OperationalService: the kill switches that *)
(* suspend new entries.  Consecutive failures and an idle scheduler        *)
(* activate suspensions, time and recovered polls clear them.              *)
(*                                                                         *)
(* Every method holds the one RLock, so a call is one step; the entry      *)
(* callbacks, the monitors and the heartbeat interleave their calls.  Time *)
(* is relative: a suspension has a remaining time, the scheduler an idle   *)
(* time.  Counters of the reports, alerts and files are left out.          *)
(*                                                                         *)
(* A counter is compared with its limit and reset, no more, so it counts   *)
(* up to the limit only.                                                   *)
(***************************************************************************)
EXTENDS Integers, FiniteSets

CONSTANTS
    Callbacks,      \* threads that may be in an entry
    Enabled,        \* enable_operational_kill_switches
    Limit,          \* kill_switch_max_* per counted reason, 0 = off
    MaxIdle,        \* kill_switch_max_scheduler_idle_sec, 0 = off
    SuspendSec,     \* operational_suspend_sec, 0 = no end
    PauseOnOrphan   \* kill_switch_pause_on_orphan_unrecoverable

Counted == {"consecutive_errors", "api_degraded", "order_failures", "protection_failures"}
Reasons == Counted \cup {"scheduler_stale", "orphan_unrecoverable"}

ASSUME OpsAssumption ==
    /\ Enabled \in BOOLEAN /\ PauseOnOrphan \in BOOLEAN
    /\ Limit \in [Counted -> Nat]
    /\ MaxIdle \in Nat /\ SuspendSec \in Nat

VARIABLES
    count,    \* the _consecutive_* counters
    on,       \* keys of _suspensions
    left,     \* per reason: time until the suspension has elapsed
    idle,     \* time since _last_poll_ts, or NoPoll
    polled,   \* the scheduler polled since the last heartbeat
    entry,    \* per callback: how far its entry is
    answer,   \* per callback: what can_open_new_entries returned last
    since     \* history, per reason: time since a failure at the limit, or Never

vars == <<count, on, left, idle, polled, entry, answer, since>>

NoPoll == -1
Never == -1

TypeOK ==
    /\ count \in [Counted -> Nat] /\ \A r \in Counted : count[r] <= Limit[r]
    /\ on \subseteq Reasons
    /\ left \in [Reasons -> 0 .. SuspendSec]
    /\ idle \in {NoPoll} \cup Nat
    /\ polled \in BOOLEAN
    /\ entry \in [Callbacks -> {"idle", "allowed", "executed"}]
    /\ answer \in [Callbacks -> {"none", "yes", "no"}]
    /\ since \in [Counted -> {Never} \cup 0 .. SuspendSec]
    (* only an active suspension has time left *)
    /\ \A r \in Reasons : left[r] > 0 => r \in on

Init ==
    /\ count = [r \in Counted |-> 0]
    /\ on = {}
    /\ left = [r \in Reasons |-> 0]
    /\ idle = NoPoll
    /\ polled = FALSE
    /\ entry = [c \in Callbacks |-> "idle"]
    /\ answer = [c \in Callbacks |-> "none"]
    /\ since = [r \in Counted |-> Never]

-----------------------------------------------------------------------------
(* The two passes over the suspensions, as functions of the guards          *)
(* [count, on, left] they find.                                             *)

Guards == [count |-> count, on |-> on, left |-> left]

(* _clear_suspension_locked for each reason in S; the mutants keep the
   suspension, or the time it has left. *)
Clear_KeepOn(g, S) ==
    [g EXCEPT !.left = [r \in Reasons |-> IF r \in S THEN 0 ELSE @[r]]]
Clear_KeepTime(g, S) == [g EXCEPT !.on = @ \ S]
Clear(g, S) ==
    [count |-> [r \in Counted |-> IF r \in S \cap g.on THEN 0 ELSE g.count[r]],
     on |-> g.on \ S,
     left |-> [r \in Reasons |-> IF r \in S THEN 0 ELSE g.left[r]]]

(* The suspensions whose time is over; the mutant ends the ones that have
   no end, too. *)
Elapsed_Endless(g) == {r \in g.on : g.left[r] = 0}
Elapsed(g) == {r \in g.on : SuspendSec > 0 /\ g.left[r] = 0}

(* _activate_suspension_locked: a suspension starts over, unless it has no end. *)
Activate(g, S) ==
    [g EXCEPT !.on = @ \cup S,
              !.left = [r \in Reasons |-> IF r \in S THEN SuspendSec ELSE @[r]]]

(* The rules that fire. *)
Triggered(g, age) ==
    {r \in Counted : Limit[r] > 0 /\ g.count[r] >= Limit[r]}
      \cup IF MaxIdle > 0 /\ age > MaxIdle THEN {"scheduler_stale"} ELSE {}

Expire(g) == Clear(g, Elapsed(g))
Evaluate(g, age) == IF Enabled THEN Activate(g, Triggered(g, age)) ELSE g

Become(g) == count' = g.count /\ on' = g.on /\ left' = g.left

-----------------------------------------------------------------------------
(* A record_* call for a failure counted under each reason in S. *)
Fail(S) ==
    LET up == [r \in Counted |->
                 IF r \in S /\ count[r] < Limit[r] THEN count[r] + 1 ELSE count[r]]
    IN /\ Become(Evaluate([Guards EXCEPT !.count = up], idle))
       /\ since' = [r \in Counted |->
                      IF Enabled /\ r \in S /\ Limit[r] > 0 /\ up[r] >= Limit[r]
                      THEN 0 ELSE since[r]]

RecordError(apiRelated) ==
    /\ Fail({"consecutive_errors"} \cup IF apiRelated THEN {"api_degraded"} ELSE {})
    /\ UNCHANGED <<idle, polled, entry, answer>>

RecordProtectionFailed ==
    /\ Fail({"protection_failures"})
    /\ UNCHANGED <<idle, polled, entry, answer>>

RecordProtectionOk ==
    /\ Become(Evaluate([Guards EXCEPT !.count["protection_failures"] = 0], idle))
    /\ UNCHANGED <<idle, polled, entry, answer, since>>

(* record_orphan_status("unrecoverable"): does not ask whether the kill
   switches are enabled. *)
RecordOrphanUnrecoverable ==
    /\ PauseOnOrphan
    /\ Become(Activate(Guards, {"orphan_unrecoverable"}))
    /\ UNCHANGED <<idle, polled, entry, answer, since>>

(* can_open_new_entries, asked by an entry callback. *)
CanOpenNewEntries(c) ==
    LET g == Evaluate(Expire(Guards), idle)
        yes == ~Enabled \/ g.on = {}
    IN /\ entry[c] = "idle"
       /\ IF Enabled THEN Become(g) ELSE UNCHANGED <<count, on, left>>
       /\ entry' = [entry EXCEPT ![c] = IF yes THEN "allowed" ELSE "idle"]
       /\ answer' = [answer EXCEPT ![c] = IF yes THEN "yes" ELSE "no"]
       /\ UNCHANGED <<idle, polled, since>>

EntryEnds(c) ==
    /\ entry' = [entry EXCEPT ![c] = "idle"]
    /\ answer' = [answer EXCEPT ![c] = "none"]

RecordEntryFailed(c) ==
    /\ entry[c] = "allowed"
    /\ Fail({"order_failures"})
    /\ EntryEnds(c)
    /\ UNCHANGED <<idle, polled>>

(* An entry that is given up without a failure. *)
EntryDropped(c) ==
    /\ entry[c] = "allowed"
    /\ EntryEnds(c)
    /\ UNCHANGED <<count, on, left, idle, polled, since>>

RecordEntryExecuted(c) ==
    /\ entry[c] = "allowed"
    /\ entry' = [entry EXCEPT ![c] = "executed"]
    /\ count' = [count EXCEPT !["order_failures"] = 0]
    /\ UNCHANGED <<on, left, idle, polled, answer, since>>

(* record_success(stage="entry_execution"), the only stage in use: the API
   errors are not reset. *)
RecordSuccess(c) ==
    /\ entry[c] = "executed"
    /\ EntryEnds(c)
    /\ count' = [count EXCEPT !["consecutive_errors"] = 0]
    /\ UNCHANGED <<on, left, idle, polled, since>>

(* heartbeat: new polls end scheduler_stale, then both passes are made. *)
Heartbeat ==
    LET g == IF polled THEN Clear(Guards, {"scheduler_stale"}) ELSE Guards
        age == IF polled THEN 0 ELSE idle
    IN /\ idle' = age
       /\ polled' = FALSE
       /\ Become(Evaluate(Expire(g), age))
       /\ UNCHANGED <<entry, answer, since>>

(* The stream's event_count has grown. *)
Poll ==
    /\ ~polled
    /\ polled' = TRUE
    /\ UNCHANGED <<count, on, left, idle, entry, answer, since>>

Tick ==
    /\ left' = [r \in Reasons |-> IF left[r] > 0 THEN left[r] - 1 ELSE 0]
    /\ idle' = IF idle = NoPoll \/ idle > MaxIdle THEN idle ELSE idle + 1
    /\ since' = [r \in Counted |->
                   IF since[r] = Never \/ since[r] = SuspendSec THEN since[r] ELSE since[r] + 1]
    /\ UNCHANGED <<count, on, polled, entry, answer>>

Next ==
    \/ \E apiRelated \in BOOLEAN : RecordError(apiRelated)
    \/ RecordProtectionFailed \/ RecordProtectionOk \/ RecordOrphanUnrecoverable
    \/ \E c \in Callbacks :
        \/ CanOpenNewEntries(c)
        \/ RecordEntryFailed(c) \/ EntryDropped(c)
        \/ RecordEntryExecuted(c) \/ RecordSuccess(c)
    \/ Heartbeat \/ Poll \/ Tick

Spec == Init /\ [][Next]_vars

(* The runtime loop sends heartbeats for ever, and time passes. *)
FairSpec == Spec /\ WF_vars(Heartbeat) /\ WF_vars(Tick)

-----------------------------------------------------------------------------
(* Properties.                                                             *)

Allows(c) == entry[c] = "idle" /\ entry'[c] = "allowed"

(* A failure that reached its limit costs operational_suspend_sec without
   new entries (all of them, when that is 0), even when a late success of
   another callback resets the counter meanwhile
   (operational_service.py:549-614). *)
ServedBeforeAllowed ==
    \A c \in Callbacks : Allows(c) =>
        \A r \in Counted : since[r] = Never \/ (SuspendSec > 0 /\ since[r] = SuspendSec)

SuspensionServed == [][ServedBeforeAllowed]_vars

(* Once a counter stays below its limit, its suspension ends: the heartbeat
   expires it without any entry callback asking
   (operational_service.py:638-643). *)
RecoveryResumes ==
    \A r \in Counted : <>[](count[r] < Limit[r]) => []<>(r \notin on)

(* "Suspensions are time-based (OPERATIONAL_SUSPEND_SEC) and reversible."
   (README.md:111): a suspension does not last for ever once the failures
   that caused it have ended. *)
SuspensionsEnd ==
    (<>[](\A r \in Counted : since[r] = Never \/ since[r] = SuspendSec)) =>
       \A r \in Counted : []<>(r \notin on)
=============================================================================

---------------------------- MODULE LossScaling ----------------------------
(* monitor_scaling.evaluate_loss_scaling as the scale_fn of monitor_oco: a    *)
(* losing position is enlarged at three levels of loss, its TP and SL are     *)
(* replaced for the new quantity.  Both monitors pass scale_fn=None today     *)
(* (monitor_runtime.py:73, monitor_orphan.py:224), so this is what switching  *)
(* it on would do.  The rest of the monitor's turn is in PositionMonitor.     *)
(*                                                                            *)
(* A quantity is in lots, the first margin buys one; the price is reduced to  *)
(* which level it calls for and whether the structure is broken.              *)
EXTENDS Integers

CONSTANTS
    MaxAttempts,    \* 5: then a level is given up
    MaxReplace,     \* 3
    MaxAdds,        \* bound: fills of a level before an answer without an id
    Faults          \* subset of {"refused", "lost", "replace", "no_id", "close"}

Levels == 1 .. 3
Margin(l) == <<1, 2, 4>>[l]    \* times the initial margin

(* Assumed of the constants, by the modules that instantiate this one. *)
ScalingAssumption ==
    /\ {MaxAttempts, MaxReplace, MaxAdds} \subseteq Nat \ {0}
    /\ Faults \subseteq {"refused", "lost", "replace", "no_id", "close"}

VARIABLES
    pc,         \* "turn", "replace", "close" or "ended"
    level,      \* the level at work
    done, attempts, deferred,   \* level_state: loss_l*_done, _attempts, _next_try_ts
    replaced,   \* replace_attempt
    qty,        \* current_qty of the monitor
    held,       \* exchange: the position
    tp, sl,     \* exchange: the quantity of the open TP and SL, 0 without
    added       \* history, per level: market orders that were filled

vars == <<pc, level, done, attempts, deferred, replaced, qty, held, tp, sl, added>>
levels == <<done, attempts, deferred>>
exchange == <<held, tp, sl, added>>

TypeOK ==
    /\ pc \in {"turn", "replace", "close", "ended"}
    /\ level \in Levels
    /\ done \in [Levels -> BOOLEAN] /\ deferred \in [Levels -> BOOLEAN]
    /\ attempts \in [Levels -> 0 .. MaxAttempts]
    /\ \A l \in Levels : attempts[l] = MaxAttempts => done[l]
    /\ replaced \in 0 .. MaxReplace
    /\ {qty, held, tp, sl} \subseteq Nat
    /\ added \in [Levels -> Nat]

Init ==
    /\ pc = "turn" /\ level = 1
    /\ done = [l \in Levels |-> FALSE] /\ deferred = done
    /\ attempts = [l \in Levels |-> 0]
    /\ replaced = 0
    /\ qty = 1 /\ held = 1 /\ tp = 1 /\ sl = 1
    /\ added = [l \in Levels |-> 0]

-----------------------------------------------------------------------------
(* The loss is large enough for level l, which is not backing off. *)
Due(l) ==
    /\ pc = "turn"
    /\ ~done[l] /\ ~deferred[l]
    /\ l > 1 => done[l - 1]

(* _defer_level: backed off, or given up. *)
Defer(l) ==
    /\ attempts' = [attempts EXCEPT ![l] = @ + 1]
    /\ IF attempts[l] + 1 >= MaxAttempts
       THEN done' = [done EXCEPT ![l] = TRUE] /\ UNCHANGED deferred
       ELSE deferred' = [deferred EXCEPT ![l] = TRUE] /\ UNCHANGED done

BackoffEnds(l) ==
    /\ deferred[l] /\ pc = "turn"
    /\ deferred' = [deferred EXCEPT ![l] = FALSE]
    /\ UNCHANGED <<pc, level, done, attempts, replaced, qty, exchange>>

(* The quantity is below what the exchange takes. *)
TooSmall(l) ==
    /\ Due(l)
    /\ done' = [done EXCEPT ![l] = TRUE]
    /\ UNCHANGED <<pc, level, attempts, deferred, replaced, qty, exchange>>

Buy(l) ==
    /\ held' = held + Margin(l)
    /\ added' = [added EXCEPT ![l] = @ + 1]
    /\ UNCHANGED <<tp, sl>>

(* The market order raises or fills nothing. *)
AddFails(l) ==
    /\ "refused" \in Faults /\ Due(l)
    /\ Defer(l)
    /\ UNCHANGED <<pc, level, replaced, qty, exchange>>

(* It fills, and its answer is lost. *)
AddLost(l) ==
    /\ "lost" \in Faults /\ Due(l)
    /\ Buy(l) /\ Defer(l)
    /\ UNCHANGED <<pc, level, replaced, qty>>

AddFills(l) ==
    /\ Due(l)
    /\ Buy(l)
    /\ pc' = "replace" /\ level' = l /\ replaced' = 0
    /\ UNCHANGED <<qty, levels>>

(* The mutant protects what was added. *)
NewQty_Added == Margin(level)
NewQty == qty + Margin(level)

(* replace_tp_sl: everything is cancelled, then the TP and the SL are placed. *)
Replace ==
    /\ pc = "replace"
    /\ tp' = NewQty /\ sl' = NewQty
    /\ qty' = NewQty
    /\ done' = [done EXCEPT ![level] = TRUE]
    /\ pc' = "turn"
    /\ UNCHANGED <<level, attempts, deferred, replaced, held, added>>

(* The cancellation, the TP and the SL may have been done; three times, and
   the position is given up. *)
ReplaceFails ==
    /\ "replace" \in Faults /\ pc = "replace"
    /\ \/ UNCHANGED <<tp, sl>>
       \/ tp' \in {0, NewQty} /\ sl' = 0
       \/ tp' = NewQty /\ sl' = NewQty
    /\ replaced' = replaced + 1
    /\ pc' = IF replaced' = MaxReplace THEN "close" ELSE "replace"
    /\ UNCHANGED <<level, levels, qty, held, added>>

(* An answer without an id raises a RuntimeError, which is none of
   MONITOR_ERRORS: monitor_oco drops the update. *)
NoId ==
    /\ "no_id" \in Faults /\ pc = "replace" /\ added[level] <= MaxAdds
    /\ tp' = NewQty /\ sl' = NewQty
    /\ pc' = "turn"
    /\ UNCHANGED <<level, levels, replaced, qty, held, added>>

(* The price is beyond the stop, or the last close is. *)
StructureBreaks ==
    /\ pc = "turn" /\ \E l \in Levels : ~done[l]
    /\ pc' = "close"
    /\ UNCHANGED <<level, levels, replaced, qty, exchange>>

(* close_all: the quantity the monitor knows, reduce-only. *)
CloseAll ==
    /\ pc = "close"
    /\ held' = IF qty > held THEN 0 ELSE held - qty
    /\ pc' = "ended"
    /\ UNCHANGED <<level, levels, replaced, qty, tp, sl, added>>

CloseFails ==
    /\ "close" \in Faults /\ pc = "close"
    /\ pc' = "turn"
    /\ UNCHANGED <<level, levels, replaced, qty, exchange>>

Next ==
    \/ Replace \/ ReplaceFails \/ NoId \/ StructureBreaks \/ CloseAll \/ CloseFails
    \/ \E l \in Levels :
         BackoffEnds(l) \/ TooSmall(l) \/ AddFails(l) \/ AddLost(l) \/ AddFills(l)

Spec == Init /\ [][Next]_vars

-----------------------------------------------------------------------------
(* Between two turns of the monitor the position is what the levels done have
   made of it, each added once and in order, the monitor knows its quantity,
   and both orders cover it: whatever was refused, given up or retried on the
   way, as long as no answer is lost (monitor_scaling.py:162-236,
   execution.py:648-680). *)
ScaledPositionCovered ==
    pc = "turn" =>
        /\ held = 1 + added[1] * Margin(1) + added[2] * Margin(2) + added[3] * Margin(3)
        /\ \A l \in Levels : /\ added[l] <= 1
                             /\ added[l] = 1 => \A k \in 1 .. l : done[k]
        /\ qty = held /\ tp = held /\ sl = held

(* "Level 3 can add 4x the initial margin to a position already in loss."
   (monitor.py:124): refuted by lost answers, each of the five attempts may
   have bought. *)
MaximumRisk == added[3] <= 1

(* After close_all nothing is held: refuted, a level that was added and could
   not be protected is not in the quantity that is closed
   (monitor_scaling.py:213, execution.py:661). *)
ClosedWhole == pc = "ended" => held = 0
=============================================================================

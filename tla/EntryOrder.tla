----------------------------- MODULE EntryOrder -----------------------------
(***************************************************************************)
(* One entry order: FuturesExecutor.place_limit_with_market_fallback, or,  *)
(* with use_limit_only, EntryService._place_limit_only with place_limit_   *)
(* entry and wait_for_fill.  Each request is a step of its own, between    *)
(* two of them the exchange fills the limit order.                         *)
(*                                                                         *)
(* Quantities are counted in lots (LOT_SIZE steps); the prices decide      *)
(* nothing here.  A paper order never gets this far (execution.py:299).    *)
(*                                                                         *)
(* Bound for TLC: MaxPolls requests fit in limit_timeout_sec.              *)
(***************************************************************************)
EXTENDS Integers

CONSTANTS
    Qty,        \* lots to buy
    LimitOnly,  \* settings.use_limit_only
    Faults,     \* subset of AllFaults
    MaxPolls

(* lost_answer: a request is carried out and its answer lost
   lost_cancel: a cancel request does not reach the exchange
   refused:     a request fails and does nothing
   early_answer: the market order is answered before it has filled *)
AllFaults == {"lost_answer", "lost_cancel", "refused", "early_answer"}

(* Assumed of the constants, by the modules that instantiate this one. *)
OrderAssumption ==
    /\ Qty \in Nat \ {0} /\ MaxPolls \in Nat \ {0}
    /\ LimitOnly \in BOOLEAN /\ Faults \subseteq AllFaults

VARIABLES
    pc,      \* where the entry thread is
    status,  \* exchange: status of the limit order
    filled,  \* exchange: what it has filled of it
    bought,  \* exchange: what the market order has bought
    seen,    \* executed_qty, as of the last answer
    polls,
    result   \* the quantity returned to _submit_entry

vars == <<pc, status, filled, bought, seen, polls, result>>
exchange == <<status, filled, bought>>

Held == filled + bought
Ended == {"returned", "raised"}

TypeOK ==
    /\ pc \in {"place", "poll", "cancel", "market", "confirm"} \cup Ended
    /\ status \in {"none", "open", "filled", "canceled"}
    /\ filled \in 0 .. Qty /\ bought \in 0 .. Qty /\ seen \in 0 .. Qty
    /\ polls \in 0 .. MaxPolls
    /\ result \in 0 .. Qty
    /\ status = "filled" <=> filled = Qty
    /\ status = "none" => pc \in {"place", "raised"}

Init ==
    /\ pc = "place" /\ status = "none"
    /\ filled = 0 /\ bought = 0 /\ seen = 0 /\ polls = 0 /\ result = 0

-----------------------------------------------------------------------------
(* The exchange.                                                           *)

Fill ==
    /\ status = "open"
    /\ \E n \in 1 .. Qty - filled :
        /\ filled' = filled + n
        /\ status' = IF filled + n = Qty THEN "filled" ELSE "open"
    /\ UNCHANGED <<pc, bought, seen, polls, result>>

(* The order ends without filling, for instance when it expires. *)
OrderEnds ==
    /\ status = "open"
    /\ status' = "canceled"
    /\ UNCHANGED <<pc, filled, bought, seen, polls, result>>

-----------------------------------------------------------------------------
(* The entry thread.                                                       *)

Return(qty) == pc' = "returned" /\ result' = qty
Raise == pc' = "raised" /\ UNCHANGED result

Place ==
    /\ pc = "place"
    /\ status' = "open"
    /\ \/ pc' = "poll"
       \/ "lost_answer" \in Faults /\ pc' = "raised"
    /\ UNCHANGED <<filled, bought, seen, polls, result>>

(* Any request but a cancellation raises to the caller when it fails. *)
RequestFails ==
    /\ pc \in {"place", "poll", "market", "confirm"}
    /\ pc = "market" => seen < Qty
    /\ "refused" \in Faults
    /\ Raise
    /\ UNCHANGED <<exchange, seen, polls>>

(* One futures_get_order of the loop of place_limit_with_market_fallback. *)
PollFallback ==
    /\ pc = "poll" /\ ~LimitOnly /\ polls < MaxPolls
    /\ seen' = filled
    /\ polls' = polls + 1
    /\ IF status = "filled" THEN Return(filled) ELSE UNCHANGED <<pc, result>>
    /\ UNCHANGED exchange

(* One of wait_for_fill. *)
PollLimit ==
    /\ pc = "poll" /\ LimitOnly /\ polls < MaxPolls
    /\ polls' = polls + 1
    /\ pc' = CASE status = "filled"   -> "confirm"
               [] status = "canceled" -> "cancel"
               [] status = "open"     -> "poll"
    /\ UNCHANGED <<exchange, seen, result>>

(* The deadline passes; limit_timeout_sec is 1 at least, enough for one poll. *)
GiveUp ==
    /\ pc = "poll" /\ polls > 0
    /\ pc' = "cancel"
    /\ UNCHANGED <<exchange, seen, polls, result>>

(* What the cancellation leaves of the order. *)
CancelLimit == status' = IF status = "open" THEN "canceled" ELSE status

(* What _place_limit_only reports of an order it gave up. *)
Unfilled_Asked == Qty
Unfilled == 0

(* A failed cancellation is swallowed in both styles. *)
Cancel ==
    /\ pc = "cancel"
    /\ \/ CancelLimit
       \/ "lost_cancel" \in Faults /\ UNCHANGED status
    /\ IF LimitOnly THEN Return(Unfilled) ELSE pc' = "market" /\ UNCHANGED result
    /\ UNCHANGED <<filled, bought, seen, polls>>

Remaining == Qty - seen    \* remaining_qty

(* executed_qty with the market order's. *)
Executed(reported) == seen + reported

(* The market order fills; an early answer reports less than it bought. *)
Market ==
    /\ pc = "market"
    /\ bought' = Remaining
    /\ \/ \E reported \in 0 .. Remaining :
            /\ reported < Remaining => "early_answer" \in Faults
            /\ Return(Executed(reported))
       \/ "lost_answer" \in Faults /\ Remaining > 0 /\ Raise
    /\ UNCHANGED <<status, filled, seen, polls>>

(* _place_limit_only asks once more for the quantity. *)
Confirm ==
    /\ pc = "confirm"
    /\ Return(filled)
    /\ UNCHANGED <<exchange, seen, polls>>

Step ==
    \/ Place \/ RequestFails \/ PollFallback \/ PollLimit \/ GiveUp
    \/ Cancel \/ Market \/ Confirm

Next == Fill \/ OrderEnds \/ Step

Spec == Init /\ [][Next]_vars

(* The thread is never blocked: each request has a timeout of its own. *)
FairSpec == Spec /\ WF_vars(Step)

-----------------------------------------------------------------------------
(* Properties.                                                             *)

Unseen == filled - seen

(* Whatever the exchange fills between the requests, the quantity reported to
   the monitor is what is held but for the lots the limit order filled after
   the last look at it (execution.py:310-345). *)
OnlyUnseenMissing ==
    pc = "returned" /\ ~LimitOnly => Held = result + Unseen

(* An entry is never reported larger than it is, so the protection orders
   cannot exceed the position (services/entry_service.py:699). *)
ReportIsHeld == pc = "returned" => result <= Held

(* An entry that returns leaves no order of its own that could still fill,
   as long as its cancellation is heard (execution.py:322). *)
NothingRests == pc = "returned" => status # "open"

(* The entry ends, and with it the hold on the entry lock of all symbols. *)
Ends == <>(pc \in Ended)

(* "Try maker entry first, then complete remaining quantity via market."
   (execution.py:297): the entry is not larger than the quantity asked for. *)
NoOverfill == Held <= Qty

(* "skip %s reason=entry_not_filled" (services/entry_service.py:753): an entry
   reported as not filled holds nothing. *)
NotFilledHoldsNothing == pc = "returned" /\ result = 0 => Held = 0
=============================================================================

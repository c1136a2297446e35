--------------------------- MODULE TelegramService ---------------------------
(***************************************************************************)
(* services.telegram_service: every alert is sent by a thread of its own   *)
(* (entry_service._broadcast_signal_alerts), which takes turns with the    *)
(* others under _send_lock and repeats what fails.                         *)
(*                                                                         *)
(* Time is counted down in units, rounded up to whole ones; a tick may fall*)
(* anywhere, so waiting takes at least the time asked for.                 *)
(***************************************************************************)
EXTENDS Integers, FiniteSets

CONSTANTS
    Messages,
    NoMessage,
    Attempts,      \* 5 in the code
    MinInterval,   \* min_interval_sec
    RetryAfter,    \* what an HTTP 429 asks for
    Outcomes       \* subset of {"sent", "limited", "error"}

(* Assumed of the constants, by the modules that instantiate this one. *)
TelegramAssumption ==
    /\ NoMessage \notin Messages
    /\ Attempts \in Nat \ {0} /\ MinInterval \in Nat \ {0} /\ RetryAfter \in Nat \ {0}
    /\ Outcomes \subseteq {"sent", "limited", "error"}

VARIABLES
    pc,       \* per message
    attempt,
    wait,     \* what is left of its sleep
    lock,     \* _send_lock
    quiet,    \* time since the last message that was sent, up to MinInterval
    barred    \* Telegram: what is left of the last Retry-After

vars == <<pc, attempt, wait, lock, quiet, barred>>

TypeOK ==
    /\ pc \in [Messages -> {"new", "lock", "turn", "post", "sleep", "sent", "failed"}]
    /\ attempt \in [Messages -> 1 .. Attempts + 1]
    /\ wait \in [Messages -> Nat]
    /\ lock \in Messages \cup {NoMessage}
    /\ \A m \in Messages : pc[m] \in {"turn", "post"} <=> lock = m
    /\ quiet \in 0 .. MinInterval
    /\ barred \in 0 .. RetryAfter

Init ==
    /\ pc = [m \in Messages |-> "new"]
    /\ attempt = [m \in Messages |-> 1]
    /\ wait = [m \in Messages |-> 0]
    /\ lock = NoMessage
    /\ quiet = MinInterval
    /\ barred = 0

Goto(m, l) == pc' = [pc EXCEPT ![m] = l]

Send(m) ==
    /\ pc[m] = "new"
    /\ Goto(m, "lock")
    /\ UNCHANGED <<attempt, wait, lock, quiet, barred>>

(* wait_sec; the mutant does not wait. *)
WaitSec_None == 0
WaitSec == MinInterval - quiet

(* `with self._send_lock', then the wait. *)
TakeTurn(m) ==
    /\ pc[m] = "lock" /\ lock = NoMessage
    /\ lock' = m
    /\ wait' = [wait EXCEPT ![m] = WaitSec]
    /\ Goto(m, "turn")
    /\ UNCHANGED <<attempt, quiet, barred>>

Post(m) ==
    /\ pc[m] = "turn" /\ wait[m] = 0
    /\ Goto(m, "post")
    /\ UNCHANGED <<attempt, wait, lock, quiet, barred>>

Sent(m) ==
    /\ pc[m] = "post" /\ "sent" \in Outcomes
    /\ Goto(m, "sent")
    /\ lock' = NoMessage
    /\ quiet' = 0
    /\ UNCHANGED <<attempt, wait, barred>>

(* The number of the attempt after a 429; the mutant does not count it. *)
AfterLimit_Same(n) == n
AfterLimit(n) == n + 1

(* HTTP 429: this thread sleeps, after its last attempt as well. *)
Limited(m) ==
    /\ pc[m] = "post" /\ "limited" \in Outcomes
    /\ Goto(m, "sleep")
    /\ attempt' = [attempt EXCEPT ![m] = AfterLimit(attempt[m])]
    /\ wait' = [wait EXCEPT ![m] = RetryAfter]
    /\ lock' = NoMessage
    /\ barred' = RetryAfter
    /\ UNCHANGED quiet

Errs(m) ==
    /\ pc[m] = "post" /\ "error" \in Outcomes
    /\ lock' = NoMessage
    /\ attempt' = [attempt EXCEPT ![m] = @ + 1]
    /\ IF attempt[m] < Attempts
       THEN Goto(m, "sleep") /\ wait' = [wait EXCEPT ![m] = attempt[m]]
       ELSE Goto(m, "failed") /\ UNCHANGED wait
    /\ UNCHANGED <<quiet, barred>>

Wake(m) ==
    /\ pc[m] = "sleep" /\ wait[m] = 0
    /\ Goto(m, IF attempt[m] > Attempts THEN "failed" ELSE "lock")
    /\ UNCHANGED <<attempt, wait, lock, quiet, barred>>

Down(n) == IF n = 0 THEN 0 ELSE n - 1

Tick ==
    /\ wait' = [m \in Messages |-> Down(wait[m])]
    /\ quiet' = IF quiet < MinInterval THEN quiet + 1 ELSE quiet
    /\ barred' = Down(barred)
    /\ UNCHANGED <<pc, attempt, lock>>

Step(m) ==
    \/ Send(m) \/ TakeTurn(m) \/ Post(m) \/ Sent(m) \/ Limited(m) \/ Errs(m) \/ Wake(m)

Next == Tick \/ \E m \in Messages : Step(m)

Spec == Init /\ [][Next]_vars

(* Time passes, a request is answered or times out, and the number of messages
   is finite, so a thread that waits for the lock gets it. *)
FairSpec == Spec /\ WF_vars(Tick) /\ \A m \in Messages : WF_vars(Step(m))

-----------------------------------------------------------------------------
(* Properties.                                                             *)

(* Whoever sends, a message is posted MinInterval after the last one that was
   sent at the earliest (services/telegram_service.py:83-87). *)
SendsSpaced == \A m \in Messages : pc[m] = "post" => quiet = MinInterval

(* Every message is sent or given up, and none keeps the others from their turn
   (services/telegram_service.py:81-117). *)
SendsEnd == \A m \in Messages : pc[m] = "lock" ~> pc[m] \in {"sent", "failed"}

(* "Rate-limited Telegram sender with retries."
   (services/telegram_service.py:47): nothing is posted before the time a 429
   has asked for is over. *)
RetryAfterHonoured == \A m \in Messages : pc[m] = "post" => barred = 0
=============================================================================

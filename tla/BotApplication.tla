--------------------------- MODULE BotApplication ---------------------------
(***************************************************************************)
(* services.runtime_controller.BotApplication with bootstrap_runtime and   *)
(* resume_orphaned_positions: a process starts, cleans up or recovers what *)
(* an earlier one left on the exchange, trades, and ends by a signal or a  *)
(* crash; the container starts it again.                                   *)
(*                                                                         *)
(* Components with a module of their own are reduced to what crosses a     *)
(* restart: an entry is an order that fills or is given up and, if it is   *)
(* reported as filled, launches a monitor (EntryService, EntryOrder); a    *)
(* monitor protects its position and reports its close (PositionMonitor);  *)
(* the risk state is the number of trades it has seen (RiskManager).       *)
(*                                                                         *)
(* Bounds for TLC: MaxTrades closes, MaxStarts processes.                  *)
(***************************************************************************)
EXTENDS Integers, FiniteSets

CONSTANTS
    Symbols,
    NoSymbol,
    Universes,    \* the symbol universes load_symbol_universe may return
    Faults,       \* what may go wrong, subset of AllFaults
    LimitOnly,    \* settings.use_limit_only
    DieInEntry,   \* a process may end while an entry order is working
    Crashes,      \* a process may end without a shutdown
    MaxTrades, MaxStarts

(* positions, orders, orphans, executor, save: that request fails
   entry: a request of an entry fails, loses its answer or is answered early
   price_at_stop: the average fill price of an entry equals its stop        *)
AllFaults ==
    {"positions", "orders", "orphans", "executor", "save", "entry", "price_at_stop"}

(* Assumed of the constants, by the modules that instantiate this one. *)
ApplicationAssumption ==
    /\ IsFiniteSet(Symbols) /\ NoSymbol \notin Symbols
    /\ Universes \subseteq SUBSET Symbols /\ Universes # {}
    /\ Faults \subseteq AllFaults
    /\ LimitOnly \in BOOLEAN /\ DieInEntry \in BOOLEAN /\ Crashes \in BOOLEAN
    /\ MaxTrades \in Nat /\ MaxStarts \in Nat

VARIABLES
    pc,         \* the main thread
    signalled,  \* shutdown_event
    universe,   \* runtime.symbols
    orphans,    \* positions resume_orphaned_positions has still to resume
    scheduler,  \* the scheduler thread runs
    entering,   \* symbol of the entry in the works, or NoSymbol
    monitors,   \* symbols with a monitor thread
    trades,     \* trades the risk manager has seen
    disk,       \* the same, in logs/risk_state.json
    position,   \* exchange: symbols with a position
    order,      \* exchange: symbols with a working entry order
    protected,  \* exchange: symbols with TP and SL orders
    starts

exchange == <<position, order, protected>>
threads == <<scheduler, entering, monitors>>
vars == <<pc, signalled, universe, orphans, threads, trades, disk, exchange, starts>>

TypeOK ==
    /\ pc \in {"down", "positions", "orders", "cleanup", "handlers", "fetch", "resume",
               "start", "run", "save", "stop", "exit"}
    /\ signalled \in BOOLEAN
    /\ universe \in Universes
    /\ orphans \subseteq Symbols /\ (orphans # {} => pc = "resume")
    /\ scheduler \in BOOLEAN /\ (scheduler => pc \in {"run", "save", "stop"})
    /\ entering \in Symbols \cup {NoSymbol}
    /\ monitors \subseteq Symbols
    /\ trades \in 0 .. MaxTrades /\ disk \in 0 .. MaxTrades
    /\ position \subseteq Symbols /\ order \subseteq Symbols
    /\ protected \subseteq Symbols
    /\ starts \in 0 .. MaxStarts

Init ==
    /\ pc = "down" /\ signalled = FALSE
    /\ universe \in Universes
    /\ orphans = {} /\ scheduler = FALSE /\ entering = NoSymbol /\ monitors = {}
    /\ trades = 0 /\ disk = 0
    /\ position = {} /\ order = {} /\ protected = {}
    /\ starts = 0

-----------------------------------------------------------------------------
(* Startup.                                                                *)

(* risk.load. *)
Load == trades' = disk

Boot ==
    /\ pc = "down" /\ starts < MaxStarts
    /\ pc' = "positions"
    /\ starts' = starts + 1
    /\ universe' \in Universes
    /\ Load
    /\ UNCHANGED <<signalled, orphans, threads, disk, exchange>>

(* has_any_position_or_entry_order: a failed request counts as a yes; the
   mutant takes it for a no. *)
AfterFailedRead_No == "cleanup"
AfterFailedRead == "handlers"

Goto(l) == pc' = l

ReadPositions ==
    /\ pc = "positions"
    /\ \/ Goto(IF position = {} THEN "orders" ELSE "handlers")
       \/ "positions" \in Faults /\ Goto(AfterFailedRead)
    /\ UNCHANGED <<signalled, universe, orphans, threads, trades, disk, exchange, starts>>

ReadOrders ==
    /\ pc = "orders"
    /\ \/ Goto(IF order = {} THEN "cleanup" ELSE "handlers")
       \/ "orders" \in Faults /\ Goto(AfterFailedRead)
    /\ UNCHANGED <<signalled, universe, orphans, threads, trades, disk, exchange, starts>>

(* cleanup_open_orders; a symbol whose request fails keeps its orders. *)
Cleanup ==
    /\ pc = "cleanup"
    /\ \E failed \in SUBSET universe :
        /\ failed # {} => "orders" \in Faults
        /\ order' = order \ (universe \ failed)
        /\ protected' = protected \ (universe \ failed)
    /\ Goto("handlers")
    /\ UNCHANGED <<signalled, universe, orphans, threads, trades, disk, position, starts>>

(* The rest of _bootstrap, and _install_signal_handlers. *)
InstallHandlers ==
    /\ pc = "handlers"
    /\ Goto("fetch")
    /\ UNCHANGED <<signalled, universe, orphans, threads, trades, disk, exchange, starts>>

(* resume_orphaned_positions. *)
FetchOrphans ==
    /\ pc = "fetch"
    /\ \/ Goto("resume") /\ orphans' = position
       \/ "orphans" \in Faults /\ Goto("start") /\ UNCHANGED orphans
    /\ UNCHANGED <<signalled, universe, threads, trades, disk, exchange, starts>>

(* The orphans left after s; the mutant resumes one and no other. *)
OrphansAfter_None(s) == {}
OrphansAfter(s) == orphans \ {s}

(* resume_orphan_position: the monitor of a symbol of the universe restores TP
   and SL; a position that closed meanwhile it reports. *)
ResumeOrphan(s) ==
    /\ pc = "resume" /\ s \in orphans
    /\ orphans' = OrphansAfter(s)
    /\ monitors' = monitors \cup ({s} \cap universe)
    /\ protected' = protected \cup ({s} \cap universe \cap position)
    /\ UNCHANGED <<pc, signalled, universe, scheduler, entering, trades, disk, position,
                   order, starts>>

(* get_executor raises, and the orphans after it are not resumed either. *)
ResumeRaises ==
    /\ pc = "resume" /\ orphans # {}
    /\ "executor" \in Faults
    /\ orphans' = {}
    /\ Goto("start")
    /\ UNCHANGED <<signalled, universe, threads, trades, disk, exchange, starts>>

ResumeEnds ==
    /\ pc = "resume" /\ orphans = {}
    /\ Goto("start")
    /\ UNCHANGED <<signalled, universe, orphans, threads, trades, disk, exchange, starts>>

StartScheduler ==
    /\ pc = "start"
    /\ Goto("run")
    /\ scheduler' = TRUE
    /\ UNCHANGED <<signalled, universe, orphans, entering, monitors, trades, disk, exchange,
                   starts>>

-----------------------------------------------------------------------------
(* The other threads and the exchange.                                     *)

(* An entry of a symbol that has no position; what rested is cancelled. *)
SubmitEntry(s) ==
    /\ scheduler /\ entering = NoSymbol
    /\ s \in universe \ position
    /\ entering' = s
    /\ order' = order \cup {s}
    /\ protected' = protected \ {s}
    /\ UNCHANGED <<pc, signalled, universe, orphans, scheduler, monitors, trades, disk,
                   position, starts>>

OrderFills(s) ==
    /\ s \in order \ position
    /\ position' = position \cup {s}
    /\ order' = order \ {s}
    /\ UNCHANGED <<pc, signalled, universe, orphans, threads, trades, disk, protected, starts>>

(* An entry may hold a position and be reported with filled_qty = 0: with
   use_limit_only a fill between the last poll and the cancellation is, and
   so is one whose request failed or was answered before the order filled. *)
MayReportNothing == LimitOnly \/ "entry" \in Faults

(* Its order is filled or cancelled; a cancellation that fails is passed over. *)
EntryOver ==
    /\ entering # NoSymbol
    /\ entering' = NoSymbol
    /\ \/ order' = order \ {entering}
       \/ "entry" \in Faults /\ UNCHANGED order
    /\ UNCHANGED <<pc, signalled, universe, orphans, scheduler, trades, disk, position, starts>>

LaunchMonitor ==
    /\ EntryOver
    /\ entering \in position
    /\ monitors' = monitors \cup {entering}
    /\ protected' = protected \cup {entering}

(* entry_not_filled, or order_placement failed. *)
NotFilled ==
    /\ EntryOver
    /\ entering \in position => MayReportNothing
    /\ UNCHANGED <<monitors, protected>>

(* post_fill_risk_invalid: the fill stands, no monitor is launched. *)
PriceAtStop ==
    /\ EntryOver
    /\ "price_at_stop" \in Faults /\ entering \in position
    /\ UNCHANGED <<monitors, protected>>

EntryEnds == LaunchMonitor \/ NotFilled \/ PriceAtStop

(* TP or SL triggers. *)
PositionCloses(s) ==
    /\ s \in position \cap protected
    /\ position' = position \ {s}
    /\ protected' = protected \ {s}
    /\ UNCHANGED <<pc, signalled, universe, orphans, threads, trades, disk, order, starts>>

(* The monitor reports the trade to the risk manager. *)
MonitorReports(s) ==
    /\ s \in monitors \ position
    /\ trades < MaxTrades
    /\ monitors' = monitors \ {s}
    /\ trades' = trades + 1
    /\ UNCHANGED <<pc, signalled, universe, orphans, scheduler, entering, disk, exchange, starts>>

-----------------------------------------------------------------------------
(* The end of a process.                                                   *)

(* All threads are daemons: they end with the main thread. *)
ProcessEnds ==
    /\ entering # NoSymbol => DieInEntry
    /\ pc' = "down" /\ signalled' = FALSE
    /\ scheduler' = FALSE /\ entering' = NoSymbol /\ monitors' = {}
    /\ orphans' = {}
    /\ UNCHANGED <<universe, disk, exchange, starts>>

(* Before the handlers are installed a signal ends the process. *)
Unhandled == {"positions", "orders", "cleanup", "handlers"}

Signal ==
    /\ pc \notin {"down"} \cup Unhandled
    /\ signalled' = TRUE
    /\ UNCHANGED <<pc, universe, orphans, threads, trades, disk, exchange, starts>>

SignalKills ==
    /\ pc \in Unhandled
    /\ ProcessEnds
    /\ UNCHANGED trades

Crash ==
    /\ Crashes /\ pc # "down"
    /\ ProcessEnds
    /\ UNCHANGED trades

(* The heartbeat loop notices the event; the mutant waits for the monitors. *)
MayStop_Idle == signalled /\ monitors = {}
MayStop == signalled

LoopEnds ==
    /\ pc = "run" /\ MayStop
    /\ Goto("save")
    /\ UNCHANGED <<signalled, universe, orphans, threads, trades, disk, exchange, starts>>

(* _shutdown: risk.save, whose OSError is logged ... *)
SaveRisk ==
    /\ pc = "save"
    /\ \/ disk' = trades
       \/ "save" \in Faults /\ UNCHANGED disk
    /\ Goto("stop")
    /\ UNCHANGED <<signalled, universe, orphans, threads, trades, exchange, starts>>

(* ... then stream.stop, which waits 5 s for the scheduler thread at most. *)
StopStream ==
    /\ pc = "stop"
    /\ scheduler' = FALSE
    /\ Goto("exit")
    /\ UNCHANGED <<signalled, universe, orphans, entering, monitors, trades, disk, exchange,
                   starts>>

Exit ==
    /\ pc = "exit"
    /\ ProcessEnds
    /\ UNCHANGED trades

MainStep ==
    \/ Boot \/ ReadPositions \/ ReadOrders \/ Cleanup \/ InstallHandlers
    \/ FetchOrphans \/ ResumeRaises \/ ResumeEnds \/ (\E s \in Symbols : ResumeOrphan(s))
    \/ StartScheduler \/ LoopEnds \/ SaveRisk \/ StopStream \/ Exit

Environment ==
    \/ \E s \in Symbols :
        SubmitEntry(s) \/ OrderFills(s) \/ PositionCloses(s) \/ MonitorReports(s)
    \/ Signal \/ SignalKills \/ Crash

Next == MainStep \/ EntryEnds \/ Environment

Spec == Init /\ [][Next]_vars

(* The main thread is not blocked, an entry ends (EntryOrder), and the
   container starts the process again. *)
FairSpec == Spec /\ WF_vars(MainStep) /\ WF_vars(EntryEnds)

-----------------------------------------------------------------------------
(* Properties.                                                             *)

(* A restart, whatever of its requests fail, does not take the TP and SL of a
   position away (services/position_service.py:68-84, bootstrap_service.py:351). *)
KeepsProtection ==
    \A s \in position \cap position' : s \in protected => s \in protected'

ProtectionKept == [][KeepsProtection]_vars

(* Once the scheduler runs, each position is in the hands of a monitor or of
   the entry that opened it: "Recover orphaned open positions and attach
   monitors." (services/position_service.py:174). An entry that may report
   nothing (services/entry_service.py:745) or ends at its stop (766) breaks it. *)
PositionsWatched ==
    pc = "run" => position \subseteq monitors \cup {entering}

(* A signal ends the process, whatever the other threads are doing
   (services/runtime_controller.py:36-45). *)
StopsOnSignal == signalled ~> pc = "down"

(* "Risk state is persisted to logs/risk_state.json and reloaded automatically
   on restart." (DEPLOY.md:50): a process that was asked to stop leaves no
   trade out. *)
ShutdownSavesAll == pc = "exit" => disk = trades
=============================================================================

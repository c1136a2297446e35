-------------------------- MODULE ExecutorRegistry --------------------------
(***************************************************************************)
(* get_executor of services.bootstrap_service with FuturesExecutor.setup,  *)
(* and the ExchangeMetadataService its executors read their filters from.  *)
(*                                                                         *)
(* The scheduler thread, the follow-up timers and the orphan recovery each *)
(* ask for the executor of a symbol and then for the symbol's filters.     *)
(* executors_lock is held through the requests of setup; the lock of the   *)
(* metadata service is an RLock, which its lazy load takes a second time.  *)
(* Only the live mode is modelled: in paper mode setup does nothing.       *)
(*                                                                         *)
(* Bound for TLC: MaxCalls calls in all.                                   *)
(***************************************************************************)
EXTENDS Integers, FiniteSets

CONSTANTS
    Threads, Symbols,
    NoThread,
    Leverage,     \* settings.leverage
    Limits,       \* leverage limits a symbol may have on the exchange, 0 if it takes none
    RiskLots,     \* lots at which the stop costs the risk budget
    Faults,       \* subset of AllFaults
    MaxCalls

(* "margin" and "leverage" fail without effect, "lost" sets the leverage and
   loses the answer, "metadata" is a failed futures_exchange_info. *)
AllFaults == {"margin", "leverage", "lost", "metadata"}

(* Assumed of the constants, by the module that extends or instantiates this one. *)
RegistryAssumption ==
    /\ NoThread \notin Threads
    /\ Symbols # {}
    /\ Leverage \in Nat \ {0}
    /\ Limits \subseteq Nat /\ Limits # {}
    /\ RiskLots \in Nat \ {0}
    /\ Faults \subseteq AllFaults
    /\ MaxCalls \in Nat

VARIABLES
    pc, symbol, lev,   \* per thread: its step, its symbol, the leverage tried
    executors,         \* symbol -> leverage of its executor, 0 without one
    executorsLock,
    loaded,            \* the metadata service has loaded
    metadataLock,
    limit,             \* exchange: the highest leverage of each symbol
    held,              \* exchange: symbols with a position since before
    leverage,          \* exchange: leverage set by this process, 0 without one
    isolated,          \* exchange: symbols with the requested margin type
    calls

local == <<pc, symbol, lev>>
registry == <<executors, executorsLock>>
metadata == <<loaded, metadataLock>>
account == <<leverage, isolated>>
market == <<limit, held>>
vars == <<local, registry, metadata, account, market, calls>>

InSetup == {"margin", "leverage"}

TypeOK ==
    /\ pc \in [Threads -> {"idle", "lock", "filters", "load"} \cup InSetup]
    /\ symbol \in [Threads -> Symbols]
    /\ lev \in [Threads -> 1 .. Leverage]
    /\ executors \in [Symbols -> 0 .. Leverage]
    /\ executorsLock \in Threads \cup {NoThread}
    /\ loaded \in BOOLEAN
    /\ metadataLock \in Threads \cup {NoThread}
    /\ limit \in [Symbols -> Limits]
    /\ held \subseteq Symbols
    /\ leverage \in [Symbols -> 0 .. Leverage]
    /\ isolated \subseteq Symbols
    /\ calls \in 0 .. MaxCalls

Init ==
    /\ pc = [t \in Threads |-> "idle"]
    /\ symbol \in [Threads -> {CHOOSE s \in Symbols : TRUE}]
    /\ lev = [t \in Threads |-> Leverage]
    /\ executors = [s \in Symbols |-> 0] /\ executorsLock = NoThread
    /\ loaded = FALSE /\ metadataLock = NoThread
    /\ limit \in [Symbols -> Limits]
    /\ held \in SUBSET Symbols
    /\ leverage = [s \in Symbols |-> 0]
    /\ isolated \in SUBSET Symbols
    /\ calls = 0

Goto(t, l) == pc' = [pc EXCEPT ![t] = l]

-----------------------------------------------------------------------------
(* get_executor. *)

Call(t, s) ==
    /\ pc[t] = "idle" /\ calls < MaxCalls
    /\ Goto(t, "lock")
    /\ symbol' = [symbol EXCEPT ![t] = s]
    /\ lev' = [lev EXCEPT ![t] = Leverage]
    /\ calls' = calls + 1
    /\ UNCHANGED <<registry, metadata, account, market>>

(* `with executors_lock' *)
LockFree == executorsLock = NoThread

FoundExecutor(t) ==
    /\ pc[t] = "lock" /\ LockFree
    /\ executors[symbol[t]] # 0
    /\ Goto(t, "filters")
    /\ UNCHANGED <<symbol, lev, registry, metadata, account, market, calls>>

NewExecutor(t) ==
    /\ pc[t] = "lock" /\ LockFree
    /\ executors[symbol[t]] = 0
    /\ executorsLock' = t
    /\ Goto(t, "margin")
    /\ UNCHANGED <<symbol, lev, executors, metadata, account, market, calls>>

(* Symbols whose margin type is the requested one after the request for s. *)
MarginTypeAfter(s) == isolated \cup ({s} \ held)

(* setup: any failure of the margin type request is passed over. *)
ChangeMarginType(t) ==
    /\ pc[t] = "margin"
    /\ \/ isolated' = MarginTypeAfter(symbol[t])
       \/ "margin" \in Faults /\ UNCHANGED isolated
    /\ Goto(t, "leverage")
    /\ UNCHANGED <<symbol, lev, registry, metadata, leverage, market, calls>>

(* The next leverage after a rejection with -4028; the mutant forgets to stop
   at one. *)
StepDown_Unbounded(l) == l - 5
StepDown(l) == IF l > 6 THEN l - 5 ELSE 1

(* At one there is nothing left to try; the mutant tries it again. *)
MayStepDown_AtOne(l) == TRUE
MayStepDown(l) == l > 1

LeverageRejected(t) ==
    /\ pc[t] = "leverage"
    /\ lev[t] > limit[symbol[t]] /\ MayStepDown(lev[t])
    /\ lev' = [lev EXCEPT ![t] = StepDown(lev[t])]
    /\ UNCHANGED <<pc, symbol, registry, metadata, account, market, calls>>

(* The leverage the executor keeps; the mutant keeps that of the settings. *)
Kept_Configured(l) == Leverage
Kept(l) == l

LeverageAccepted(t) ==
    /\ pc[t] = "leverage"
    /\ lev[t] <= limit[symbol[t]]
    /\ leverage' = [leverage EXCEPT ![symbol[t]] = lev[t]]
    /\ executors' = [executors EXCEPT ![symbol[t]] = Kept(lev[t])]
    /\ executorsLock' = NoThread
    /\ Goto(t, "filters")
    /\ UNCHANGED <<symbol, lev, metadata, isolated, market, calls>>

(* setup raises, and no executor is stored: another error than -4028, a lost
   answer, or a leverage of one rejected. *)
SetupRaises(t) ==
    /\ pc[t] = "leverage"
    /\ \/ "leverage" \in Faults /\ UNCHANGED leverage
       \/ /\ lev[t] > limit[symbol[t]] /\ ~MayStepDown(lev[t])
          /\ UNCHANGED leverage
       \/ /\ "lost" \in Faults /\ lev[t] <= limit[symbol[t]]
          /\ leverage' = [leverage EXCEPT ![symbol[t]] = lev[t]]
    /\ executorsLock' = NoThread
    /\ Goto(t, "idle")
    /\ UNCHANGED <<symbol, lev, executors, metadata, isolated, market, calls>>

-----------------------------------------------------------------------------
(* ExchangeMetadataService._get_symbol, from get_min_qty.                  *)

(* The call is over, whether the symbol is known or not; that an executor keeps
   the filters it has read is left out. *)
ReadFilters(t) ==
    /\ pc[t] = "filters"
    /\ metadataLock = NoThread /\ loaded
    /\ Goto(t, "idle")
    /\ UNCHANGED <<symbol, lev, registry, metadata, account, market, calls>>

(* _ensure_loaded_locked *)
StartLoad(t) ==
    /\ pc[t] = "filters"
    /\ metadataLock = NoThread /\ ~loaded
    /\ metadataLock' = t
    /\ Goto(t, "load")
    /\ UNCHANGED <<symbol, lev, registry, loaded, account, market, calls>>

(* load takes the lock its own thread holds: "RLock allows this call pattern
   safely."  The mutant is a plain Lock. *)
MayTake_Plain(lock, t) == lock = NoThread
MayTake(lock, t) == lock \in {NoThread, t}

Load(t) ==
    /\ pc[t] = "load" /\ MayTake(metadataLock, t)
    /\ \/ loaded' = TRUE
       \/ "metadata" \in Faults /\ UNCHANGED loaded
    /\ metadataLock' = NoThread
    /\ Goto(t, "idle")
    /\ UNCHANGED <<symbol, lev, registry, account, market, calls>>

Step(t) ==
    \/ FoundExecutor(t) \/ NewExecutor(t)
    \/ ChangeMarginType(t) \/ LeverageRejected(t) \/ LeverageAccepted(t) \/ SetupRaises(t)
    \/ ReadFilters(t) \/ StartLoad(t) \/ Load(t)

Next == \E t \in Threads : Step(t) \/ \E s \in Symbols : Call(t, s)

Spec == Init /\ [][Next]_vars

(* Each request ends, by an answer or a time-out, and a thread that waits for a
   lock gets it when it stays free. *)
FairSpec == Spec /\ \A t \in Threads : WF_vars(Step(t))

-----------------------------------------------------------------------------
(* risk_based sizing: the margin of RiskLots at the leverage of the settings,
   turned into lots at the leverage of the executor; prices cancel out. *)
SizedLots(l) == (RiskLots * l) \div Leverage

-----------------------------------------------------------------------------
(* Properties.                                                             *)

(* The leverage an executor sizes with is the one in force on the exchange
   (execution.py:229-232), lost answers and repeated setups notwithstanding. *)
LeverageAgrees ==
    \A s \in Symbols : executors[s] # 0 => leverage[s] = executors[s]

(* A symbol is set up by one thread at a time and never again once it has an
   executor (services/bootstrap_service.py:297). *)
SetupOnce ==
    \A t \in Threads : pc[t] \in InSetup =>
        /\ executors[symbol[t]] = 0
        /\ \A u \in Threads \ {t} : pc[u] \notin InSetup

(* Stepping down by five, setup ends less than five below the highest leverage
   the exchange would have taken (execution.py:235). *)
LeverageNotWasted ==
    \A s \in Symbols : executors[s] # 0 =>
        executors[s] = Leverage \/ executors[s] + 5 > limit[s]

(* Every call ends: setup steps down to a leverage that is taken or raises at
   one (execution.py:228-238), and the lazy load does not wait for its own lock
   (services/exchange_metadata_service.py:118). *)
CallsEnd == \A t \in Threads : pc[t] # "idle" ~> pc[t] = "idle"

(* "Silently tolerated: exchange rejects margin-type change when a position is
   already open or the symbol is already in the requested mode."
   (execution.py:224): a symbol without a position has the requested mode. *)
MarginTypeApplied ==
    \A s \in Symbols \ held : executors[s] # 0 => s \in isolated

(* "risk_based: sizes by risk budget derived from stop distance"
   (.env.example:46): the position risks its budget. *)
RiskBudgetUsed ==
    \A s \in Symbols : executors[s] # 0 => SizedLots(executors[s]) = RiskLots
=============================================================================

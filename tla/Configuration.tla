---------------------------- MODULE Configuration ----------------------------
(* How a process gets its settings and its symbols: config.load_env copies    *)
(* the .env file into the environment line by line, config.from_env reads the *)
(* environment, and bootstrap_service.load_symbol_universe asks the exchange  *)
(* what to scan, with two requests that may fail.                             *)
(*                                                                            *)
(* One setting of each kind stands for the others: a bounded integer, two     *)
(* bounded floats that must be in order, a switch and a list.  A text is what *)
(* is left of a line without its quotes and its comment.                      *)
EXTENDS Integers, Sequences, FiniteSets, FiniteSetsExt

CONSTANTS
    Environments,   \* environments a process may be started with
    Files,          \* .env files
    Symbols,        \* the pairs of the exchange
    Name, Volume,   \* their places in the alphabet and in volume
    Liquid,         \* those above the minimum price and volume
    TopCount,       \* top_volume_symbols_count
    Requests        \* the settings of the universe that are tried

Keys == {"MAX_HOLD_CANDLES", "RSI_LONG_MIN", "RSI_LONG_MAX", "BINANCE_TESTNET",
         "BLOCK_SELL_ON_INTERVALS"}
Numbers == {"0", "60", "200"}
Texts == Numbers \cup {"", "word", "true", "4h"}
Unset == "unset"

(* Assumed of the constants, by the modules that instantiate this one. *)
ConfigurationAssumption ==
    /\ Environments \subseteq [Keys -> Texts \cup {Unset}]
    /\ Files \subseteq Seq(Keys \X Texts)
    /\ IsFiniteSet(Symbols) /\ Liquid \subseteq Symbols
    /\ {Name, Volume} \subseteq [Symbols -> Nat]
    /\ \A s, r \in Symbols : Name[s] = Name[r] => s = r
    /\ TopCount \in Nat \ {0}
    /\ Requests \subseteq [asked : SUBSET Symbols, default : Symbols, useTop : BOOLEAN,
                           filtered : BOOLEAN, allow : SUBSET Symbols]

VARIABLES
    stage,      \* "file", "settings", "info", "tickers" or "ready"
    given,      \* history: the environment of the start
    lines,      \* the .env file
    environ,    \* os.environ
    settings,   \* of from_env
    request,    \* its part about the universe
    tradable,   \* what the exchange says is tradable, {} if it does not answer
    universe    \* of load_symbol_universe

vars == <<stage, given, lines, environ, settings, request, tradable, universe>>

Settings == [hold : Nat, rsiMin : 0 .. 100, rsiMax : 0 .. 100, testnet : BOOLEAN,
             blocked : SUBSET {"4h", "4H", "0", "60", "200", "WORD", "TRUE"}]
Defaults == [hold |-> 50, rsiMin |-> 48, rsiMax |-> 68, testnet |-> TRUE, blocked |-> {"4h"}]

TypeOK ==
    /\ stage \in {"file", "settings", "info", "tickers", "ready"}
    /\ {given, environ} \subseteq [Keys -> Texts \cup {Unset}]
    /\ settings \in Settings /\ settings.hold >= 1
    /\ {tradable, universe} \subseteq SUBSET Symbols
    /\ stage # "ready" => universe = {}

Init ==
    /\ stage = "file"
    /\ given \in Environments /\ environ = given
    /\ lines \in Files
    /\ settings = Defaults
    /\ request \in Requests
    /\ tradable = {} /\ universe = {}

-----------------------------------------------------------------------------
(* A line adds to the environment what it does not have yet. *)
Put(env, key, text) == IF env[key] = Unset THEN [env EXCEPT ![key] = text] ELSE env

ReadLine ==
    /\ stage = "file" /\ lines # << >>
    /\ environ' = Put(environ, Head(lines)[1], Head(lines)[2])
    /\ lines' = Tail(lines)
    /\ UNCHANGED <<stage, given, settings, request, tradable, universe>>

FileEnds ==
    /\ stage = "file" /\ lines = << >>
    /\ stage' = "settings"
    /\ UNCHANGED <<given, lines, environ, settings, request, tradable, universe>>

Number(text) == CASE text = "0" -> 0 [] text = "60" -> 60 [] text = "200" -> 200

(* _set_int and _set_float: clamped, or left alone if it is not a number. *)
Bounded(text, default, lowest, highest) ==
    IF text \in Numbers THEN Min({highest, Max({lowest, Number(text)})}) ELSE default

(* _set_bool and _parse_bool: any text but Unset decides, the empty one too. *)
Switch(text, default) == IF text = Unset THEN default ELSE text = "true"

(* _parse_list: upper-cased. *)
Upper(text) == CASE text = "4h" -> "4H" [] text = "word" -> "WORD" [] text = "true" -> "TRUE"
                 [] OTHER -> text
Listed(text, default) == IF text \in {Unset, ""} THEN default ELSE {Upper(text)}

(* The RSI bounds, swapped if they are the wrong way round. *)
InOrder(low, high) == [min |-> Min({low, high}), max |-> Max({low, high})]

FromEnv ==
    LET rsi == InOrder(Bounded(environ["RSI_LONG_MIN"], Defaults.rsiMin, 0, 100),
                       Bounded(environ["RSI_LONG_MAX"], Defaults.rsiMax, 0, 100))
    IN  /\ stage = "settings"
        /\ settings' = [hold    |-> Bounded(environ["MAX_HOLD_CANDLES"], Defaults.hold, 1, 10000),
                        rsiMin  |-> rsi.min, rsiMax |-> rsi.max,
                        testnet |-> Switch(environ["BINANCE_TESTNET"], Defaults.testnet),
                        blocked |-> Listed(environ["BLOCK_SELL_ON_INTERVALS"], Defaults.blocked)]
        /\ stage' = "info"
        /\ UNCHANGED <<given, lines, environ, request, tradable, universe>>

-----------------------------------------------------------------------------
(* SYMBOLS and EXTRA_SYMBOLS, or SYMBOL. *)
Explicit == IF request.asked = {} THEN {request.default} ELSE request.asked

(* futures_exchange_info; without an answer nothing more is asked. *)
ReadInfo ==
    /\ stage = "info"
    /\ \/ /\ tradable' \in (SUBSET Symbols) \ {{}}
          /\ IF ~request.useTop /\ Explicit \cap tradable' # {}
             THEN stage' = "ready" /\ universe' = Explicit \cap tradable'
             ELSE stage' = "tickers" /\ UNCHANGED universe
       \/ /\ stage' = "ready"
          /\ universe' = request.asked \cup {request.default}
          /\ UNCHANGED tradable
    /\ UNCHANGED <<given, lines, environ, settings, request>>

(* The first n of a set, by name or in falling order of volume if it is known. *)
Top(set, n, known) ==
    LET Before(s) == {r \in set : IF known /\ Volume[r] # Volume[s] THEN Volume[r] > Volume[s]
                                                                  ELSE Name[r] < Name[s]}
    IN  {s \in set : Cardinality(Before(s)) < n}

(* What passes the filter; without tickers every price is 0.  If nothing
   passes, the filter is off. *)
Passing(known) ==
    LET passing == IF ~request.filtered THEN tradable
                   ELSE IF known THEN tradable \cap Liquid ELSE {}
    IN  IF passing = {} THEN tradable ELSE passing

Ranked(known) == IF request.useTop THEN Top(Passing(known), TopCount, known) ELSE tradable

(* The allowlist and the explicit symbols come on top; the mutant forgets the
   latter. *)
Scanned_TopOnly(known) == Ranked(known) \cup (request.allow \cap tradable)
Scanned(known) == Ranked(known) \cup ((request.allow \cup Explicit) \cap tradable)

(* futures_ticker, which may not be answered. *)
ReadTickers ==
    /\ stage = "tickers"
    /\ \E known \in BOOLEAN : universe' = Scanned(known)
    /\ stage' = "ready"
    /\ UNCHANGED <<given, lines, environ, settings, request, tradable>>

Next == ReadLine \/ FileEnds \/ FromEnv \/ ReadInfo \/ ReadTickers

Spec == Init /\ [][Next]_vars

-----------------------------------------------------------------------------
(* However the environment and the file are written: the environment of the
   process is never overwritten, a default stands unless a text replaces it,
   and the settings that depend on each other stay in order and in bounds
   (config.py:128-144, 155-200, 376-378). *)
SettingsCoherent ==
    /\ \A k \in Keys : given[k] # Unset => environ[k] = given[k]
    /\ settings.rsiMin <= settings.rsiMax
    /\ \A k \in Keys : environ[k] = Unset =>
         CASE k = "MAX_HOLD_CANDLES"        -> settings.hold = Defaults.hold
           [] k = "BINANCE_TESTNET"         -> settings.testnet
           [] k = "BLOCK_SELL_ON_INTERVALS" -> settings.blocked = Defaults.blocked
           [] k = "RSI_LONG_MIN" -> Defaults.rsiMin \in {settings.rsiMin, settings.rsiMax}
           [] k = "RSI_LONG_MAX" -> Defaults.rsiMax \in {settings.rsiMin, settings.rsiMax}

(* Whatever the exchange answers and whatever it does not, a process has
   something to scan, all of what was asked for by name that is tradable, and
   beyond it no more than the top and the allowlist, or everything if the top
   is switched off (bootstrap_service.py:138-195). *)
UniverseHonest ==
    stage = "ready" =>
        /\ universe # {}
        /\ Explicit \cap tradable \subseteq universe
        /\ tradable # {} => universe \subseteq tradable
        /\ request.useTop =>
             Cardinality(universe \ (Explicit \cup request.allow \cup {request.default})) <= TopCount

(* "Close position at market after this many candles (0 = disabled)"
   (.env.example:93): refuted, 0 becomes 1. *)
ZeroDisablesHold ==
    stage = "info" /\ environ["MAX_HOLD_CANDLES"] = "0" => settings.hold = 0

(* "Comma-separated intervals where SELL signals are suppressed", as in
   BLOCK_SELL_ON_INTERVALS=4h (.env.example:97): refuted, the upper-cased name
   is compared with the interval (signal_service.py:226). *)
BlockedAsWritten ==
    stage = "info" /\ environ["BLOCK_SELL_ON_INTERVALS"] = "4h" => "4h" \in settings.blocked

(* Nobody trades live without having said so: refuted by an empty or a
   misspelt BINANCE_TESTNET (config.py:147-148, 189-193). *)
LiveOnlyIfAsked == environ["BINANCE_TESTNET"] \in {Unset, "", "word"} => settings.testnet

(* With a filter only liquid pairs are scanned unasked: refuted without tickers
   or when nothing passes (bootstrap_service.py:157-178). *)
OnlyLiquid ==
    stage = "ready" /\ request.useTop /\ request.filtered =>
        universe \subseteq Liquid \cup Explicit \cup request.allow \cup {request.default}
=============================================================================

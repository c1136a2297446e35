----------------------------- MODULE SignalScan -----------------------------
(***************************************************************************)
(* services.signal_service: evaluate_interval_signals scans the universe,  *)
(* and _cached_with_indicators gives each frame its indicators from a cache*)
(* whose entries are recognised by the length and the last row of a frame. *)
(*                                                                         *)
(* A frame is the window of the last `Window' rows of a series; a row is   *)
(* its number, and the indicators of a frame are the frame they were       *)
(* computed from.  Rows arrive at any moment (MarketDataStream: a refresh  *)
(* may be late), each one newer than the row before; what a strategy makes *)
(* of a frame is left open.                                                *)
(*                                                                         *)
(* Bounds for TLC: MaxRow rows of each series, MaxScans scans.             *)
(***************************************************************************)
EXTENDS Integers, Sequences, FiniteSets

CONSTANTS
    Universe,    \* sequence of symbols
    Kinds,       \* "main", and "context" when there is a context interval
    BlockSell,   \* the interval is in settings.block_sell_on_intervals
    Scores,
    Window, CacheMax,
    MaxRow, MaxScans

Symbols == {Universe[i] : i \in DOMAIN Universe}

(* Assumed of the constants, by the modules that instantiate this one. *)
ScanAssumption ==
    /\ Universe \in Seq(Symbols) /\ Universe # <<>>
    /\ \A i, j \in DOMAIN Universe : Universe[i] = Universe[j] => i = j
    /\ "main" \in Kinds /\ Kinds \subseteq {"main", "context"}
    /\ BlockSell \in BOOLEAN
    /\ Scores \subseteq Nat /\ Scores # {}
    /\ Window \in Nat \ {0} /\ CacheMax \in Nat \ {0}
    /\ MaxRow \in Nat /\ MaxScans \in Nat

VARIABLES
    frames,      \* stream: the frame of each symbol and kind
    pc,
    index,       \* position in the universe
    read,        \* the frames read for this symbol
    indicators,  \* the frames whose indicators it was given
    cache,       \* entries [key, frame], the earliest inserted first
    valid,       \* valid_signals
    scans

vars == <<frames, pc, index, read, indicators, cache, valid, scans>>

Frames == UNION {[1 .. n -> 1 .. MaxRow] : n \in 0 .. Window}
Entries == [key : Symbols \X Kinds, frame : Frames]
Candidates == [symbol : Symbols, side : {"BUY", "SELL"}, score : Scores]

TypeOK ==
    /\ frames \in [Symbols \X Kinds -> Frames]
    /\ pc \in {"idle", "main", "context", "evaluate", "sort"}
    /\ index \in 1 .. Len(Universe) + 1
    /\ read \in [Kinds -> Frames] /\ indicators \in [Kinds -> Frames]
    /\ Len(cache) <= CacheMax
    /\ \A i \in DOMAIN cache : cache[i] \in Entries
    /\ \A i, j \in DOMAIN cache : cache[i].key = cache[j].key => i = j
    /\ \A i \in DOMAIN valid : valid[i] \in Candidates
    /\ scans \in 0 .. MaxScans

NoFrames == [k \in Kinds |-> <<>>]

Init ==
    /\ frames = [sk \in Symbols \X Kinds |-> <<>>]
    /\ pc = "idle" /\ index = 1
    /\ read = NoFrames /\ indicators = NoFrames
    /\ cache = <<>> /\ valid = <<>>
    /\ scans = 0

-----------------------------------------------------------------------------
(* A new row of a series; a full window loses its first one. *)
NewRow(s, k) ==
    LET old == frames[<<s, k>>]
        row == IF old = <<>> THEN 1 ELSE old[Len(old)] + 1
    IN  /\ row <= MaxRow
        /\ frames' = [frames EXCEPT ![<<s, k>>] =
              Append(IF Len(old) = Window THEN Tail(old) ELSE old, row)]
        /\ UNCHANGED <<pc, index, read, indicators, cache, valid, scans>>

-----------------------------------------------------------------------------
(* _df_snapshot_token; the mutant leaves the last row out. *)
Token_Length(f) == Len(f)
Token(f) == IF f = <<>> THEN <<0>> ELSE <<Len(f), f[Len(f)]>>

(* Assignment to a dict: a known key keeps its place. *)
Put(c, e) ==
    IF \E i \in DOMAIN c : c[i].key = e.key
    THEN [i \in DOMAIN c |-> IF c[i].key = e.key THEN e ELSE c[i]]
    ELSE Append(c, e)

(* _trim_indicator_cache_locked: the earliest inserted go. *)
Trim(c) == SubSeq(c, 1 + (IF Len(c) > CacheMax THEN Len(c) - CacheMax ELSE 0), Len(c))

(* _cached_with_indicators for the frame of the current symbol. *)
CachedWithIndicators(k) ==
    LET key == <<Universe[index], k>>
        frame == frames[key]
        hits == {i \in DOMAIN cache :
                    cache[i].key = key /\ Token(cache[i].frame) = Token(frame)}
    IN  /\ read' = [read EXCEPT ![k] = frame]
        /\ \/ /\ frame = <<>>
              /\ indicators' = [indicators EXCEPT ![k] = frame]
              /\ UNCHANGED cache
           \/ /\ frame # <<>>
              /\ \E i \in hits : indicators' = [indicators EXCEPT ![k] = cache[i].frame]
              /\ UNCHANGED cache
           \/ /\ frame # <<>> /\ hits = {}
              /\ indicators' = [indicators EXCEPT ![k] = frame]
              /\ cache' = Trim(Put(cache, [key |-> key, frame |-> frame]))

Begin ==
    /\ pc = "idle" /\ scans < MaxScans
    /\ pc' = "main" /\ index' = 1
    /\ read' = NoFrames /\ indicators' = NoFrames /\ valid' = <<>>
    /\ scans' = scans + 1
    /\ UNCHANGED <<frames, cache>>

(* On to the next symbol, or to the sort. *)
Advance ==
    /\ index' = index + 1
    /\ pc' = IF index < Len(Universe) THEN "main" ELSE "sort"

SkipEmpty ==
    /\ pc = "main" /\ frames[<<Universe[index], "main">>] = <<>>
    /\ Advance
    /\ UNCHANGED <<frames, read, indicators, cache, valid, scans>>

ReadMain ==
    /\ pc = "main" /\ frames[<<Universe[index], "main">>] # <<>>
    /\ CachedWithIndicators("main")
    /\ pc' = IF "context" \in Kinds THEN "context" ELSE "evaluate"
    /\ UNCHANGED <<frames, index, valid, scans>>

ReadContext ==
    /\ pc = "context"
    /\ CachedWithIndicators("context")
    /\ pc' = "evaluate"
    /\ UNCHANGED <<frames, index, valid, scans>>

NoSignal ==
    /\ pc = "evaluate"
    /\ Advance
    /\ UNCHANGED <<frames, read, indicators, cache, valid, scans>>

(* The candidates a signal adds; a blocked side adds none. *)
Accepted(c) == IF BlockSell /\ c.side = "SELL" THEN <<>> ELSE <<c>>

SignalFound(side, score) ==
    /\ pc = "evaluate"
    /\ valid' = valid \o
          Accepted([symbol |-> Universe[index], side |-> side, score |-> score])
    /\ Advance
    /\ UNCHANGED <<frames, read, indicators, cache, scans>>

(* The rank of valid[i] in the stable sort by falling score. *)
Rank(i) ==
    Cardinality({j \in DOMAIN valid :
        \/ valid[j].score > valid[i].score
        \/ valid[j].score = valid[i].score /\ j <= i})

Sort ==
    /\ pc = "sort"
    /\ valid' = [r \in DOMAIN valid |-> valid[CHOOSE i \in DOMAIN valid : Rank(i) = r]]
    /\ pc' = "idle" /\ index' = 1
    /\ UNCHANGED <<frames, read, indicators, cache, scans>>

Scan ==
    \/ Begin \/ SkipEmpty \/ ReadMain \/ ReadContext \/ NoSignal \/ Sort
    \/ \E side \in {"BUY", "SELL"}, score \in Scores : SignalFound(side, score)

Next == Scan \/ \E s \in Symbols, k \in Kinds : NewRow(s, k)

Spec == Init /\ [][Next]_vars

-----------------------------------------------------------------------------
(* Properties.                                                             *)

(* A signal is evaluated on the indicators of the very frame that was read,
   although a full window keeps its length and entries are evicted and replaced
   at any moment (services/signal_service.py:71-81 and 150-165). *)
OwnIndicators == pc = "evaluate" => indicators = read
=============================================================================

---------------------------- MODULE AccountLimit ----------------------------
(* What the entries promise the account, whatever they do to keep it: a      *)
(* position opens only for the one entry at work, an entry is let in only    *)
(* for a symbol without a position while there is room for one more, and it  *)
(* keeps its room until it has ended.  EntryService implements this          *)
(* (EntryService!ImplementsAccountLimit).                                    *)
EXTENDS FiniteSets, Integers

CONSTANTS Symbols, MaxPositions

VARIABLES
    positions,   \* symbols with a position
    working      \* symbols an entry is at work for

account == <<positions, working>>

Init ==
    /\ positions \in SUBSET Symbols
    /\ Cardinality(positions) <= MaxPositions
    /\ working = {}

(* An entry is let in. *)
Admit(s) ==
    /\ working = {}
    /\ s \notin positions
    /\ Cardinality(positions) < MaxPositions
    /\ working' = {s}
    /\ UNCHANGED positions

(* Its order fills, and it may end with the fill. *)
Fill(s) ==
    /\ s \in working
    /\ positions' = positions \cup {s}
    /\ working' \in {working, {}}

(* It ends: refused, timed out, failed, or done. *)
End ==
    /\ working # {}
    /\ working' = {}
    /\ UNCHANGED positions

Close(s) ==
    /\ s \in positions
    /\ positions' = positions \ {s}
    /\ UNCHANGED working

Next ==
    \/ \E s \in Symbols : Admit(s) \/ Fill(s) \/ Close(s)
    \/ End

Spec == Init /\ [][Next]_account

(* The account never holds more than max_positions (entry_service.py:896). *)
WithinLimit == Cardinality(positions) <= MaxPositions
=============================================================================

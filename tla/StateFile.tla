------------------------------ MODULE StateFile ------------------------------
(***************************************************************************)
(* A state file of persistence.py as the risk manager uses it: RiskManager *)
(* .save through atomic_write_text, .load through load_json_safe, and the  *)
(* restarts between them.  (OperationalService.save_state and .load_state  *)
(* take the same way for its counters.)                                    *)
(*                                                                         *)
(* The state is a version number, held twice: `first' stands for the fields*)
(* load assigns first, `last' for those after them.                        *)
(*                                                                         *)
(* Bounds for TLC: MaxVersion trades, MaxStarts processes.                 *)
(***************************************************************************)
EXTENDS Integers

CONSTANTS
    Faults,    \* subset of AllFaults
    MaxVersion, MaxStarts

(* "write" and "replace" of a save and "read" and "rename" of a load raise
   OSError; "edit" changes the file between two processes. *)
AllFaults == {"write", "replace", "read", "rename", "edit"}

(* Assumed of the constants, by the modules that instantiate this one. *)
FileAssumption ==
    /\ Faults \subseteq AllFaults
    /\ MaxVersion \in Nat /\ MaxStarts \in Nat

VARIABLES
    pc,        \* main thread
    state,     \* RiskManager.state
    snapshot,  \* data that save is writing
    target,    \* logs/risk_state.json
    tmp,       \* logs/risk_state.json.tmp
    moved,     \* what was moved to *.bad-*
    reported,  \* the last load logged "moved to .bad"
    saved,     \* version of the last save that returned
    starts

vars == <<pc, state, snapshot, target, tmp, moved, reported, saved, starts>>

Versions == 0 .. MaxVersion
Invalid == MaxVersion + 1    \* a value that does not parse
State(v) == [first |-> v, last |-> v]
States == [first : Versions, last : Versions]

(* Contents of a file: no file, no JSON, JSON that is no object, or an object. *)
Content(k, s) == [kind |-> k, first |-> s.first, last |-> s.last]
Plain(k) == Content(k, State(0))
Object(s) == Content("object", s)
Contents ==
    {Plain(k) : k \in {"absent", "torn", "list"}}
        \cup {Object(s) : s \in [first : Versions, last : Versions \cup {Invalid}]}

TypeOK ==
    /\ pc \in {"down", "load", "run", "write", "replace"}
    /\ state \in States /\ snapshot \in States
    /\ target \in Contents
    /\ tmp \in Contents /\ (pc = "replace" => tmp = Object(snapshot))
    /\ moved \subseteq Contents
    /\ reported \in BOOLEAN
    /\ saved \in Versions
    /\ starts \in 0 .. MaxStarts

Init ==
    /\ pc = "down"
    /\ state = State(0) /\ snapshot = State(0)
    /\ target = Plain("absent") /\ tmp = Plain("absent") /\ moved = {}
    /\ reported = FALSE
    /\ saved = 0 /\ starts = 0

-----------------------------------------------------------------------------
(* load_json_safe and RiskManager.load.                                    *)

Start ==
    /\ pc = "down" /\ starts < MaxStarts
    /\ pc' = "load"
    /\ state' = State(0) /\ reported' = FALSE
    /\ starts' = starts + 1
    /\ UNCHANGED <<snapshot, target, tmp, moved, saved>>

LoadNothing ==
    /\ pc = "load" /\ target.kind = "absent"
    /\ pc' = "run"
    /\ UNCHANGED <<state, snapshot, target, tmp, moved, reported, saved, starts>>

(* The file is moved away, or stays when that fails as well. *)
AfterBadRead == "run"

Unreadable == target.kind = "torn" \/ (target.kind # "absent" /\ "read" \in Faults)

LoadUnreadable ==
    /\ pc = "load" /\ Unreadable
    /\ \/ target' = Plain("absent") /\ moved' = moved \cup {target}
       \/ "rename" \in Faults /\ UNCHANGED <<target, moved>>
    /\ pc' = AfterBadRead
    /\ reported' = TRUE
    /\ UNCHANGED <<state, snapshot, tmp, saved, starts>>

LoadNoObject ==
    /\ pc = "load" /\ target.kind = "list"
    /\ pc' = "run"
    /\ reported' = TRUE
    /\ UNCHANGED <<state, snapshot, target, tmp, moved, saved, starts>>

(* The fields one after the other, up to one that does not parse. *)
LoadObject ==
    /\ pc = "load" /\ target.kind = "object"
    /\ state' = [first |-> target.first,
                 last |-> IF target.last = Invalid THEN state.last ELSE target.last]
    /\ pc' = "run"
    /\ UNCHANGED <<snapshot, target, tmp, moved, reported, saved, starts>>

-----------------------------------------------------------------------------
(* update_trade, from a monitor thread, at any time. *)
Trade ==
    /\ pc \in {"run", "write", "replace"}
    /\ state.first < MaxVersion /\ state.last < MaxVersion
    /\ state' = [first |-> state.first + 1, last |-> state.last + 1]
    /\ UNCHANGED <<pc, snapshot, target, tmp, moved, reported, saved, starts>>

(* save collects the data under the lock of update_trade. *)
BeginSave ==
    /\ pc = "run"
    /\ snapshot' = state
    /\ pc' = "write"
    /\ UNCHANGED <<state, target, tmp, moved, reported, saved, starts>>

(* The contents of the two files while text is written to one of them; the
   mutant writes in place. *)
Written_InPlace(c) == tmp' = c /\ target' = c
Written(c) == tmp' = c /\ UNCHANGED target

WriteSome ==
    /\ pc = "write"
    /\ Written(Plain("torn"))
    /\ \/ UNCHANGED pc
       \/ "write" \in Faults /\ pc' = "run"
    /\ UNCHANGED <<state, snapshot, moved, reported, saved, starts>>

WriteAll ==
    /\ pc = "write"
    /\ Written(Object(snapshot))
    /\ pc' = "replace"
    /\ UNCHANGED <<state, snapshot, moved, reported, saved, starts>>

Replace ==
    /\ pc = "replace"
    /\ \/ /\ target' = tmp /\ tmp' = Plain("absent")
          /\ saved' = snapshot.last
       \/ "replace" \in Faults /\ UNCHANGED <<target, tmp, saved>>
    /\ pc' = "run"
    /\ UNCHANGED <<state, snapshot, moved, reported, starts>>

(* A process ends, by a crash or after its save. *)
End ==
    /\ pc # "down" /\ starts < MaxStarts
    /\ pc' = "down"
    /\ UNCHANGED <<state, snapshot, target, tmp, moved, reported, saved, starts>>

(* Somebody edits the file of a stopped process. *)
Edit ==
    /\ pc = "down" /\ starts < MaxStarts /\ "edit" \in Faults
    /\ target' \in {Plain("torn"), Plain("list")}
        \cup {Object([first |-> v, last |-> Invalid]) : v \in Versions}
    /\ UNCHANGED <<pc, state, snapshot, tmp, moved, reported, saved, starts>>

Process ==
    \/ Start \/ LoadNothing \/ LoadUnreadable \/ LoadNoObject \/ LoadObject
    \/ BeginSave \/ WriteAll \/ Replace

Next == Process \/ Trade \/ WriteSome \/ End \/ Edit

Spec == Init /\ [][Next]_vars

(* The container restarts a process that ended, and a process saves in the end. *)
FairSpec == Spec /\ WF_vars(Process)

-----------------------------------------------------------------------------
(* Properties.                                                             *)

(* Whatever crashes or fails, a process that has loaded its state is not behind
   a save that returned (persistence.py:21, risk.py:157). *)
SavedSurvives == pc \in {"run", "write", "replace"} => state.last >= saved

(* "corrupt JSON files are quarantined as `*.bad-*`" (DEPLOY.md:57), and no
   others. *)
OnlyCorruptMoved == \A c \in moved : c.kind = "torn"

(* "risk_state_corrupt path=%s err=%s (moved to .bad)" (risk.py:160): a process
   that reports this has moved a file, or an earlier one has. *)
ReportedIsMoved == pc = "run" /\ reported => moved # {}
=============================================================================

---------------------------- MODULE ExportContract ----------------------------
(* What a caller of save_layers relies on, without a word about how images    *)
(* are encoded: the destination keeps its old content until the whole new     *)
(* file exists in memory, an export that answers FALSE has not touched it, and *)
(* what gets stored is one of the files the request allows.                   *)
EXTENDS Sequences

CONSTANT Acceptable(_)  \* the files a request allows

VARIABLES request,      \* what is asked for
          dest,         \* the destination file
          outcome       \* "running", the function's answer, or "dead"

contractVars == <<request, dest, outcome>>

Init ==
    /\ dest = [state |-> "old", file |-> <<>>]
    /\ outcome = "running"

(* The destination is emptied only to be written right after.                 *)
Truncate ==
    /\ outcome = "running" /\ dest.state = "old"
    /\ dest' = [state |-> "empty", file |-> <<>>]
    /\ UNCHANGED <<request, outcome>>

(* The disk takes the whole file or a part of it.                             *)
Store ==
    /\ outcome = "running" /\ dest.state = "empty"
    /\ \/ \E file \in Acceptable(request) : dest' = [state |-> "complete", file |-> <<file>>]
       \/ dest' = [state |-> "short", file |-> <<>>]
    /\ UNCHANGED <<request, outcome>>

Succeed ==
    /\ outcome = "running" /\ dest.state \in {"complete", "short"}
    /\ outcome' = "TRUE"
    /\ UNCHANGED <<request, dest>>

Fail ==
    /\ outcome = "running" /\ dest.state = "old"
    /\ outcome' = "FALSE"
    /\ UNCHANGED <<request, dest>>

(* The process may end at any time and leaves the destination as it is.       *)
Die ==
    /\ outcome = "running"
    /\ outcome' = "dead"
    /\ UNCHANGED <<request, dest>>

Next == Truncate \/ Store \/ Succeed \/ Fail \/ Die

Spec == Init /\ [][Next]_contractVars
==============================================================================

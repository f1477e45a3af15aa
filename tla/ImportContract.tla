---------------------------- MODULE ImportContract ----------------------------
(* What a caller of avif_load relies on, without a word about how images are  *)
(* decoded: no image is made in GIMP before the file has turned out readable, *)
(* once one is made only the end of the process can prevent its delivery, and *)
(* an image that is delivered is one the file describes.                      *)
EXTENDS Sequences

CONSTANT Acceptable(_)  \* the images a file describes

VARIABLES file,         \* <<>> until the call, then <<what the path names>>
          delivered,    \* <<>>, or the image that was answered
          outcome       \* "reading", "building", avif_load's answer, or "dead"

contractVars == <<file, delivered, outcome>>

Init == file = <<>> /\ delivered = <<>> /\ outcome = "reading"

Call ==
    /\ file = <<>>
    /\ Len(file') = 1
    /\ UNCHANGED <<delivered, outcome>>

Fail ==
    /\ file # <<>> /\ outcome = "reading"
    /\ outcome' = "EXECUTION_ERROR"
    /\ UNCHANGED <<file, delivered>>

(* An image exists in GIMP, not finished yet.                                 *)
Build ==
    /\ file # <<>> /\ outcome = "reading"
    /\ outcome' = "building"
    /\ UNCHANGED <<file, delivered>>

Deliver ==
    /\ outcome = "building"
    /\ outcome' = "SUCCESS"
    /\ \E image \in Acceptable(file[1]) : delivered' = <<image>>
    /\ UNCHANGED file

Die ==
    /\ file # <<>> /\ outcome \in {"reading", "building"}
    /\ outcome' = "dead"
    /\ UNCHANGED <<file, delivered>>

Next == Call \/ Fail \/ Build \/ Deliver \/ Die

Spec == Init /\ [][Next]_contractVars
==============================================================================

----------------------------- MODULE MCSaveClaims -----------------------------
(* What the repository says of an export and SaveLayers does not do.  Each    *)
(* definition is the claim of one comment, argument description or assertion. *)
EXTENDS MCSaveLayers

(* One request per run is enough to show each disagreement; these are the     *)
(* requests a script can pass, INDEXED and mixed layers included.             *)
ClaimRequests ==
    {[Default EXCEPT !.layers = s] :
        s \in OneOfEach \cup {s \in SeqsUpTo(ColourLayers, 2) : Len(s) > 0}}

(* The default branch of the switch over drawable types asserts that it is    *)
(* not reached; the procedure registers for every image type.                 *)
DefaultNotReached == pc # "aborted"

(* The procedure "Saves files in the AVIF image format": an export reported   *)
(* as successful has the complete file on disk.                               *)
SuccessMeansSaved == result = "TRUE" => dest.state = "complete"

(* "Save information about transparent pixels when possible": a layer with    *)
(* transparent pixels gets them into the file.                                *)
TransparencySaved ==
    (result = "TRUE" /\ dest.state = "complete")
        => ((\E i \in 1..n_drawables(req) : req.layers[i].transparent) => dest.file[1].alpha)
==============================================================================

------------------------------ MODULE MCAvifSave ------------------------------
(* AvifSave with one optional encoder, quantizers 0 and 1, three calls and    *)
(* one user action per dialog: enough for options to be stored, outlive a     *)
(* change of libavif or an image of another kind, and be used again.          *)
EXTENDS AvifSave

ImageOf(eightBit, hasAlpha, layers, base) ==
    [eightBit |-> eightBit, hasAlpha |-> hasAlpha, layers |-> layers, base |-> base]

MCCallImages ==
    {ImageOf(TRUE, FALSE, 1, "gray"), ImageOf(TRUE, TRUE, 1, "indexed"),
     ImageOf(TRUE, TRUE, 2, "colour"), ImageOf(FALSE, FALSE, 1, "colour")}

(* A script may pass the quantizers in the wrong order, and for an encoder a  *)
(* codec that only decodes.                                                   *)
MCScriptConfigs ==
    {Default,
     [Default EXCEPT !.minQuantizer = 1, !.maxQuantizer = 0, !.codec = "svt"],
     [Default EXCEPT !.codec = "dav1d"]}
==============================================================================

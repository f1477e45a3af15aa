------------------------------- MODULE AvifSave -------------------------------
(* avif_save: one export procedure call after another in a GIMP session.      *)
(*                                                                            *)
(* A call gets its options from the last values GIMP keeps, from the dialog   *)
(* (module SaveDialog, opened on the last values), or from the arguments of a *)
(* script.  Unless a script called, gimp_export_image may replace the user's  *)
(* image by a converted copy that avif_save has to delete.  Then save_layers  *)
(* runs (module SaveLayers; here only its answer) and GIMP keeps the options  *)
(* of a successful interactive call.  Between calls the user may install a    *)
(* libavif with other encoders.                                               *)
EXTENDS SaveDialog

CONSTANTS CallImages,   \* the images exported: what the dialog asks, and base
          ScriptConfigs,\* the arguments scripts pass
          MaxRuns,      \* bound: calls in one behaviour
          MaxEdits      \* bound: user actions in one dialog

Bases == {"colour", "gray", "indexed"}
Image == [eightBit : BOOLEAN, hasAlpha : BOOLEAN, layers : 1..2, base : Bases]

ASSUME SessionAssumption ==
    /\ CallImages \subseteq Image
    /\ ScriptConfigs \subseteq Config
    /\ MaxRuns \in Nat /\ MaxEdits \in Nat

VARIABLES pc,           \* the phase of avif_save, "idle" between calls
          mode,         \* the run mode of the call
          last,         \* the options GIMP keeps
          given,        \* the drawables handed to save_layers
          handle,       \* whose image the variable image of avif_save is
          copies,       \* image copies alive in GIMP
          originalAlive,
          saved,        \* what save_layers answered
          file,         \* what the last successful export wrote
          declined,     \* the user has unchecked the alpha box in an accepted dialog
          runs, edits

sessionVars == <<pc, mode, last, given, handle, copies, originalAlive, saved,
                 file, declined, runs, edits>>
allVars == <<dialogVars, sessionVars>>

Modes == {"INTERACTIVE", "WITH_LAST_VALS", "NONINTERACTIVE"}

Default ==
    [minQuantizer |-> 0, maxQuantizer |-> WorstQuality, depth |-> 8, codec |-> "auto",
     format |-> "colour", alpha |-> TRUE, animation |-> FALSE]

Init ==
    /\ config = Default /\ last = Default
    /\ image \in CallImages /\ given = image
    /\ installed = Codecs
    /\ stage = "closed" /\ pending = "none" /\ moved = NoMove
    /\ pc = "idle" /\ mode = "INTERACTIVE"
    /\ handle = "original" /\ copies = 0 /\ originalAlive = TRUE
    /\ saved = "none" /\ file = [alpha |-> FALSE, animated |-> FALSE]
    /\ declined = FALSE /\ runs = 0 /\ edits = 0

(* gimp_procedure_config_begin_run: a script's arguments, else the last values. *)
Call ==
    /\ pc = "idle" /\ runs < MaxRuns
    /\ runs' = runs + 1
    /\ image' \in CallImages
    /\ given' = image'
    /\ handle' = "original" /\ saved' = "none"
    /\ stage' = "closed" /\ moved' = NoMove /\ edits' = 0
    /\ \/ mode' = "INTERACTIVE" /\ config' = last /\ pc' = "dialog"
       \/ mode' = "WITH_LAST_VALS" /\ config' = last /\ pc' = "export"
       \/ mode' = "NONINTERACTIVE" /\ config' \in ScriptConfigs /\ pc' = "save"
    /\ UNCHANGED <<installed, pending, last, copies, originalAlive, file, declined>>

(* The user installs a libavif with other encoders.                           *)
Reinstall ==
    /\ pc = "idle"
    /\ installed' \in SUBSET Codecs
    /\ UNCHANGED <<config, image, stage, pending, moved, sessionVars>>

(* save_dialog; its user is bounded.                                          *)
RunDialog ==
    /\ pc = "dialog"
    /\ \/ (OpenDialog \/ Handlers \/ CloseDialog) /\ UNCHANGED edits
       \/ (MoveMin \/ MoveMax \/ ChooseOption) /\ edits < MaxEdits /\ edits' = edits + 1
    /\ UNCHANGED <<pc, mode, last, given, handle, copies, originalAlive, saved,
                   file, declined, runs>>

(* GIMP_PDB_CANCEL: the config is neither ended nor released.                 *)
Cancel ==
    /\ \/ pc = "dialog" /\ stage = "cancelled"
       \/ pc = "export"
    /\ pc' = "idle"
    /\ UNCHANGED <<dialogVars, mode, last, given, handle, copies, originalAlive, saved,
                   file, declined, runs, edits>>

Accept ==
    /\ pc = "dialog" /\ stage = "accepted"
    /\ pc' = "export"
    /\ declined' = (declined \/ (AlphaSupported /\ ~config.alpha))
    /\ UNCHANGED <<dialogVars, mode, last, given, handle, copies, originalAlive, saved,
                   file, runs, edits>>

(* What the capabilities passed to gimp_export_image leave of the image.      *)
Capable_noAlphaTest(img) ==
    [img EXCEPT !.base = IF config.format = "gray" THEN "gray"
                         ELSE IF @ = "indexed" THEN "colour" ELSE @,
                !.layers = IF config.animation THEN @ ELSE 1]

Capable_keepsIndexed(img) ==
    [img EXCEPT !.base = IF config.format = "gray" THEN "gray" ELSE @,
                !.layers = IF config.animation THEN @ ELSE 1,
                !.hasAlpha = @ /\ config.alpha]

Capable(img) ==
    [img EXCEPT !.base = IF config.format = "gray" THEN "gray"
                         ELSE IF @ = "indexed" THEN "colour" ELSE @,
                !.layers = IF config.animation THEN @ ELSE 1,
                !.hasAlpha = @ /\ config.alpha]

(* GIMP_EXPORT_EXPORT: a converted copy takes the image's place.              *)
ExportCopy ==
    /\ pc = "export"
    /\ given' = Capable(image)
    /\ handle' = "copy" /\ copies' = copies + 1
    /\ pc' = "save"
    /\ UNCHANGED <<dialogVars, mode, last, originalAlive, saved, file, declined, runs, edits>>

(* GIMP_EXPORT_IGNORE: there was nothing to convert.                          *)
ExportIgnore ==
    /\ pc = "export"
    /\ Capable(image) = image
    /\ pc' = "save"
    /\ UNCHANGED <<dialogVars, mode, last, given, handle, copies, originalAlive, saved,
                   file, declined, runs, edits>>

(* save_layers answers TRUE or FALSE; TRUE takes an encoder that is there.    *)
SaveTrue ==
    /\ pc = "save" /\ given.base # "indexed"
    /\ IF config.codec = "auto" THEN installed # {} ELSE config.codec \in installed
    /\ file' = [alpha |-> given.hasAlpha, animated |-> given.layers > 1]
    /\ saved' = "TRUE" /\ pc' = "end"
    /\ UNCHANGED <<dialogVars, mode, last, given, handle, copies, originalAlive,
                   declined, runs, edits>>

SaveFalse_again ==
    /\ pc = "save" /\ given.base # "indexed"
    /\ saved' = "FALSE" /\ pc' = "save"
    /\ UNCHANGED <<dialogVars, mode, last, given, handle, copies, originalAlive,
                   file, declined, runs, edits>>

SaveFalse ==
    /\ pc = "save" /\ given.base # "indexed"
    /\ saved' = "FALSE" /\ pc' = "end"
    /\ UNCHANGED <<dialogVars, mode, last, given, handle, copies, originalAlive,
                   file, declined, runs, edits>>

SaveAborts ==
    /\ pc = "save" /\ given.base = "indexed"
    /\ pc' = "aborted"
    /\ UNCHANGED <<dialogVars, mode, last, given, handle, copies, originalAlive, saved,
                   file, declined, runs, edits>>

(* gimp_procedure_config_end_run keeps the options of a successful dialog.    *)
KeptOptions_script == saved = "TRUE"
KeptOptions == saved = "TRUE" /\ mode = "INTERACTIVE"

(* After GIMP_EXPORT_EXPORT, and only then, the image is avif_save's own.     *)
DeletesImage_onSuccess == handle = "copy" /\ saved = "TRUE"
DeletesImage_always    == TRUE
DeletesImage == handle = "copy"

EndRun ==
    /\ pc = "end"
    /\ last' = IF KeptOptions THEN config ELSE last
    /\ IF DeletesImage
       THEN IF handle = "copy" THEN copies' = copies - 1 /\ UNCHANGED originalAlive
            ELSE originalAlive' = FALSE /\ UNCHANGED copies
       ELSE UNCHANGED <<copies, originalAlive>>
    /\ pc' = "idle"
    /\ UNCHANGED <<dialogVars, mode, given, handle, saved, file, declined, runs, edits>>

Stopped ==
    /\ pc = "aborted" \/ (pc = "idle" /\ runs = MaxRuns)
    /\ UNCHANGED allVars

Returning == Cancel \/ ExportCopy \/ ExportIgnore \/ SaveTrue \/ SaveFalse \/ SaveAborts \/ EndRun

Next == Call \/ Reinstall \/ RunDialog \/ Accept \/ Returning \/ Stopped

(* avif_save runs on through its own calls; users and scripts need not act.   *)
Spec == Init /\ [][Next]_allVars /\ WF_allVars(Returning)

------------------------------------------------------------------------------
SessionTypeOK ==
    /\ config \in Config /\ last \in Config
    /\ image \in Image /\ given \in Image
    /\ installed \in SUBSET Codecs
    /\ stage \in {"closed", "open", "accepted", "cancelled"}
    /\ pending \in {"none", "min", "max"}
    /\ pc \in {"idle", "dialog", "export", "save", "end", "aborted"}
    /\ mode \in Modes /\ saved \in {"none", "TRUE", "FALSE"}
    /\ handle \in {"original", "copy"}
    /\ runs \in 0..MaxRuns /\ edits \in 0..MaxEdits

(* Every copy gimp_export_image made is deleted by the time the call is over, *)
(* whether save_layers succeeded or not, and never twice.                     *)
CopiesDeleted ==
    /\ copies \in {0, 1}
    /\ pc = "idle" => copies = 0

(* avif_save never deletes the image the user is working on, although the one *)
(* variable image names now that one and now the copy.                        *)
OriginalKept == originalAlive

(* The options GIMP keeps from call to call have their quantizers in order,   *)
(* whatever scripts passed in between and wherever the dialog was left.       *)
LastValuesInOrder == InOrder(last)

(* The drawable types save_layers asserts away are converted for everyone but *)
(* scripts, which get no gimp_export_image.                                   *)
OnlyScriptsAbort == pc = "aborted" => mode = "NONINTERACTIVE"

(* For a user, and for a repeated export, alpha and animation are written     *)
(* only if the options of this very call ask for them.                        *)
OnlyWhatWasAsked ==
    (pc = "end" /\ saved = "TRUE" /\ mode # "NONINTERACTIVE") =>
        /\ file.alpha => config.alpha
        /\ file.animated => config.animation

(* Although the last values may be older than the installed libavif, and      *)
(* scripts may ask for codecs that only decode: what a user's export encodes  *)
(* with is an encoder this libavif has, or the automatic choice.              *)
ChoiceInstalled ==
    (mode = "INTERACTIVE" /\ pc \in {"export", "save", "end"})
        => config.codec \in installed \cup {"auto"}

(* A call without a dialog comes to its end.                                  *)
CallsReturn == (pc # "idle" /\ mode # "INTERACTIVE") ~> (pc \in {"idle", "aborted"})

(* "Save information about transparent pixels when possible": a repeated      *)
(* export of an image with transparency keeps it, as long as the user never   *)
(* declined to.  The code does not see to this.                               *)
TransparencyKept ==
    (pc = "end" /\ saved = "TRUE" /\ mode = "WITH_LAST_VALS" /\ image.hasAlpha /\ ~declined)
        => file.alpha
==============================================================================

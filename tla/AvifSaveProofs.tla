---------------------------- MODULE AvifSaveProofs ----------------------------
(* SaveDialog for every quantizer range and every set of encoders; AvifSave,  *)
(* of which the dialog is a part, for every set of images, scripts and        *)
(* encoders and for any number of calls.                                      *)
EXTENDS AvifSave, TLAPS

------------------------------------------------------------------------------
(* The dialog.                                                                *)
(* With no handler pending the slider last moved holds its value and the pair *)
(* is in order.  While the handler of one slider is pending, either that      *)
(* slider was moved itself, or the other was and both now have its value: so  *)
(* the nested handler never has anything left to do.                          *)
HandlerInv ==
    /\ Settled => InOrder(config)
    /\ SliderKept
    /\ pending # "none" => /\ stage = "open"
                           /\ moved # NoMove
    /\ pending = "min" =>
         \/ moved.slider = "min" /\ config.minQuantizer = moved.value
         \/ /\ moved.slider = "max" /\ config.maxQuantizer = moved.value
            /\ config.minQuantizer = config.maxQuantizer
    /\ pending = "max" =>
         \/ moved.slider = "max" /\ config.maxQuantizer = moved.value
         \/ /\ moved.slider = "min" /\ config.minQuantizer = moved.value
            /\ config.minQuantizer = config.maxQuantizer

(* No encoder that is gone is chosen in a dialog once it is open.             *)
GoneReplaced == stage \in {"open", "accepted"} => config.codec \notin Codecs \ installed

DialogInv == DialogTypeOK /\ HandlerInv /\ GoneReplaced

(* Any stored options, dialog not yet open.                                   *)
LEMMA DialogInitInv == DialogInit => DialogInv
<1> SUFFICES ASSUME DialogInit PROVE DialogInv
  OBVIOUS
<1>1. NoMove \in [slider : {"none", "min", "max"}, value : Quantizers]
  BY WorstQualityAssumption DEF NoMove, Quantizers
<1>2. DialogTypeOK
  BY <1>1 DEF DialogInit, DialogTypeOK
<1>3. HandlerInv
  BY DEF DialogInit, HandlerInv, Settled, SliderKept
<1>4. GoneReplaced
  BY DEF DialogInit, GoneReplaced
<1> QED
  BY <1>2, <1>3, <1>4 DEF DialogInv

(* Repairing the options keeps them options, with no encoder that is gone.    *)
LEMMA RepairedType ==
    ASSUME DialogTypeOK
    PROVE  /\ Repaired(config) \in Config
           /\ Repaired(config).codec \notin Codecs \ installed
<1>1. DepthFor(config) \in Depths
  BY DEF DialogTypeOK, Config, DepthFor, Depths
<1>2. CodecStore(config) \in (Codecs \cup DecodeOnly \cup {"auto"}) \ (Codecs \ installed)
  BY CodecsAssumption DEF DialogTypeOK, Config, CodecStore
<1>3. AnimationSupported \in BOOLEAN /\ AlphaSupported \in BOOLEAN
  BY DEF DialogTypeOK, Images, AnimationSupported, AlphaSupported
<1> QED
  BY <1>1, <1>2, <1>3 DEF DialogTypeOK, Config, Repaired

(* Opening the dialog moves no slider.                                        *)
LEMMA OpenInv == DialogInv /\ OpenDialog => DialogInv'
<1> SUFFICES ASSUME DialogInv, OpenDialog PROVE DialogInv'
  OBVIOUS
<1>1. Repaired(config) \in Config /\ Repaired(config).codec \notin Codecs \ installed
  BY RepairedType DEF DialogInv
<1>2. NoMove \in [slider : {"none", "min", "max"}, value : Quantizers]
  BY WorstQualityAssumption DEF NoMove, Quantizers
<1>3. DialogTypeOK'
  BY <1>1, <1>2 DEF DialogInv, DialogTypeOK, OpenDialog
<1>4. HandlerInv'
  BY DEF DialogInv, HandlerInv, Settled, SliderKept, OpenDialog
<1>5. GoneReplaced'
  BY <1>1 DEF OpenDialog, GoneReplaced
<1> QED
  BY <1>3, <1>4, <1>5 DEF DialogInv

(* A slider starts its own handler.                                           *)
LEMMA MoveInv == DialogInv /\ (MoveMin \/ MoveMax) => DialogInv'
<1> SUFFICES ASSUME DialogInv, MoveMin \/ MoveMax PROVE DialogInv'
  OBVIOUS
<1>1. CASE MoveMin
  <2>1. PICK q \in Quantizers : /\ config' = [config EXCEPT !.minQuantizer = q]
                                /\ moved' = [slider |-> "min", value |-> q]
    BY <1>1 DEF MoveMin
  <2>2. DialogTypeOK'
    BY <1>1, <2>1 DEF DialogInv, DialogTypeOK, Config, MoveMin
  <2>3. HandlerInv'
    BY <1>1, <2>1 DEF DialogInv, DialogTypeOK, Config, HandlerInv, Settled, SliderKept, MoveMin, Idle, NoMove
  <2>4. GoneReplaced'
    BY <1>1, <2>1 DEF DialogInv, DialogTypeOK, Config, GoneReplaced, MoveMin
  <2> QED
    BY <2>2, <2>3, <2>4 DEF DialogInv
<1>2. CASE MoveMax
  <2>1. PICK q \in Quantizers : /\ config' = [config EXCEPT !.maxQuantizer = q]
                                /\ moved' = [slider |-> "max", value |-> q]
    BY <1>2 DEF MoveMax
  <2>2. DialogTypeOK'
    BY <1>2, <2>1 DEF DialogInv, DialogTypeOK, Config, MoveMax
  <2>3. HandlerInv'
    BY <1>2, <2>1 DEF DialogInv, DialogTypeOK, Config, HandlerInv, Settled, SliderKept, MoveMax, Idle, NoMove
  <2>4. GoneReplaced'
    BY <1>2, <2>1 DEF DialogInv, DialogTypeOK, Config, GoneReplaced, MoveMax
  <2> QED
    BY <2>2, <2>3, <2>4 DEF DialogInv
<1> QED
  BY <1>1, <1>2

(* A handler finds the pair in order, or sets the other slider to the value   *)
(* of its own, which the nested handler then finds in order.                  *)
LEMMA HandlersInv == DialogInv /\ Handlers => DialogInv'
<1> SUFFICES ASSUME DialogInv, Handlers PROVE DialogInv'
  OBVIOUS
<1>1. CASE MinQuantizerChanged
  <2>1. DialogTypeOK'
    BY <1>1 DEF DialogInv, DialogTypeOK, Config, MinQuantizerChanged
  <2>2. HandlerInv'
    BY <1>1 DEF DialogInv, DialogTypeOK, Config, HandlerInv, Settled, SliderKept, InOrder,
                MinQuantizerChanged, Quantizers, NoMove
  <2>3. GoneReplaced'
    BY <1>1 DEF DialogInv, DialogTypeOK, Config, GoneReplaced, MinQuantizerChanged
  <2> QED
    BY <2>1, <2>2, <2>3 DEF DialogInv
<1>2. CASE MaxQuantizerChanged
  <2>1. DialogTypeOK'
    BY <1>2 DEF DialogInv, DialogTypeOK, Config, MaxQuantizerChanged
  <2>2. HandlerInv'
    BY <1>2 DEF DialogInv, DialogTypeOK, Config, HandlerInv, Settled, SliderKept, InOrder,
                MaxQuantizerChanged, Quantizers, NoMove
  <2>3. GoneReplaced'
    BY <1>2 DEF DialogInv, DialogTypeOK, Config, GoneReplaced, MaxQuantizerChanged
  <2> QED
    BY <2>1, <2>2, <2>3 DEF DialogInv
<1> QED
  BY <1>1, <1>2 DEF Handlers

(* The other widgets leave the quantizers alone.                              *)
LEMMA ChooseInv == DialogInv /\ ChooseOption => DialogInv'
<1> SUFFICES ASSUME DialogInv, ChooseOption PROVE DialogInv'
  OBVIOUS
<1>0. OfferedDepths \subseteq Depths
  BY DEF OfferedDepths, Depths
<1>1. /\ config' \in Config
      /\ config'.codec \notin Codecs \ installed
      /\ config'.minQuantizer = config.minQuantizer
      /\ config'.maxQuantizer = config.maxQuantizer
  BY <1>0, CodecsAssumption DEF DialogInv, DialogTypeOK, Config, GoneReplaced, ChooseOption, Idle
<1>2. DialogTypeOK'
  BY <1>1 DEF DialogInv, DialogTypeOK, ChooseOption
<1>3. HandlerInv'
  BY <1>1 DEF DialogInv, HandlerInv, Settled, SliderKept, InOrder, ChooseOption, Idle
<1>4. GoneReplaced'
  BY <1>1 DEF GoneReplaced, ChooseOption
<1> QED
  BY <1>2, <1>3, <1>4 DEF DialogInv

LEMMA DialogStepInv == DialogInv /\ [DialogNext \/ DialogDone]_dialogVars => DialogInv'
<1> SUFFICES ASSUME DialogInv, [DialogNext \/ DialogDone]_dialogVars PROVE DialogInv'
  OBVIOUS
<1>1. CASE CloseDialog
  BY <1>1 DEF DialogInv, DialogTypeOK, HandlerInv, Settled, SliderKept, InOrder, GoneReplaced,
              CloseDialog, Idle
<1>2. CASE UNCHANGED dialogVars
  BY <1>2 DEF dialogVars, DialogInv, DialogTypeOK, HandlerInv, Settled, SliderKept, InOrder,
              GoneReplaced
<1> QED
  BY <1>1, <1>2, OpenInv, MoveInv, HandlersInv, ChooseInv
     DEF DialogNext, DialogDone, User

(* The dialog's state keeps its types for every quantizer range.              *)
THEOREM DialogTypesHold == DialogSpec => []DialogTypeOK
<1>1. DialogInv => DialogTypeOK
  BY DEF DialogInv
<1> QED
  BY DialogInitInv, DialogStepInv, <1>1, PTL DEF DialogSpec

(* Once a slider was moved, the quantizers are in order whenever the handlers *)
(* have returned.                                                             *)
THEOREM QuantizersAlwaysSettle == DialogSpec => []QuantizersSettle
<1>1. DialogInv => QuantizersSettle
  BY DEF DialogInv, HandlerInv, QuantizersSettle, InOrder
<1> QED
  BY DialogInitInv, DialogStepInv, <1>1, PTL DEF DialogSpec

(* The nested handlers never take back the value the user gave a slider.      *)
THEOREM SliderAlwaysKept == DialogSpec => []SliderKept
<1>1. DialogInv => SliderKept
  BY DEF DialogInv, HandlerInv
<1> QED
  BY DialogInitInv, DialogStepInv, <1>1, PTL DEF DialogSpec

(* An encoder that is no longer installed never gets through the dialog, from *)
(* any stored options, those with codecs that only decode included.           *)
THEOREM GoneAlwaysReplaced == DialogSpec => []GoneReplaced
<1>1. DialogInv => GoneReplaced
  BY DEF DialogInv
<1> QED
  BY DialogInitInv, DialogStepInv, <1>1, PTL DEF DialogSpec

------------------------------------------------------------------------------
(* The image copy: it exists from gimp_export_image to the end of the call    *)
(* exactly if the variable image names it.                                    *)
CopyInv ==
    /\ copies = IF handle = "copy" /\ pc \in {"save", "end", "aborted"} THEN 1 ELSE 0
    /\ handle = "copy" => pc \in {"save", "end", "aborted", "idle"}
    /\ originalAlive = TRUE

LEMMA NextCopy == CopyInv /\ [Next]_allVars => CopyInv'
<1> SUFFICES ASSUME CopyInv, [Next]_allVars PROVE CopyInv'
  OBVIOUS
<1>1. CASE Call
  BY <1>1 DEF Call, CopyInv
<1>2. CASE Reinstall \/ RunDialog
  <2>1. UNCHANGED <<pc, handle, copies, originalAlive>>
    BY <1>2 DEF Reinstall, RunDialog, sessionVars
  <2> QED
    BY <2>1 DEF CopyInv
<1>3. CASE Accept \/ Cancel
  BY <1>3 DEF Accept, Cancel, CopyInv
<1>4. CASE ExportCopy
  <2>1. pc = "export" /\ copies = 0
    BY <1>4 DEF ExportCopy, CopyInv
  <2>2. pc' = "save" /\ handle' = "copy" /\ copies' = 1 /\ originalAlive' = originalAlive
    BY <1>4, <2>1 DEF ExportCopy
  <2> QED
    BY <2>2 DEF CopyInv
<1>5. CASE ExportIgnore
  BY <1>5 DEF ExportIgnore, CopyInv
<1>6. CASE SaveTrue \/ SaveFalse \/ SaveAborts
  BY <1>6 DEF SaveTrue, SaveFalse, SaveAborts, CopyInv
<1>7. CASE EndRun
  BY <1>7 DEF EndRun, DeletesImage, CopyInv
<1>8. CASE UNCHANGED allVars
  BY <1>8 DEF allVars, sessionVars, CopyInv
<1> QED
  BY <1>1, <1>2, <1>3, <1>4, <1>5, <1>6, <1>7, <1>8 DEF Next, Returning, Stopped

(* However a call ends, the copy gimp_export_image may have made is gone.     *)
THEOREM CopiesAlwaysDeleted == Spec => []CopiesDeleted
<1>1. Init => CopyInv
  BY DEF Init, CopyInv
<1>2. CopyInv => CopiesDeleted
  BY DEF CopyInv, CopiesDeleted
<1> QED
  BY NextCopy, <1>1, <1>2, PTL DEF Spec

(* No call deletes the image of the user.                                     *)
THEOREM OriginalAlwaysKept == Spec => []OriginalKept
<1>1. Init => CopyInv
  BY DEF Init, CopyInv
<1>2. CopyInv => OriginalKept
  BY DEF CopyInv, OriginalKept
<1> QED
  BY NextCopy, <1>1, <1>2, PTL DEF Spec

------------------------------------------------------------------------------
(* Options: they keep their types, and except for a script's they are in      *)
(* order unless a handler is about to put them in order.                      *)
OptionsInv ==
    /\ config \in Config /\ last \in Config
    /\ InOrder(last)
    /\ installed \subseteq Codecs
    /\ pending \in {"none", "min", "max"}
    /\ pending # "none" => pc = "dialog" /\ stage = "open"
    /\ pc # "idle" /\ mode # "NONINTERACTIVE" /\ pending = "none" => InOrder(config)
    /\ pc = "dialog" => mode = "INTERACTIVE"

LEMMA InitOptions == Init => OptionsInv
<1> SUFFICES ASSUME Init PROVE OptionsInv
  OBVIOUS
<1>1. Default \in Config
  BY WorstQualityAssumption DEF Default, Config, Quantizers, Depths, Formats
<1>2. InOrder(Default)
  BY WorstQualityAssumption DEF Default, InOrder
<1> QED
  BY <1>1, <1>2 DEF Init, OptionsInv

(* The repairs leave the quantizers alone.                                    *)
LEMMA RepairedOptions ==
    ASSUME NEW c \in Config
    PROVE  /\ Repaired(c) \in Config
           /\ Repaired(c).minQuantizer = c.minQuantizer
           /\ Repaired(c).maxQuantizer = c.maxQuantizer
<1>1. DepthFor(c) \in Depths
  BY DEF Config, DepthFor, Depths
<1>2. CodecStore(c) \in Codecs \cup DecodeOnly \cup {"auto"}
  BY DEF Config, CodecStore
<1>3. /\ (c.animation /\ AnimationSupported) \in BOOLEAN
      /\ (c.alpha /\ AlphaSupported) \in BOOLEAN
  OBVIOUS
<1> QED
  BY <1>1, <1>2, <1>3 DEF Config, Repaired

LEMMA DialogOptions ==
    ASSUME OptionsInv, pc = "dialog", pc' = pc, mode' = mode, last' = last,
           OpenDialog \/ Handlers \/ CloseDialog \/ MoveMin \/ MoveMax \/ ChooseOption
    PROVE  OptionsInv'
<1>1. CASE OpenDialog
  <2>1. /\ config' \in Config
        /\ config'.minQuantizer = config.minQuantizer
        /\ config'.maxQuantizer = config.maxQuantizer
        /\ pending' = pending
    BY <1>1, RepairedOptions DEF OpenDialog, OptionsInv
  <2> QED
    BY <1>1, <2>1 DEF OptionsInv, InOrder, OpenDialog
<1>2. CASE Handlers
  <2>1. config' \in Config
    BY <1>2 DEF Handlers, MinQuantizerChanged, MaxQuantizerChanged, OptionsInv, Config
  <2>2. /\ pending' \in {"none", "min", "max"} /\ stage' = stage /\ installed' = installed
        /\ pending' = "none" => InOrder(config) /\ config' = config
    BY <1>2 DEF Handlers, MinQuantizerChanged, MaxQuantizerChanged
  <2>3. stage = "open"
    BY <1>2 DEF Handlers, MinQuantizerChanged, MaxQuantizerChanged, OptionsInv
  <2> QED
    BY <2>1, <2>2, <2>3 DEF OptionsInv, InOrder
<1>3. CASE CloseDialog
  BY <1>3 DEF CloseDialog, OptionsInv, InOrder, Idle
<1>4. CASE MoveMin \/ MoveMax
  BY <1>4 DEF MoveMin, MoveMax, OptionsInv, InOrder, Idle, Config
<1>5. CASE ChooseOption
  <2>1. OfferedDepths \subseteq Depths
    BY DEF OfferedDepths, Depths
  <2>2. /\ config' \in Config
        /\ config'.minQuantizer = config.minQuantizer
        /\ config'.maxQuantizer = config.maxQuantizer
    BY <1>5, <2>1 DEF ChooseOption, OptionsInv, Config
  <2> QED
    BY <1>5, <2>2 DEF ChooseOption, OptionsInv, InOrder, Idle
<1> QED
  BY <1>1, <1>2, <1>3, <1>4, <1>5

LEMMA NextOptions == OptionsInv /\ [Next]_allVars => OptionsInv'
<1> SUFFICES ASSUME OptionsInv, [Next]_allVars PROVE OptionsInv'
  OBVIOUS
<1>1. CASE Call
  BY <1>1, SessionAssumption DEF Call, OptionsInv, InOrder
<1>2. CASE RunDialog
  BY <1>2, DialogOptions DEF RunDialog
<1>3. CASE Reinstall \/ Accept \/ Cancel
  BY <1>3 DEF Reinstall, Accept, Cancel, OptionsInv, InOrder, sessionVars, dialogVars
<1>4. CASE ExportCopy \/ ExportIgnore \/ SaveTrue \/ SaveFalse \/ SaveAborts
  BY <1>4 DEF ExportCopy, ExportIgnore, SaveTrue, SaveFalse, SaveAborts, OptionsInv, InOrder, dialogVars
<1>5. CASE EndRun
  BY <1>5 DEF EndRun, KeptOptions, OptionsInv, InOrder, dialogVars
<1>6. CASE UNCHANGED allVars
  BY <1>6 DEF allVars, sessionVars, dialogVars, OptionsInv, InOrder
<1> QED
  BY <1>1, <1>2, <1>3, <1>4, <1>5, <1>6 DEF Next, Returning, Stopped

(* The options GIMP keeps always have their quantizers in order: scripts'     *)
(* options are not kept, and the dialog's handlers have returned by the time  *)
(* it closes.                                                                 *)
THEOREM LastValuesAlwaysInOrder == Spec => []LastValuesInOrder
<1>1. OptionsInv => LastValuesInOrder
  BY DEF OptionsInv, LastValuesInOrder
<1> QED
  BY InitOptions, NextOptions, <1>1, PTL DEF Spec

------------------------------------------------------------------------------
(* The encoder: the options kept hold one, or the automatic choice, because   *)
(* they were accepted in a dialog; and such a choice the dialog repairs if it *)
(* is gone.  In the dialog of a call only the options kept can be unrepaired. *)
ChoiceInv ==
    /\ last.codec \in Codecs \cup {"auto"}
    /\ pc = "dialog" /\ stage = "closed" => config.codec \in Codecs \cup {"auto"}
    /\ \/ pc = "dialog" /\ stage # "closed"
       \/ mode = "INTERACTIVE" /\ pc \in {"export", "save", "end"}
       => config.codec \in installed \cup {"auto"}

LEMMA InitChoice == Init => ChoiceInv
BY DEF Init, ChoiceInv, Default

(* The dialog's own steps.                                                    *)
LEMMA DialogChoice ==
    ASSUME OptionsInv, ChoiceInv, pc = "dialog", pc' = pc, last' = last,
           OpenDialog \/ Handlers \/ CloseDialog \/ MoveMin \/ MoveMax \/ ChooseOption
    PROVE  ChoiceInv'
<1>1. CASE OpenDialog
  <2>1. config'.codec = CodecStore(config) /\ stage = "closed" /\ stage' = "open"
        /\ installed' = installed
    BY <1>1 DEF OpenDialog, Repaired, OptionsInv, Config
  <2>2. CodecStore(config) \in installed \cup {"auto"}
    BY <2>1 DEF ChoiceInv, CodecStore
  <2> QED
    BY <2>1, <2>2 DEF ChoiceInv
<1>2. CASE Handlers \/ CloseDialog \/ MoveMin \/ MoveMax
  <2>1. config'.codec = config.codec
    BY <1>2 DEF Handlers, MinQuantizerChanged, MaxQuantizerChanged, CloseDialog, MoveMin, MoveMax,
                OptionsInv, Config
  <2>2. installed' = installed
    BY <1>2 DEF Handlers, MinQuantizerChanged, MaxQuantizerChanged, CloseDialog, MoveMin, MoveMax
  <2>3. stage # "closed" /\ stage' # "closed"
    BY <1>2 DEF Handlers, MinQuantizerChanged, MaxQuantizerChanged, CloseDialog, MoveMin, MoveMax,
                Idle, OptionsInv
  <2> QED
    BY <2>1, <2>2, <2>3 DEF ChoiceInv
<1>3. CASE ChooseOption
  <2>1. stage = "open" /\ stage' = stage /\ installed' = installed
    BY <1>3 DEF ChooseOption, Idle
  <2>2. config'.codec = config.codec \/ config'.codec \in installed \cup {"auto"}
    BY <1>3 DEF ChooseOption, OptionsInv, Config
  <2> QED
    BY <2>1, <2>2 DEF ChoiceInv
<1> QED
  BY <1>1, <1>2, <1>3

LEMMA NextChoice == OptionsInv /\ ChoiceInv /\ [Next]_allVars => ChoiceInv'
<1> SUFFICES ASSUME OptionsInv, ChoiceInv, [Next]_allVars PROVE ChoiceInv'
  OBVIOUS
<1>1. CASE Call
  BY <1>1 DEF Call, ChoiceInv
<1>2. CASE Reinstall
  BY <1>2 DEF Reinstall, ChoiceInv, sessionVars
<1>3. CASE RunDialog
  BY <1>3, DialogChoice DEF RunDialog
<1>4. CASE Accept \/ Cancel
  BY <1>4 DEF Accept, Cancel, ChoiceInv, dialogVars
<1>5. CASE ExportCopy \/ ExportIgnore \/ SaveTrue \/ SaveFalse \/ SaveAborts
  BY <1>5 DEF ExportCopy, ExportIgnore, SaveTrue, SaveFalse, SaveAborts, ChoiceInv, dialogVars
<1>6. CASE EndRun
  <2>1. \/ last' = last
        \/ mode = "INTERACTIVE" /\ last' = config
    BY <1>6 DEF EndRun, KeptOptions
  <2>2. pc = "end" /\ pc' = "idle" /\ installed \subseteq Codecs
    BY <1>6 DEF EndRun, OptionsInv
  <2> QED
    BY <2>1, <2>2 DEF ChoiceInv
<1>7. CASE UNCHANGED allVars
  BY <1>7 DEF allVars, sessionVars, dialogVars, ChoiceInv
<1> QED
  BY <1>1, <1>2, <1>3, <1>4, <1>5, <1>6, <1>7 DEF Next, Returning, Stopped

(* What a user exports with is an encoder the installed libavif has, or the   *)
(* automatic choice, whatever was installed when the options were stored and  *)
(* whatever codecs scripts ask for: for every set of encoders.                *)
THEOREM ChoiceAlwaysInstalled == Spec => []ChoiceInstalled
<1>1. ChoiceInv => ChoiceInstalled
  BY DEF ChoiceInv, ChoiceInstalled
<1> QED
  BY InitOptions, NextOptions, InitChoice, NextChoice, <1>1, PTL DEF Spec

------------------------------------------------------------------------------
(* What save_layers is given: for a user and for a repeated export, nothing   *)
(* the conversion should have removed.                                        *)
MeetsOptions(img) ==
    /\ img.base # "indexed"
    /\ img.hasAlpha => config.alpha
    /\ img.layers > 1 => config.animation

GivenInv ==
    /\ image \in Image
    /\ pc = "aborted" => mode = "NONINTERACTIVE"
    /\ pc \in {"dialog", "export"} => given = image /\ mode # "NONINTERACTIVE"
    /\ pc \in {"save", "end"} /\ mode # "NONINTERACTIVE" => MeetsOptions(given)
    /\ pc = "end" /\ saved = "TRUE" =>
         file = [alpha |-> given.hasAlpha, animated |-> given.layers > 1]

(* Converted with the options' capabilities an image meets the options.       *)
LEMMA CapableMeets ==
    ASSUME NEW img \in Image
    PROVE  MeetsOptions(Capable(img))
<1> DEFINE base == IF config.format = "gray" THEN "gray"
                   ELSE IF img.base = "indexed" THEN "colour" ELSE img.base
           layers == IF config.animation THEN img.layers ELSE 1
           hasAlpha == img.hasAlpha /\ config.alpha
<1>1. /\ Capable(img).base = base
      /\ Capable(img).layers = layers
      /\ Capable(img).hasAlpha = hasAlpha
  BY DEF Capable, Image
<1>2. base # "indexed"
  OBVIOUS
<1>3. layers > 1 => config.animation
  OBVIOUS
<1>4. hasAlpha => config.alpha
  OBVIOUS
<1> HIDE DEF base, layers, hasAlpha
<1> QED
  BY <1>1, <1>2, <1>3, <1>4, Zenon DEF MeetsOptions

LEMMA NextGiven == GivenInv /\ [Next]_allVars => GivenInv'
<1> SUFFICES ASSUME GivenInv, [Next]_allVars PROVE GivenInv'
  OBVIOUS
<1>1. CASE Call
  BY <1>1, SessionAssumption DEF Call, GivenInv
<1>2. CASE Reinstall
  BY <1>2 DEF Reinstall, GivenInv, sessionVars, MeetsOptions
<1>3. CASE RunDialog
  <2>1. pc = "dialog" /\ UNCHANGED <<pc, mode, given, saved, file>>
    BY <1>3 DEF RunDialog
  <2>2. image' = image
    BY <1>3 DEF RunDialog, OpenDialog, Handlers, MinQuantizerChanged, MaxQuantizerChanged,
                CloseDialog, MoveMin, MoveMax, ChooseOption
  <2> QED
    BY <2>1, <2>2 DEF GivenInv
<1>4. CASE Accept \/ Cancel
  BY <1>4 DEF Accept, Cancel, GivenInv, dialogVars
<1>5. CASE ExportCopy
  <2>1. MeetsOptions(Capable(image))
    BY CapableMeets DEF GivenInv
  <2>2. given' = Capable(image) /\ config' = config /\ image' = image
        /\ pc' = "save" /\ mode' = mode
    BY <1>5 DEF ExportCopy, dialogVars
  <2> QED
    BY <2>1, <2>2 DEF GivenInv, MeetsOptions
<1>6. CASE ExportIgnore
  <2>1. MeetsOptions(Capable(image))
    BY CapableMeets DEF GivenInv
  <2>2. given = Capable(image)
    BY <1>6 DEF ExportIgnore, GivenInv
  <2>3. given' = given /\ config' = config /\ image' = image
        /\ pc' = "save" /\ mode' = mode
    BY <1>6 DEF ExportIgnore, dialogVars
  <2> QED
    BY <2>1, <2>2, <2>3 DEF GivenInv, MeetsOptions
<1>7. CASE SaveTrue \/ SaveFalse
  BY <1>7 DEF SaveTrue, SaveFalse, GivenInv, MeetsOptions, dialogVars
<1>8. CASE SaveAborts
  BY <1>8 DEF SaveAborts, GivenInv, MeetsOptions, dialogVars
<1>9. CASE EndRun
  BY <1>9 DEF EndRun, GivenInv, dialogVars
<1>10. CASE UNCHANGED allVars
  BY <1>10 DEF allVars, sessionVars, dialogVars, GivenInv, MeetsOptions
<1> QED
  BY <1>1, <1>2, <1>3, <1>4, <1>5, <1>6, <1>7, <1>8, <1>9, <1>10 DEF Next, Returning, Stopped

LEMMA InitGiven == Init => GivenInv
BY SessionAssumption DEF Init, GivenInv

(* Only a script's call can reach the assertion in save_layers.               *)
THEOREM OnlyScriptsEverAbort == Spec => []OnlyScriptsAbort
<1>1. GivenInv => OnlyScriptsAbort
  BY DEF GivenInv, OnlyScriptsAbort
<1> QED
  BY InitGiven, NextGiven, <1>1, PTL DEF Spec

(* A user's and a repeated export write alpha and animation only if the       *)
(* options in force ask for them.                                             *)
THEOREM NothingEverUnasked == Spec => []OnlyWhatWasAsked
<1>1. GivenInv => OnlyWhatWasAsked
  <2> SUFFICES ASSUME GivenInv, pc = "end", saved = "TRUE", mode # "NONINTERACTIVE"
               PROVE  (file.alpha => config.alpha) /\ (file.animated => config.animation)
    BY DEF OnlyWhatWasAsked
  <2>1. file.alpha = given.hasAlpha /\ file.animated = (given.layers > 1)
    BY DEF GivenInv
  <2>2. (given.hasAlpha => config.alpha) /\ (given.layers > 1 => config.animation)
    BY DEF GivenInv, MeetsOptions
  <2> QED
    BY <2>1, <2>2, Zenon
<1> QED
  BY InitGiven, NextGiven, <1>1, PTL DEF Spec
------------------------------------------------------------------------------
(* Types: what the options and the image leave open.                          *)
SessionInv ==
    /\ given \in Image
    /\ stage \in {"closed", "open", "accepted", "cancelled"}
    /\ pc \in {"idle", "dialog", "export", "save", "end", "aborted"}
    /\ mode \in Modes /\ saved \in {"none", "TRUE", "FALSE"}
    /\ handle \in {"original", "copy"}
    /\ runs \in 0..MaxRuns /\ edits \in 0..MaxEdits

(* The conversion keeps every image an image.                                 *)
LEMMA CapableTyped ==
    ASSUME NEW img \in Image, config \in Config
    PROVE  Capable(img) \in Image
<1> DEFINE base == IF config.format = "gray" THEN "gray"
                   ELSE IF img.base = "indexed" THEN "colour" ELSE img.base
           layers == IF config.animation THEN img.layers ELSE 1
           hasAlpha == img.hasAlpha /\ config.alpha
           after == Capable(img)
<1>1. /\ after = [f \in DOMAIN after |-> after[f]]
      /\ DOMAIN after = {"eightBit", "hasAlpha", "layers", "base"}
      /\ after.base = base /\ after.layers = layers
      /\ after.eightBit = img.eightBit
  BY DEF Capable, Image
<1>2. after.hasAlpha = hasAlpha
  BY DEF Capable, Image
<1>3. base \in Bases /\ layers \in 1..2 /\ img.eightBit \in BOOLEAN
  BY DEF Bases, Image
<1>4. hasAlpha \in BOOLEAN
  OBVIOUS
<1> HIDE DEF base, layers, hasAlpha, after
<1>5. after.hasAlpha \in BOOLEAN /\ after.eightBit \in BOOLEAN
  BY <1>1, <1>2, <1>3, <1>4, Zenon
<1>6. after \in Image
  BY <1>1, <1>3, <1>5 DEF Image
<1> QED
  BY <1>6 DEF after

LEMMA NextSession == SessionInv /\ OptionsInv /\ GivenInv /\ [Next]_allVars => SessionInv'
<1> SUFFICES ASSUME SessionInv, OptionsInv, GivenInv, [Next]_allVars PROVE SessionInv'
  OBVIOUS
<1> USE SessionAssumption DEF SessionInv
<1>1. CASE Call
  BY <1>1 DEF Call, Modes
<1>2. CASE Reinstall
  BY <1>2 DEF Reinstall, sessionVars
<1>3. CASE RunDialog
  <2>1. UNCHANGED <<pc, mode, given, handle, saved, runs>>
    BY <1>3 DEF RunDialog
  <2>2. stage' \in {"closed", "open", "accepted", "cancelled"}
    BY <1>3 DEF RunDialog, OpenDialog, Handlers, MinQuantizerChanged, MaxQuantizerChanged,
                CloseDialog, MoveMin, MoveMax, ChooseOption
  <2>3. edits' \in 0..MaxEdits
    BY <1>3 DEF RunDialog
  <2> QED
    BY <2>1, <2>2, <2>3
<1>4. CASE Accept \/ Cancel
  BY <1>4 DEF Accept, Cancel, dialogVars
<1>5. CASE ExportCopy
  <2>1. given' \in Image
    BY <1>5, CapableTyped DEF ExportCopy, OptionsInv, GivenInv
  <2> QED
    BY <1>5, <2>1 DEF ExportCopy, dialogVars
<1>6. CASE ExportIgnore
  BY <1>6 DEF ExportIgnore, dialogVars
<1>7. CASE SaveTrue \/ SaveFalse \/ SaveAborts
  BY <1>7 DEF SaveTrue, SaveFalse, SaveAborts, dialogVars
<1>8. CASE EndRun
  BY <1>8 DEF EndRun, dialogVars
<1>9. CASE UNCHANGED allVars
  BY <1>9 DEF allVars, sessionVars, dialogVars
<1> QED
  BY <1>1, <1>2, <1>3, <1>4, <1>5, <1>6, <1>7, <1>8, <1>9 DEF Next, Returning, Stopped

(* Whatever the user, scripts and reinstalled libraries do, every variable of *)
(* a session of exports keeps its type.                                       *)
THEOREM SessionAlwaysTyped == Spec => []SessionTypeOK
<1>1. Init => SessionInv
  BY SessionAssumption DEF Init, SessionInv, Modes
<1>2. SessionInv /\ OptionsInv /\ GivenInv => SessionTypeOK
  BY DEF SessionInv, OptionsInv, GivenInv, SessionTypeOK
<1> QED
  BY InitOptions, NextOptions, InitGiven, NextGiven, NextSession, <1>1, <1>2, PTL DEF Spec
==============================================================================

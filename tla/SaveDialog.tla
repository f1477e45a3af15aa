------------------------------ MODULE SaveDialog ------------------------------
(* save_dialog: the export dialog working on the procedure's config object.   *)
(*                                                                            *)
(* Opening the dialog first repairs options the image or the installed        *)
(* libavif cannot honour.  Then the user changes options; setting either      *)
(* quantizer emits a notify signal whose handler may set the other one, which *)
(* emits the other signal while the first handler is still running.  Nothing  *)
(* follows the set in either handler, so one pending handler is the whole     *)
(* call stack.                                                                *)
EXTENDS Integers

CONSTANTS WorstQuality, \* AVIF_QUANTIZER_WORST_QUALITY
          Codecs        \* the encoders the dialog knows: aom, rav1e, svt

ASSUME WorstQualityAssumption == WorstQuality \in Nat

(* Codecs av1-encoder can hold that never encode.                             *)
DecodeOnly == {"dav1d", "libgav1"}

ASSUME CodecsAssumption == Codecs \cap (DecodeOnly \cup {"auto"}) = {}

VARIABLES config,       \* the options of this run
          image,        \* what the dialog asks about the image
          installed,    \* the AV1 encoders of the installed libavif
          stage,        \* "closed", "open", "accepted" or "cancelled"
          pending,      \* the notify handler about to run, or "none"
          moved         \* the slider moved last and its value, for the properties

dialogVars == <<config, image, installed, stage, pending, moved>>

------------------------------------------------------------------------------
Quantizers == 0..WorstQuality
Depths     == 8..12          \* what the argument save-bit-depth can hold
OfferedDepths == {8, 10, 12} \* what the dialog's combo box offers
Formats    == {"colour", "gray"}      \* YUV444, YUV422 and YUV420; YUV400
Images     == [eightBit : BOOLEAN, hasAlpha : BOOLEAN, layers : 1..2]

Config ==
    [minQuantizer : Quantizers, maxQuantizer : Quantizers, depth : Depths,
     codec : Codecs \cup DecodeOnly \cup {"auto"}, format : Formats,
     alpha : BOOLEAN, animation : BOOLEAN]

NoMove == [slider |-> "none", value |-> 0]

(* avifplugin_create_codec_store: an encoder that is gone becomes "auto".     *)
(* Only encoders are looked for: a codec that never encodes stays chosen,     *)
(* although the combo box does not offer it.                                  *)
CodecStore_noSVT(c) == IF c.codec \in Codecs \ (installed \cup {"svt"}) THEN "auto" ELSE c.codec
CodecStore_unset(c) == IF c.codec \in Codecs \ installed THEN "unset" ELSE c.codec
CodecStore(c) == IF c.codec \in Codecs \ installed THEN "auto" ELSE c.codec

(* An 8 bit image is not offered more by default, a deeper one not less.      *)
DepthFor(c) ==
    IF image.eightBit /\ c.depth > 8 THEN 8
    ELSE IF ~image.eightBit /\ c.depth < 10 THEN 10
    ELSE c.depth

AnimationSupported == image.layers > 1
AlphaSupported     == image.hasAlpha

Repaired(c) ==
    [c EXCEPT !.depth = DepthFor(c),
              !.codec = CodecStore(c),
              !.animation = @ /\ AnimationSupported,
              !.alpha = @ /\ AlphaSupported]

(* save_dialog up to the moment the dialog runs.                              *)
OpenDialog ==
    /\ stage = "closed"
    /\ stage' = "open"
    /\ config' = Repaired(config)
    /\ moved' = NoMove
    /\ UNCHANGED <<image, installed, pending>>

------------------------------------------------------------------------------
Idle == stage = "open" /\ pending = "none"

(* The user drags a quantizer slider: the property changes, its notify signal *)
(* is emitted.                                                                *)
MoveMin ==
    /\ Idle
    /\ \E q \in Quantizers :
         /\ config' = [config EXCEPT !.minQuantizer = q]
         /\ moved' = [slider |-> "min", value |-> q]
    /\ pending' = "min"
    /\ UNCHANGED <<image, installed, stage>>

MoveMax ==
    /\ Idle
    /\ \E q \in Quantizers :
         /\ config' = [config EXCEPT !.maxQuantizer = q]
         /\ moved' = [slider |-> "max", value |-> q]
    /\ pending' = "max"
    /\ UNCHANGED <<image, installed, stage>>

(* The pairs both handlers leave alone.                                       *)
InOrder_strict(c) == c.minQuantizer < c.maxQuantizer
InOrder(c) == c.minQuantizer <= c.maxQuantizer

(* The maximum follows a minimum above it ...                                 *)
MinQuantizerChanged_pullsBack ==
    /\ pending = "min"
    /\ IF InOrder(config)
       THEN pending' = "none" /\ UNCHANGED config
       ELSE /\ config' = [config EXCEPT !.minQuantizer = config.maxQuantizer]
            /\ pending' = "min"
    /\ UNCHANGED <<image, installed, stage, moved>>

MinQuantizerChanged ==
    /\ pending = "min"
    /\ IF InOrder(config)
       THEN pending' = "none" /\ UNCHANGED config
       ELSE /\ config' = [config EXCEPT !.maxQuantizer = config.minQuantizer]
            /\ pending' = "max"
    /\ UNCHANGED <<image, installed, stage, moved>>

(* ... and the minimum a maximum below it.                                    *)
MaxQuantizerChanged_missing ==
    /\ pending = "max"
    /\ pending' = "none"
    /\ UNCHANGED <<config, image, installed, stage, moved>>

MaxQuantizerChanged ==
    /\ pending = "max"
    /\ IF InOrder(config)
       THEN pending' = "none" /\ UNCHANGED config
       ELSE /\ config' = [config EXCEPT !.minQuantizer = config.maxQuantizer]
            /\ pending' = "min"
    /\ UNCHANGED <<image, installed, stage, moved>>

------------------------------------------------------------------------------
(* The other widgets offer only what the dialog put into them.                *)
ChooseOption ==
    /\ Idle
    /\ \/ \E d \in OfferedDepths : config' = [config EXCEPT !.depth = d]
       \/ \E f \in Formats : config' = [config EXCEPT !.format = f]
       \/ \E c \in installed \cup {"auto"} : config' = [config EXCEPT !.codec = c]
       \/ AlphaSupported /\ config' = [config EXCEPT !.alpha = ~@]
       \/ AnimationSupported /\ config' = [config EXCEPT !.animation = ~@]
    /\ UNCHANGED <<image, installed, stage, pending, moved>>

CloseDialog ==
    /\ Idle
    /\ stage' \in {"accepted", "cancelled"}
    /\ UNCHANGED <<config, image, installed, pending, moved>>

Handlers == MinQuantizerChanged \/ MaxQuantizerChanged
User     == MoveMin \/ MoveMax \/ ChooseOption \/ CloseDialog

DialogNext == OpenDialog \/ Handlers \/ User

------------------------------------------------------------------------------
(* The dialog by itself, opened on any stored options: a script or an edited  *)
(* settings file may leave the quantizers in any order.                       *)
DialogInit ==
    /\ config \in Config
    /\ image \in Images
    /\ installed \in SUBSET Codecs
    /\ stage = "closed" /\ pending = "none" /\ moved = NoMove

DialogDone == stage \in {"accepted", "cancelled"} /\ UNCHANGED dialogVars

(* The toolkit opens the dialog and runs the handlers; the user is free.      *)
DialogSpec ==
    /\ DialogInit /\ [][DialogNext \/ DialogDone]_dialogVars
    /\ WF_dialogVars(OpenDialog) /\ WF_dialogVars(Handlers)

------------------------------------------------------------------------------
DialogTypeOK ==
    /\ config \in Config
    /\ image \in Images
    /\ installed \in SUBSET Codecs
    /\ stage \in {"closed", "open", "accepted", "cancelled"}
    /\ pending \in {"none", "min", "max"}
    /\ moved \in [slider : {"none", "min", "max"}, value : Quantizers]

Settled == stage # "closed" /\ pending = "none" /\ moved # NoMove

(* Once the user has moved either slider and the handlers have returned, the  *)
(* pair is in order, however far apart or inverted it was before.             *)
QuantizersSettle == Settled => config.minQuantizer <= config.maxQuantizer

(* The handlers move the other slider, never the one in the user's hand,      *)
(* although the handler of the other slider runs nested in the first one.     *)
SliderKept ==
    Settled => /\ moved.slider = "min" => config.minQuantizer = moved.value
               /\ moved.slider = "max" => config.maxQuantizer = moved.value

(* The two handlers never keep setting off each other.                        *)
HandlersReturn == (pending # "none") ~> (pending = "none")
==============================================================================

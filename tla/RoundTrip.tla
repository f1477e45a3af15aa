------------------------------- MODULE RoundTrip -------------------------------
(* An export and an import of the same path, the way GIMP users check their   *)
(* exports: SaveLayers writes the file, is cut off or killed on the way, and  *)
(* LoadImage then reads what is there.  Both run in processes of their own    *)
(* and share nothing but the file.                                            *)
EXTENDS SaveLayers, SampleDepth

CONSTANTS WordSize, MinTileSide,    \* as in CleanAperture and AvifDecoder
          GraySamples               \* the 16-bit samples to follow through both

ASSUME GraySamplesAssumption == GraySamples \subseteq Samples(16)

(* The codes libavif has chromaticities for name neither none nor unknown     *)
(* primaries, and GIMP keeps the sides of a drawable in ints.                 *)
ASSUME SharedAssumption ==
    /\ WordSize \in Nat \ {0} /\ WordSize % 2 = 0
    /\ {0, 2} \cap ColorPrimaries = {}
    /\ \A r \in Requests : \A i \in 1..n_drawables(r) :
          /\ r.layers[i].width \in 1..(WordSize \div 2 - 1)
          /\ r.layers[i].height \in 1..(WordSize \div 2 - 1)

(* The variables of the import.                                               *)
VARIABLES import_file, import_pc, import_held, import_error, import_avif, import_profile,
          loadgray, loadlinear, import_pixels, image, final_size, metadata, import_result

Import == INSTANCE LoadImage WITH
    Files <- {}, KnownPrimaries <- ColorPrimaries,
    file <- import_file, pc <- import_pc, held <- import_held, error <- import_error,
    avif <- import_avif, profile <- import_profile, pixels <- import_pixels,
    result <- import_result

importVars == <<import_file, import_pc, import_held, import_error, import_avif, import_profile,
                loadgray, loadlinear, import_pixels, image, final_size, metadata, import_result>>

------------------------------------------------------------------------------
(* What the decoder finds in a file of the encoder.                           *)
PictureOf(encoded, format) ==
    [width |-> encoded.width, height |-> encoded.height, depth |-> encoded.depth,
     yuvFormat |-> format, grid |-> <<>>, mixed |-> FALSE, broken |-> FALSE]

(* The profile embedded for the image may be linear or not, whatever the      *)
(* precision of the drawables.                                                *)
ProfilesIn(colour) ==
    CASE colour.icc = "none"  -> {<<>>}
      [] colour.icc = "image" -> {<<[kind |-> "RGB", linear |-> l]>> : l \in BOOLEAN}
      [] OTHER -> {<<[kind |-> "GRAY", linear |-> colour.icc = "gray linear"]>>}

(* Exif and XMP may be refused when they are read back.                       *)
ReadBack(present) == IF present THEN {"good", "bad"} ELSE {"none"}

SourcesOf(encoded, orientation) ==
    {[colour |-> PictureOf(encoded, encoded.yuvFormat),
      alpha |-> IF encoded.alpha THEN <<PictureOf(encoded, "YUV400")>> ELSE <<>>,
      premultiplied |-> FALSE, samples |-> TRUE, av1C |-> TRUE, icc |-> icc,
      nclx |-> <<[primaries |-> encoded.colour.primaries, transfer |-> encoded.colour.transfer,
                  matrix |-> encoded.colour.matrix, range |-> "full"]>>,
      header |-> <<>>, clap |-> <<>>, irot |-> encoded.irot, imir |-> encoded.imir,
      exif |-> exif, xmp |-> xmp, orientation |-> orientation] :
        icc \in ProfilesIn(encoded.colour),
        exif \in ReadBack(encoded.exif), xmp \in ReadBack(encoded.xmp)}

(* A sequence is described by tracks, and its first frame by items as well.   *)
FileWith(brand, source) ==
    [kind |-> "avif", major |-> brand, items |-> <<source>>,
     tracks |-> IF brand = "avis" THEN <<source>> ELSE <<>>]

Missing == [kind |-> "missing", major |-> "other", tracks |-> <<>>, items |-> <<>>]

(* A file cut short may have no bytes at all, end before its brands or before *)
(* its descriptions, or be without some of the samples, which come last.      *)
ShortFiles ==
    {[Missing EXCEPT !.kind = kind] : kind \in {"empty", "other"}}
    \cup {[Missing EXCEPT !.kind = "avif", !.major = brand] : brand \in {"avif", "avis"}}
    \cup {FileWith(raw[1].brand, [source EXCEPT !.samples = FALSE]) :
            source \in SourcesOf(raw[1], req.orientation)}

(* What a decoder finds at the path, which held no file before the export: an *)
(* untouched destination is missing.  (That an export which fails early leaves *)
(* an older file alone is ExportContract's.)                                  *)
FilesAt ==
    CASE dest.state = "old"      -> {Missing}
      [] dest.state = "empty"    -> {[Missing EXCEPT !.kind = "empty"]}
      [] dest.state = "short"    -> ShortFiles
      [] dest.state = "complete" -> {FileWith(dest.file[1].brand, source) :
                                       source \in SourcesOf(dest.file[1], req.orientation)}

------------------------------------------------------------------------------
RoundTripInit == Init /\ Import!Init

Export == (Step \/ Kill) /\ UNCHANGED importVars

Reopen ==
    /\ Ended
    /\ \E f \in FilesAt : Import!Call(f)
    /\ UNCHANGED vars

Load == (Import!Step \/ Import!Kill) /\ UNCHANGED vars

RoundTripDone == Import!Ended /\ UNCHANGED <<vars, importVars>>

RoundTripNext == Export \/ Reopen \/ Load \/ RoundTripDone

RoundTripSpec == RoundTripInit /\ [][RoundTripNext]_<<vars, importVars>>

------------------------------------------------------------------------------
Loaded == import_result = "SUCCESS"

(* Where in the stored picture a pixel of the upright one lies, by the        *)
(* meaning of Exif orientations: which sides row 0 and column 0 are.          *)
Upright(orientation, x, y, width, height) ==
    CASE orientation = 1 -> <<x, y>>
      [] orientation = 2 -> <<width - 1 - x, y>>
      [] orientation = 3 -> <<width - 1 - x, height - 1 - y>>
      [] orientation = 4 -> <<x, height - 1 - y>>
      [] orientation = 5 -> <<y, x>>
      [] orientation = 6 -> <<y, height - 1 - x>>
      [] orientation = 7 -> <<width - 1 - y, height - 1 - x>>
      [] orientation = 8 -> <<width - 1 - y, x>>

(* The image shows the exported layer the way a viewer that honours the Exif  *)
(* data of the file does; without Exif data, as GIMP had it.                  *)
ShowsExported(im, encoded) ==
    LET orientation == IF encoded.exif THEN req.orientation ELSE 1
        width       == req.layers[1].width
        height      == req.layers[1].height
    IN  /\ <<im.width, im.height>> = IF orientation < 5 THEN <<width, height>>
                                                        ELSE <<height, width>>
        /\ \A x \in 0..(im.width - 1), y \in 0..(im.height - 1) :
              im.at[<<x, y>>] = Upright(orientation, x, y, width, height)
        /\ \A i \in DOMAIN metadata : metadata[i].orientation = 1

(* Gray comes back what has no chroma: gray drawables, and coloured ones      *)
(* written as YUV400 unless an embedded profile says that they are RGB.       *)
ComesBackGray == is_gray(req) \/ (req.format = "YUV400" /\ ~req.icc)

(* Only a complete file ever comes back as an image; it then is the exported  *)
(* one: gray or coloured, of the class of its depth, with its alpha, its      *)
(* curve, its declared primaries (gray has GIMP's own D65 profile), upright,  *)
(* and never made of unwritten memory, whatever failed on either way.         *)
ImportedIsExported ==
    Loaded =>
        LET im      == image[1]
            encoded == dest.file[1]
        IN  /\ dest.state = "complete"
            /\ im.base = IF ComesBackGray THEN "GRAY" ELSE "RGB"
            /\ im.bits = IF req.depth > 8 THEN 16 ELSE 8
            /\ im.alpha = encoded.alpha
            /\ im.content = "straight"
            /\ encoded.colour.icc # "image" => im.linear = req.linear
            /\ encoded.colour.icc = "none" =>
                 \A i \in DOMAIN im.profile :
                    im.profile[i].primaries = IF ComesBackGray THEN 1 ELSE encoded.colour.primaries
            /\ ShowsExported(im, encoded)

(* Gray and alpha samples go through two conversions written twice each (the  *)
(* loops of save_layers choose one by the requested depth, those of           *)
(* load_image by depth and range of the file): they come back within the      *)
(* rounding of the file's depth, black and white (and what is transparent or  *)
(* opaque) exactly, and exporting the imported image again changes nothing.   *)
SamplesSurvive ==
    Loaded /\ loadgray =>
        LET scale    == dest.file[1].frames[1].scale
            depth    == import_avif.depth
            range    == import_avif.yuvRange
            fetched  == IF req.depth = 8 THEN 8 ELSE 16
        IN  \A v \in GraySamples \cap Samples(fetched) : \A code \in Exported(v, scale) :
              /\ code \in Samples(depth)
              /\ \A back \in Imported(code, depth, range) :
                    /\ Distance(v, back) <= Loss(depth)
                    /\ v \in {0, White(fetched)} => back = v
                    /\ Exported(back, scale) = {code}
==============================================================================

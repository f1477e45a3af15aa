# Verification of the GIMP AVIF plug-in

This directory holds TLA+ models of `file-avif`, the GIMP 2.99 plug-in that
imports and exports AVIF images, the TLC configurations that check them on small
instances and TLAPS proofs for every value of their constants. Paths are relative
to the repository root; `src/...` are the plug-in's own files.

## 1. The system

The plug-in is a separate process that GIMP starts for one procedure call. It has
one thread; what it waits for are calls into GIMP (over the wire protocol), GEGL
and babl (pixels and colour spaces), lcms (profiles), gexiv2 (metadata) and
libavif, which calls an AV1 codec. No state survives a call except what GIMP
itself keeps: the images, and the options ("last values") of each procedure.

### 1.1 Components

**Registration** (`src/file-avif.c`: `avif_query_procedures`,
`avif_create_procedure`). No state. Registers `file-avif-load` and
`file-avif-save`, the ranges and defaults of the fourteen options and the image
types accepted (`"*"`). Correct when every value a caller can pass is one the
other parts handle.

**Export procedure** (`avif_save`, `src/file-avif.c`). State: a
`GimpProcedureConfig`, and the local variables `image`, `drawables`, `export`.
Begins the run (options from a script's arguments or from the last values), runs
the dialog if interactive, lets `gimp_export_image` replace the image by a
converted copy if interactive or repeated, calls `save_layers`, ends the run (GIMP
keeps the options of a successful interactive run), deletes the copy. Hard: the
copy must be deleted on every path and the user's image on none; options stored by
one call are used by later ones on other images and another libavif.

**Export dialog** (`save_dialog`, `src/file-avif-dialog.c`). State: the config's
properties, shared with `avif_save`. Repairs stored options, then lets the user
edit them. The notify handlers `min_quantizer_changed` and `max_quantizer_changed`
each set the other property, which runs the other handler nested in the first.
Hard: handlers that undo the user's move or call each other for ever; a stored
encoder that is gone, or a stored codec that only decodes.

**Export of the drawables** (`save_layers`, `src/file-avif-save.c`). State: seven
things to release (profile, `avifImage`, pixel buffer, filtered metadata, encoder,
encoded data, file), one `GError`, one pixel buffer and one `avifImage` reused for
all frames, `frame_index`. A single function of 750 lines with eight exits. Hard:
each exit has its own list of things to release; the size of a pixel is written
down three times; a failed colour conversion is ignored; the pixel space is
replaced after the colours have been declared, and may turn out not to exist;
nothing may touch the old file before the new one exists; any call may fail and GIMP may kill the process.

**Tile layout** (`avifplugin_set_tiles`, `avifplugin_set_tiles_recursive`). State:
the two tile logarithms of the encoder. A greedy recursion that halves the longer
side. Hard: the boundaries of AV1's limits, and that the greedy choice gets there.

**Matching of primaries** (`ColorPrimariesBestMatch`). A pure function on
floating-point chromaticities.

**Import** (`avif_load`, `load_image`, `src/file-avif-load.c`). State: the input
file, its data, the decoder, Exif/XMP blobs, the profile, the decoded image. Reads
the file, decodes the first image, chooses or builds a profile, converts gray
(own loops) or colour (libavif) samples into a layer, crops, rotates and mirrors
it and attaches the metadata. Hard: six early exits with different things to
release, data the decoder goes on reading from the file's buffer, a conversion
failure that is only printed, gray loops that bypass libavif's unpremultiplication,
transformations that do not commute, a crop computed from unsigned fractions in
doubles, sample scaling between 8, 10, 12 and 16 bits.

**Profiles from NCLX** (`_create_lcms_profile_from_NCLX` in
`src/file-avif-load.c`). lcms calls without state; no profile for a curve it does
not know.

**libavif** (`ext/libavif`, vendored, version 0.11.1): the encoder
(`src/write.c`), the decoder (`src/read.c`), colour conversion (`src/reformat.c`).
The encoder is a protocol the plug-in must keep over several calls: settings and
formats frozen by the first frame, a "single" flag, sizes, and the silent
translation of an Exif orientation into `irot` and `imir`. The decoder chooses
between tracks and items, assembles grids from tiles that overlap the picture, and
decides what is refused.

External: GIMP, GEGL, babl, lcms, gexiv2, GTK, the AV1 codecs. They are modelled
only as the choices they give the plug-in.

### 1.2 Interaction

```
GIMP --call--> avif_save --config--> save_dialog <--user
                  |  \--> gimp_export_image (may make a copy)
                  |
                  +--> save_layers --> babl/GEGL (pixels), gexiv2 (metadata)
                          |    \--> avifplugin_set_tiles
                          +--> avifEncoderCreate / AddImage* / Finish --> codec
                          +--> fopen, fwrite, fclose (destination)
GIMP --call--> avif_load --> load_image --> avifDecoder*, lcms, GEGL
```

All are synchronous calls, or callbacks run inside them. The sources of
nondeterminism are which call fails, what the user and scripts do, what is
installed, and when GIMP kills the process; the concurrency that exists is that of
GIMP ending the process between any two steps, and of nested signal handlers.

## 2. Modules

| module | models | kind |
|---|---|---|
| `TileLayout` | `avifplugin_set_tiles` and its recursion | state machine |
| `AvifEncoder` | libavif's encoder: create, add image, finish | operators on a record |
| `ExportContract` | what callers of an export rely on | abstract specification |
| `SaveLayers` | `save_layers` | state machine, implements `ExportContract` |
| `SaveDialog` | `save_dialog` and its handlers | state machine |
| `AvifSave` | `avif_save`, session of calls; extends `SaveDialog` | state machine |
| `CleanAperture` | the crop in `load_image`, and libavif's exact conversion of the same box | operators |
| `AvifDecoder` | libavif's decoder: parse, first image, grids; extends `CleanAperture` | operators on a file |
| `ImportContract` | what callers of an import rely on | abstract specification |
| `LoadImage` | `avif_load` and `load_image`; extends `AvifDecoder` | state machine, implements `ImportContract` |
| `SampleDepth` | the loops that convert gray and alpha samples, in both directions | operators |
| `RoundTrip` | an export and an import of the same path: `SaveLayers`, an instance of `LoadImage`, `SampleDepth` | composition |
| `TileLayoutProofs` | theorems about `TileLayout` | proofs |
| `SaveLayersProofs`, `SaveLayersContractProofs` | about `SaveLayers`: resources, errors, settings; then the file it writes and `ExportContract` | proofs |
| `AvifSaveProofs` | about `SaveDialog` and `AvifSave` | proofs |
| `LoadImageProofs`, `LoadImageContractProofs` | about `CleanAperture`, `AvifDecoder` and `LoadImage`; then the image it delivers and `ImportContract` | proofs |
| `SampleDepthProofs`, `RoundTripProofs` | about `SampleDepth`, and about the composition from all of the above | proofs |
| `MCTileLayout`, `MCSaveLayers`, `MCAvifSave`, `MCLoadImage`, `MCRoundTrip`; `MCSaveClaims`, `MCLoadClaims` | instances for TLC; claims of the repository TLC refutes | model checking |

Names with a suffix after an underscore (`LayerAt_fromTop`, `Capable_noAlphaTest`)
are deliberately wrong variants of the definition after them. No specification
uses them; each is there to show that some property fails when the code has that
fault.

### 2.1 TileLayout
Variables `width`, `height`, `needed` are the arguments of the pending call of
`avifplugin_set_tiles_recursive`; `tileColsLog2`, `tileRowsLog2` the encoder's
fields. `Init` is the arithmetic of `avifplugin_set_tiles` up to the first call,
`SplitCols` and `SplitRows` are the branches of the recursion, `Return` its end.

### 2.2 AvifEncoder
`avifEncoderAddImage` runs to its end on the caller's thread, so the encoder is a
record and the calls are functions: `Verdict` is the sequence of refusals in the
order of the source, `WithFrame` the state after success, `EncodedFile` what
`avifEncoderFinish` writes. `avifImageSetMetadataExif` sets the image's `irot` and
`imir` from the orientation the Exif data state (`irotFor`, `imirFor`). Grids,
layers, codec-specific options and the layout of boxes are left out, because the
plug-in does not use them.

### 2.3 SaveLayers
One action per phase of the function; `pc` names the phase about to run.

| phase | actions | lines of `src/file-avif-save.c` |
|---|---|---|
| checks | `Refuse` | entry, size comparison |
| colour space | `GetSpace`, `CreateImage` | effective profile, babl space, `avifImageCreate` |
| description | `DescribeICC`, `DescribeNCLX` | profile or CICP codes |
| buffer | `AllocatePixels`, `Abort` | `switch (drawable_type)` |
| metadata | `FilterMetadata` ... `AttachXMP` | the `metadata` block |
| encoder | `CreateEncoder` | settings and `avifImageAllocatePlanes` |
| frame loop | `FetchFrame`, `ConvertGray`, `ConvertColour`, `AddFrame`, `AddFails` | the loop, bottom layer first |
| output | `Finish`, `FinishFails`, `Open`, `OpenFails`, `Write`, `ReturnTrue` | the end |
| any | `Kill` | GIMP ends the process |

`held` records for each resource whether it is live, freed, `lost` (acquired over
a live one) or `corrupt` (released when not live). Pixels are the number of the
layer they came from; 0 is memory nobody wrote. `space` is `NoSpace` after either of
two failures: that of the profile's space is replaced (`CreateImage`), that of the
space made of the CICP primaries (`NclxSpaces`) is only warned about, and the pixels
are then fetched in babl's `DefaultSpace`. The exact line ranges of every
definition are in `PROJECT.json`.

### 2.4 SaveDialog and AvifSave
In `SaveDialog`, `config` is the procedure's config, with every value its registered
ranges allow; `av1-encoder` ranges over libavif's enumeration up to SVT, which has two
codecs that only decode (`DecodeOnly`). `CodecStore` replaces encoders that are not
installed and leaves those two as they are. Moving a slider sets a
property and leaves its notify handler `pending`. In both handlers the set is the
last statement, so one pending handler stands for the whole stack of nested ones.
`AvifSave` runs the same dialog inside `avif_save`, over several calls that share
`last`, the options GIMP keeps, and `installed`, the encoders libavif has.
`save_layers` is reduced there to its answer, which `SaveLayers` justifies.

### 2.5 ExportContract
Five actions: `Truncate`, `Store`, `Succeed`, `Fail`, `Die`. The destination keeps
its old content until a whole acceptable file is at hand; `FALSE` implies that the
destination was not touched. `Store` may store a part only: the code ignores the
result of `fwrite` (see findings), and the contract states what the code gives.

### 2.6 CleanAperture and AvifDecoder
`CleanAperture` has the two computations of a crop side by side. `Crops` is what
`load_image` does, axis by axis: `NewSide` and `NewOffset` take the box's unsigned
words through a double, round, convert to `gint` (a set of results where C leaves
the conversion undefined: x86 and ARM differ) and clamp. `avifCropRect` is
libavif's `avifCropRectConvertCleanApertureBox`, exact fractions in 32 bits. The
width of a word is the constant `WordSize`. Doubles are replaced by exact fractions:
a file's words have 32 bits and libavif limits an image side to 32768, so that the
quotients that matter are further from an integer than a double's error.

`AvifDecoder` takes a file as what its boxes say (a `Source` for the tracks and one
for the items). `SourceOf`, `Parses`, `Decodes` are the choices and refusals of
`avifDecoderParse`, `avifDecoderReset` and `avifDecoderNextImage` with the settings
the plug-in makes (no strictness, nothing incremental); `DecodedImage` is
`decoder->image` afterwards. `FilledPlane` is the set of samples of a plane that
`avifDecoderDataFillImageGrid` copies from tiles.

### 2.7 LoadImage and ImportContract
One action per phase of `load_image`, `pc` and `held` as in `SaveLayers`.

| phase | actions | lines of `src/file-avif-load.c` |
|---|---|---|
| call | `Call`, `Return` (`avif_load` in `src/file-avif.c`) | entry and answer |
| file | `OpenFile`, `OpenFails`, `RefuseEmpty`, `Allocate`, `AllocateFails`, `ReadFile`, `ReadFails`, `RefuseType` | up to the brand check |
| decoder | `CreateDecoder`, `Parse`, `Decode`, `DecodeFails` | up to the first image |
| metadata | `NewMetadata`, `ReadExif`, `ReadXMP` | Exif and XMP |
| profile | `LoadICC`, `LoadGrayProfile`, `MakeProfile`, `WrapProfile`, `CloseProfile` | ICC, else gray, else NCLX |
| survived errors | `ReportError` | the `g_clear_error` of four calls |
| image | `LoadGray`, `LoadColour`, `InsertLayer` | buffer, conversion, layer |
| display | `Crop`, `Rotate`, `Mirror` | `clap`, `irot`, `imir` |
| end | `Finish` | metadata, release |
| any | `Kill` | GIMP ends the process |

`image[1].at` maps each pixel to the place of the decoded picture it shows; this is
what crop, turn and mirror permute. `content` says whether the samples are straight,
still multiplied by their alpha, or unwritten memory. What GIMP's crop, rotation and
flip do is taken from their documentation and marked external, as is GLib's rule
that a call with an error has set the `GError` and one without has not.

`ImportContract` has five actions (`Call`, `Fail`, `Build`, `Deliver`, `Die`): no
image is made before the file has turned out readable, what is made is delivered
unless the process ends, and what is delivered is among the images the file
describes. `DescribedBy` gives those: the file's gray/colour, depth class,
linearity, profile and alpha, computed from the boxes and not from `load_image`'s
variables. It admits what the code really gives for conversions libavif refuses and
for premultiplied gray; both are findings.

### 2.8 SampleDepth and RoundTrip
`Exported` and `Imported` are sets: `(int) (v / from * to + 0.5f)` in single
precision is any integer within 0.52 of the exact quotient, which covers three
roundings at 24 bits of values up to 65536 and x87's excess precision alike.

`RoundTrip` runs `SaveLayers`, possibly to a failure or a kill, then lets an
instance of `LoadImage` read the path. They share only the file: `FilesAt` is what
the destination's state looks like to a decoder (missing, empty, cut anywhere, or
complete). It supposes that the path held no file before; that a file which was
there is left alone until the new one is complete in memory is the promise of
`ExportContract`, checked and proved of `SaveLayers`. `SourcesOf` are
the boxes the encoder writes. An embedded profile of the user's may be linear whatever the precision of the drawables; Exif and XMP may be
refused when read back.

## 3. What the runs check

| run | states | shows |
|---|---|---|
| `tile_layout` | 1,264 | the recursion ends; never past 64 columns or rows; every split made or pending; the final layout is one AV1 accepts |
| `save_layers` | 188,056 | resources, errors, pixel sizes, colours, encoder protocol, quantizers, the encoded file, the contract, termination, for every combination of failing calls |
| `save_dialog` | 908,016 | from any stored options: the handlers settle on the user's value and stop |
| `avif_save` | 156,261 | three calls in a session: copies deleted, the original kept, stored options in order, only scripts reach the assertion, alpha and animation only if asked, no user's export with an encoder that is gone, calls return |
| `load_image` | 152,566 | resources, errors, complete planes, the crop, the displayed picture, the contract and termination, for every kind of file and every exit |
| `round_trip` | 103,044 | what an export left behind, complete, cut or killed, comes back as the exported image or not at all; samples survive |

The properties worth a reader's attention:

* `EncodedFileIsTheRequest` says what file a request deserves without mentioning
  buffers (every layer once, bottom first, each frame made of its own layer's
  pixels scaled for the file's depth, alpha only where it can be). It covers the
  reuse of one `avifImage` for all frames, the ignored conversion failure, and the
  depths 9 and 11 whose gray branch scales to 12 bits: the encoder refuses these
  before they reach a file.
* `ProtocolKept` says that the encoder may refuse a frame for want of a codec, a
  depth AV1 lacks or a frame too wide for a track, but never for misuse.
* `DeclaredColourMatchesPixels`: the declared curve is always that of the fetched
  pixels; so are the declared primaries or the embedded profile, with one exception
  that the code has: when `babl_space_from_chromaticities` answers `NULL`, the
  primaries stay declared and the pixels are fetched in babl's default space. Gray
  images have no primaries that could differ, and the curve holds in the exception
  too, because a linear format is linear in any space.
* `ChoiceInstalled` is about a session and not about one dialog: what the dialog
  repairs depends on what it finds, and it finds what an earlier dialog stored. A
  script may pass a codec that only decodes; its call stores nothing.
* `ImplementsContract` is a refinement: `dest`, `req` and the answer of
  `SaveLayers` behave as `ExportContract` allows.
* `NothingLeftBehind` for a failed `avifEncoderFinish`: the exit does not call
  `avifRWDataFree`. It need not, because libavif fails before it writes a byte;
  the model makes this dependence visible.
* `LayoutAcceptable` is what the greedy tile recursion is for.
* `ResourcesInOrder` of `LoadImage` contains that the file's data outlive the
  decoder: `avifDecoderSetIOMemory` keeps a pointer, so that every phase up to the
  end reads through it (`Used`).
* `CropInsideImage` and `CropAsLibavif`: whatever 32-bit words a box holds the
  rectangle lies inside the image; where libavif's exact arithmetic accepts the box,
  doubles, rounding and clamping give the very same rectangle.
* `DisplayedAsStored` states each pixel's place from the meaning of the boxes (the
  inverse direction of the code's), with the size in the metadata and an
  orientation that does not turn the image once more.
* `PlanesComplete`: grids libavif accepts leave no sample of the luma, chroma and
  alpha planes unwritten, although tiles overlap the picture and chroma is subsampled.
* `ImportedIsExported` joins `avifImageSetMetadataExif` on the export side with
  `Rotate`, `Mirror` and the orientation reset on the import side: the picture comes
  back upright, for all eight orientations. `ComesBackGray` says which exports come
  back gray: gray drawables, and coloured ones written as YUV400 without a profile.
  The second kind was found by the proof: a script may pass `"yuv400"` with coloured
  drawables, `save_layers` passes it on, and without a profile `load_image` takes what
  has no chroma to be gray.
* `SamplesSurvive`: within half a step of the file's depth, black and white exact,
  and a second export writes the same file.

The claims modules hold no other checks. Each claim quotes the repository; TLC
refutes it.

### 3.1 Findings
Each has a run in which TLC shows the violation.

* `DefaultNotReached` - an indexed drawable passed by a script reaches
  `g_assert_not_reached`; `gimp_export_image` converts only for other run modes.
* `SuccessMeansSaved` - `fwrite` and `fclose` are unchecked, a short write answers
  success.
* `TransparencySaved` - the first drawable's type decides for the whole sequence
  whether there is alpha.
* `TransparencyKept` - the dialog clears `save-alpha-channel` in the config for an
  opaque image; the cleared option is what later repeated exports use.
* `SuccessMeansLoaded` - a colour conversion libavif refuses is printed only; the
  procedure answers success with a layer made of memory nobody wrote.
* `AlphaUnpremultiplied` - gray images with premultiplied alpha are not divided by
  it: the gray loops bypass libavif's conversion, which would.

Seen while modelling, without a run of its own: the comment in
`src/file-avif-dialog.c:105`, "if the selected encoder is not available, select
auto", holds for the three encoders and not for `dav1d` and `libgav1`, which
`av1-encoder` may hold. A session never stores one (`ChoiceInv`), so only options edited by
hand bring them into a dialog, which then shows none of its entries for them and
accepts them.

Seen while modelling, and not stated as findings because nothing in the repository
says otherwise: when babl makes no space of the primaries a file declares them
although its pixels are in another (`src/file-avif-save.c:452`, a warning);
with `NONINTERACTIVE`, `save-alpha-channel` and `animation` are not consulted; progress of a sequence counts backwards; cancelling leaves the
config unreleased; failures set no `GError`; bit depths 9 and 11 are legal
arguments that always fail; the metadata object of an import is never released
(so `NothingLeftBehind` leaves it out); a path that cannot be positioned (`ftell`
gives -1) makes an import abort in `avifAlloc`; a gray ICC profile on an image
with the identity matrix is lost when the image is converted to gray.

### 3.2 Bounds and why they are enough
* Frame sizes (`MCFrameSizes`): 17 sides at and beside each threshold of the
  arithmetic, squared: one superblock, 2304, 4096, AV1's 65536, GIMP's 524288. The
  layout depends on a side only through its superblocks, and the thresholds are
  where the logarithms change.
* Requests (`MCRequests`): up to three layers, so that a first, a middle and a
  last frame exist; every type, depth 8..12, curve, colour description, Exif/XMP
  combination; sizes that match, differ, and exceed a track's 16 bits. The four
  slices vary separately what only meets in the avifImage's independent fields.
  `MCColorPrimaries` has the three primaries a space is mapped to when none match.
* The dialog: quantizers 0..3 have every order of old and new pairs with a gap;
  three encoders, all subsets installed, and the two codecs that only decode.
* Files to import (`MCFiles`): six slices, each crossing what one group of hazards
  depends on. *unreadable*: every kind of path, every single damage, every mix of
  brand, tracks and items. *colour*: all formats and depths, ten transfer
  characteristics, ten matrices, four kinds of primaries, all kinds of profiles,
  alpha straight and premultiplied. *metadata*: good and bad of each beside good and
  bad profiles, so that survived errors follow one another. *grid*: up to two by two
  tiles of 1 to 4 by 2 to 3 samples on pictures of 3 to 5 by 3 to 4 with the least tile side set to 2,
  so that tiles overlap, leave gaps, and odd sides meet each subsampling; the proof
  covers the rest. *display*: every crop, turn and mirror of a 5 by 4 picture, where
  no two coincide. *aperture*: fractions on 4-bit words (`WordSize` = 16), whose
  sign bit, overflow and undefined conversions are a few values away.
* Round trips (`MCRequests`): 92 requests: one or two layers of each type, the three
  depths, both colour descriptions, linear or not, eight orientations, and coloured
  drawables a script writes as YUV400, with and without an embedded profile. Layers of 3
  by 2 pixels tell all orientations apart. `GraySamples` holds both ends, a run
  across two steps of 10 bits and the middle; the proofs cover all samples.
* The session: one optional encoder that comes and goes between calls, a script that
  asks for a codec that only decodes, quantizers 0..1, `MaxRuns` = 3 calls (store,
  change, use), `MaxEdits` = 1 user action per dialog.

### 3.3 Fairness
The plug-in has one thread and waits for nobody but GIMP and the file system, whose
calls return; so `TileLayout`, `SaveLayers` and `LoadImage` assume weak fairness of
their steps. `Kill` is not a fair action: termination does not rely on it. In the dialog the toolkit
runs handlers (`WF(Handlers)`) and opens the window; the user owes no action. In
`AvifSave` only the steps of the plug-in and GIMP are fair, so calls with a dialog
may wait for ever and `CallsReturn` speaks of the others.

`CHECK_DEADLOCK` is on everywhere: the ended states have an explicit stutter.

## 4. What is proved

Every invariant a passing run checks and both refinements are theorems. Nothing is
bounded: any set of requests or files, number of layers, encoders, integers as
quantizers, any frame, tile and grid sizes, any word size, any number of calls and
edits in a session.

Assumptions are the named `ASSUME`s, which TLC evaluates in the runs:

* requests, files, calls and samples are well-typed (`RequestsAssumption`,
  `FilesAssumption`, `SessionAssumption`, `GraySamplesAssumption`). A drawable has at
  least one pixel each way, as GIMP guarantees;
* `ColorPrimaries` and `KnownPrimaries`, the codes libavif has chromaticities for,
  contain BT.709 (1); the latter not "unknown" (0) or "unspecified" (2);
* the encoders are neither codecs that only decode nor the automatic choice
  (`CodecsAssumption`);
* `WordSize` is even, `WorstQuality` a natural number;
* frame sizes are at most `GimpMaxSide`, GIMP's 524288 (`FrameSizesAssumption`): the
  shifts of `minLog2` have no bound of their own;
* for a round trip, both sides know the same primaries and the sides of a drawable
  are ints (`SharedAssumption`).

### 4.1 Export

| theorem | inductive invariant and argument |
|---|---|
| `ResourcesAlwaysInOrder`, `NothingEverLeftBehind` | `HeldInv`: each phase holds exactly `LiveAt(pc)`. The safety properties mention only resources in trouble; to exclude them one must know what every phase holds. Two lemmas on acquiring and releasing, one step per action. |
| `ErrorsAlwaysCleared` | `ErrorInv`: only the phases between a failing call and its handling see an error. |
| `QuantizersAlwaysOrdered` | `ClampedInOrder` for the settings; `WithFrameKeepsQuantizers` because adding frames rewrites the encoder record. |
| `BufferAlwaysFits` | `BufferInv`: from the phase that allocates on, buffer and format are those of the first drawable's type and the request's depth, and the avifImage has that depth. The tables agree by `FormatMatchesBuffer` and `ReadMatchesBuffer`. |
| `DeclaredColourAlwaysMatches` | `ColourInv`, on top of `BufferInv`: from the description on, the avifImage's colour is the request's and the space to fetch in fits it or there is none (`SpaceFitsOrFailed`); the format inherits the space, or the default one. Before, one must know that a failed profile space has been replaced. |
| `ProtocolAlwaysKept` | `EncodingInv` = `RequestInv`, `BufferInv`, `QuantizerInv`, `ImageInv` (what of the avifImage the request fixes, from the phase that sets it) and `LoopInv`: in the frame loop, `Added` frames have been accepted, they are the first of the file the request deserves (`FramesUpTo`), and what the first froze in the encoder is what the avifImage still has. `FirstFrameAdded` and `LaterFrameAdded` carry this over `avifEncoderAddImage`. |
| `EncodedFileAlwaysTheRequest` | `RawInv` on top: the encoded data are `FileFor` the request once `LoopInv` has reached the last layer (`FinishedFile`), and such a file is acceptable (`FileAccepted`). |
| `SaveLayersContractProofs!ContractImplemented` | `OutcomeInv` (which answer and destination belong to which phase), then `ContractStep`: each action is a step of `ExportContract` or leaves its variables alone. |
| `SaveLayersContractProofs!AlwaysTyped` | `EncodingInv` with `LoopTypes` and `EndTypes`, the types of what no other invariant mentions. |
| `SaveLayersContractProofs!StepsRunOut` | `StepsLeft`, the number of the phase plus three for every frame still to be encoded; `LoopInv` keeps the frame index from running below -1. |

### 4.2 Options, calls and tiles

| theorem | inductive invariant and argument |
|---|---|
| `QuantizersAlwaysSettle`, `SliderAlwaysKept` | that while a handler is pending the slider moved last still has the user's value. |
| `GoneAlwaysReplaced`, `DialogTypesHold` | direct, from the repairs made when the dialog opens: whatever is stored, no encoder that is gone stays chosen. |
| `ChoiceAlwaysInstalled` | `ChoiceInv`, on top of `OptionsInv`: the options kept name an encoder or "auto", because only dialogs store them; the dialog that opens on such options leaves an installed encoder or "auto", and the user can choose nothing else. |
| `CopiesAlwaysDeleted`, `OriginalAlwaysKept` | `CopyInv`: a copy exists from the conversion to the end of the call exactly if `image` names it. |
| `LastValuesAlwaysInOrder` | `OptionsInv`: outside scripts' calls the options are in order unless a handler is pending, and none is when the dialog closes. |
| `OnlyScriptsEverAbort`, `NothingEverUnasked` | `GivenInv`: what `save_layers` is given meets the options, whether it was converted or there was nothing to convert. |
| `SessionAlwaysTyped` | `SessionInv`: the types together with what a dialog that is open needs. |
| `LimitsHold`, `SplitsConserved`, `TileLayoutProofs!AlwaysTyped` | `IInv`: the splits made and pending add up; each is made only while its direction has room. |
| `CallsRunOut` | `CallsLeft`: the splits asked for and the return. |
| `LayoutAlwaysAcceptable` | `StoppedInv`: it stops with nothing pending or no direction left. In the first case the area is reached by `TileLog2Reaches` (the loop of `tile_log2` ends at the first power of two past its target); in the second there are as many columns and rows as AV1 allows, at most 8 superblocks each way to a tile, far below the area. |

### 4.3 Import

| theorem | inductive invariant and argument |
|---|---|
| `LoadImageProofs!ResourcesAlwaysInOrder`, `NothingEverLeftBehind` | `HeldInv`: each phase of `load_image` holds exactly `Live`, the profile exactly when there is one. |
| `LoadImageProofs!ErrorsAlwaysCleared` | `ErrorInv`: an error is set exactly in the phases that report one. |
| `PlanesAlwaysComplete` | `DecodedInv`: after decoding, the file's pictures were accepted. Then `PictureFills`: along one side the tiles' parts cover the plane (`PartsCover`), because the tile a sample falls in starts before it and is cut only by the picture's end; `SubsampledParts` carries this to chroma, where evenness makes all divisions exact. |
| `CropAlwaysInsideImage` | `DecodedInv` gives positive sides; then the order of the clamps suffices, for every result an undefined conversion may have. |
| `CropAlwaysAsLibavif` | a greatest common divisor exists (`GreatestExists`, from the well-foundedness of <) and divides both (`DivisorFound`); so simplifying keeps a fraction's value (`SimplifiedSame`) and a sum that does not overflow is exact (`SumIsExact`). Hence `ConvertedExactly`: twice the offset, times its denominator, is what `load_image` divides, less the half it adds for rounding; `DividesBack` takes that half away again, and no clamp applies to a part inside the image. |
| `DisplayedAlwaysAsStored` | `DeliveryInv` = `HeldInv`, `DecodedInv`, `PhaseInv`, `FlagsInv`, `ColourInv`, `ImageInv`, `DisplayInv`, `MetadataInv`. `DisplayInv` says at each phase which of the transformations `image.at` has behind it; `CropShows`, `TurnShows` and `FlipShows` are the three maps on coordinates, each the inverse of what the property states. `MetadataInv` keeps the size and orientation of the metadata in step. |
| `LoadImageContractProofs!ContractImplemented` | `DeliveryInv` again: `ColourInv` and `ImageInv` give that what is built is among `DescribedBy` (`InsertedDescribed`, and `TransformKeeps` up to the end); `BuildStep` and `ContractStep` are the simulation. |
| `LoadImageContractProofs!AlwaysTyped` | `DeliveryInv` with `RestTyped`. |
| `LoadImageContractProofs!StepsRunOut` | `StepsAfter` numbers the phases; each action goes to one with a smaller number, those that report an error included. |

### 4.4 Samples and the round trip

| theorem | inductive invariant and argument |
|---|---|
| `CodesSurvive`, `SamplesComeBack`, `ExportedIsSample`, `ImportedIsSample` | `ScaledNear` bounds a scaled sample by its quotient; codes are at least 16 samples of 16 bits apart (`CodesApart`), far more than both roundings (`BackNear`), so the way back rounds to the same code. |
| `ImportedAlwaysExported`, `SamplesAlwaysSurvive` | `RoundTripInv` = `ExportInv` (that of the export), `FileInv` (an import has started only after the export has ended, on what it left) and `Reader!DeliveryInv`. `Reader` instantiates `LoadImageContractProofs` for all files, and the import of `RoundTrip` makes its steps (`SameStep`): what an export leaves is such a file (`FilesTyped`), so that everything proved about imports holds of this one. An import that succeeds has read a complete file (`LoadedFile`) that is `FileFor` the request. Then the pieces: `UprightShown` (Exif orientation to boxes and back, against the turn and mirror), `ColourComesBack`, and the lemmas on samples. |

### 4.5 What is only model-checked

* `Terminates` (three modules), `HandlersReturn` and `CallsReturn`: fairness and
  `ENABLED` are beyond the prover. Of `Terminates`, the measures of `StepsRunOut` and
  `CallsRunOut` are the part that is proved: no behaviour goes on for ever. That none
  stops halfway is what TLC adds.
* The claims behind the findings, which are false.

Two proof attempts changed the models. `ImportedIsExported` did not hold for coloured
drawables exported as YUV400 without a profile, a request no instance had (section 3).
And the layers of `SaveLayers`, the frames of `TileLayout` and the primaries of
`LoadImage` admitted values the code cannot meet: empty drawables, unbounded sides,
and 0 or 2 as primaries with known chromaticities.

## 5. Plan

The modules planned are written, and the invariants they state are proved. What
remains:

1. Lemmas worth stating on their own: that `avifCropRect` returns a rectangle inside
   the image; that `Crops` gives one result wherever no conversion is undefined.
2. An abstract specification of a session in `AvifSave` (what GIMP may rely on
   about images and last values), and its refinement.

## 6. What is not modelled

* `ColorPrimariesBestMatch`, colour conversion and lcms curves: floating-point
  arithmetic. `SaveLayers` allows any result.
* Pixel values, file bytes and box layout; progress and messages.
* Running out of memory: GLib aborts, and libavif's allocation failures inside a
  frame are part of "the codec fails".
* The bytes of boxes and the AV1 codecs, and all other vendored code (aom, dav1d,
  rav1e, SVT, libyuv, libavif's applications and tests). They are nearly all lines of
  the repository and not this program: the plug-in reaches them through libavif's
  encoder and decoder only, whose control the models have. What a codec answers is
  a choice, what boxes say is the file. Nor does any state of theirs survive a call.
* In the decoder, the scaling of tiles whose frame differs from the item's size and
  the widening of limited-range alpha planes; the plug-in cannot tell either.
* The 32-bit products of `save_layers` (`width * height * 4` in `int`): undefined
  behaviour beyond 23170 pixels squared, about which the repository promises nothing.
* `avifDecoderSetIOMemory` failing (`src/file-avif-load.c:286`): the vendored libavif
  cannot fail there, and the exit releases what a failed decode does.
* Dialog widgets no code reacts to (speed, alpha quantizer, frame duration,
  Exif, XMP, profile).

----------------------------- MODULE MCLoadClaims -----------------------------
(* What the repository says of an import and LoadImage does not do.  Each     *)
(* definition is the claim of a procedure description or of a header comment. *)
EXTENDS MCLoadImage

(* Every colour description, chroma format and kind of alpha.                 *)
ClaimFiles == ColourFiles

(* The procedure "Loads images in the AVIF file format": a layer that is      *)
(* delivered as a success holds the picture, not memory nobody wrote.         *)
SuccessMeansLoaded == result = "SUCCESS" => image[1].content # "unwritten"

(* "(Un)premultiply is automatically done by the main conversion functions":  *)
(* GIMP's straight alpha is what every layer has, gray ones as well.          *)
AlphaUnpremultiplied == result = "SUCCESS" => image[1].content # "premultiplied"
==============================================================================

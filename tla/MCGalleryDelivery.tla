-------------------------- MODULE MCGalleryDelivery --------------------------
(***************************************************************************)
(* GalleryDelivery for TLC: a few images in some fixed order.              *)
(***************************************************************************)
EXTENDS GalleryDelivery
LOCAL INSTANCE SequencesExt

MCOrdered == [S \in SUBSET Images |-> SetToSeq(S)]
==============================================================================

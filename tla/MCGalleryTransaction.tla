------------------------- MODULE MCGalleryTransaction -------------------------
(***************************************************************************)
(* GalleryTransaction for TLC: a gallery of one tile that may grow.        *)
(***************************************************************************)
EXTENDS GalleryTransaction

MCConfigs == {{t} : t \in Tiles} \cup {Tiles}
==============================================================================

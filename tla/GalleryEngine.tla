---------------------------- MODULE GalleryEngine ----------------------------
(***************************************************************************)
(* dependencies/gallery_engine.h: the window arithmetic of one gallery     *)
(* tile.  A pool is the sequence of the tile's own usable images in the    *)
(* configured order; a window is the run of at most `size' of them that    *)
(* starts at the cursor and wraps around.                                  *)
(***************************************************************************)
EXTENDS Naturals, Sequences

WindowStart(pool, cursor) == cursor % Len(pool)

WindowCount(pool, size) == IF size < Len(pool) THEN size ELSE Len(pool)

\* The image that stands i places after the start, around the pool.
Around(pool, start, i) == pool[((start + i) % Len(pool)) + 1]

WindowImages(pool, cursor, size) ==
    [i \in 1..WindowCount(pool, size) |-> Around(pool, WindowStart(pool, cursor), i - 1)]

NextCursor(pool, cursor, size) == (WindowStart(pool, cursor) + WindowCount(pool, size)) % Len(pool)
==============================================================================

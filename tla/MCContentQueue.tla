--------------------------- MODULE MCContentQueue ---------------------------
(* Instances of ContentQueue for TLC: three items, two Windows-rotated      *)
(* layouts that share one item, app-managed rotation and disabled contents. *)
EXTENDS ContentQueue

CONSTANTS a, b, c, L1, L2, App, Disabled

MCTags == {a, b, c}
MCConfigs == {L1, L2, App, Disabled}
MCNative == {L1, L2}
MCItems == [x \in MCConfigs |->
              CASE x = L1 -> <<a, b>> [] x = L2 -> <<c, b>>
                [] x = App -> <<a>> [] OTHER -> << >>]

(* The order in which settings are saved; the user may stop anywhere, and   *)
(* the poll thread need not see each of them.                               *)
LayoutsThenNone == <<L2, L1, App, Disabled>>

(* One layout, "Generate now" and an Update that throws after its Clear.    *)
OneLayout == <<L1>>

(* Into Windows' rotation while an ordinary request waits.                  *)
Entering == <<App, L1>>

(* Back to a layout that the delta still knows.                             *)
BackAgain == <<L1, L2, L1>>

(* Disabled for a moment, before the first tick has published.              *)
Reenabled == <<L1, Disabled, App>>
=============================================================================

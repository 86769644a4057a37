----------------------------- MODULE DepthFilter -----------------------------
(***************************************************************************)
(* The depth filter cuts a region of interest out of each set of images    *)
(* and removes what belongs to the background.  One thread filters, one    *)
(* serves save_bg, one sets parameters.  Parameters are under a lock that  *)
(* is taken anew for every image that is cut out; the background is under  *)
(* none.                                                                   *)
(*                                                                         *)
(* Of the region only top and bottom are modelled: left and right are      *)
(* treated alike.  Of a frame only its camera matters, which gives its     *)
(* height; of the other images, whether there is one.                      *)
(***************************************************************************)
EXTENDS CameraMultiplexer

CONSTANTS
  Height,     \* height of the images of each camera
  NoCamera

ASSUME DepthFilterAssumption ==
  /\ Height \in [Cameras -> Nat \ {0}]
  /\ \E c \in Cameras : \A d \in Cameras : Height[d] <= Height[c]
  /\ NoCamera \notin Cameras

VARIABLES
  roi,        \* _top, _bottom
  threshBg,   \* _thresh_bg > 0
  depthOrg,   \* _depth_org # nullptr
  depthBg,    \* _depth_bg # nullptr
  bgFile,     \* bg.tif is there
  filtering,  \* where the thread that filters is, of what, and the regions it
              \* has cut before a parameter was set
  saving,     \* where the thread of save_bg is
  disturbed   \* history: a parameter was set since the frame was begun

depthVars == <<roi, threshBg, depthOrg, depthBg, bgFile, filtering, saving, disturbed>>
depthFilterVars == <<multiplexerVars, depthVars>>

Rows == 0 .. (CHOOSE h \in {Height[c] : c \in Cameras} : \A c \in Cameras : Height[c] <= h)
Regions == [top : Rows, bottom : Rows]
Waits == [at |-> "idle", camera |-> NoCamera, cut |-> {}]

DepthTypeOK ==
  /\ MultiplexerTypeOK
  /\ roi \in Regions
  /\ filtering \in [at : {"idle", "keep", "info", "depth", "load", "read", "remove", "image"},
                    camera : Cameras \cup {NoCamera}, cut : SUBSET Regions]
  /\ saving \in {"idle", "file", "use", "drop"}
  /\ {threshBg, depthOrg, depthBg, bgFile, disturbed} \subseteq BOOLEAN

DepthInit ==
  /\ MultiplexerInit
  /\ roi = [top |-> 0, bottom |-> CHOOSE r \in Rows : \A s \in Rows : s <= r]
  /\ threshBg = FALSE /\ disturbed = FALSE
  /\ depthOrg = FALSE /\ depthBg = FALSE /\ bgFile \in BOOLEAN
  /\ filtering = Waits
  /\ saving = "idle"

-----------------------------------------------------------------------------
\* setVariable
SetVariable ==
  /\ \/ roi' \in {[roi EXCEPT !.top = r] : r \in Rows} \cup {[roi EXCEPT !.bottom = r] : r \in Rows}
        /\ UNCHANGED threshBg
     \/ threshBg' \in BOOLEAN /\ UNCHANGED roi
  /\ disturbed' = TRUE
  /\ filtering' = [filtering EXCEPT !.cut = {}]
  /\ UNCHANGED <<multiplexerVars, depthOrg, depthBg, bgFile, saving>>

\* save_bg_cb: look, write the file, use as background, wait for another.
SaveBg ==
  /\ \/ saving = "idle" /\ depthOrg /\ saving' = "file"
        /\ UNCHANGED <<depthOrg, depthBg, bgFile>>
     \/ saving = "file" /\ saving' = "use" /\ bgFile' = TRUE
        /\ UNCHANGED <<depthOrg, depthBg>>
     \/ saving = "file" /\ saving' = "idle"   \* it cannot be written
        /\ UNCHANGED <<depthOrg, depthBg, bgFile>>
     \/ saving = "use" /\ saving' = "drop" /\ depthBg' = depthOrg
        /\ UNCHANGED <<depthOrg, bgFile>>
     \/ saving = "drop" /\ saving' = "idle" /\ depthOrg' = FALSE
        /\ UNCHANGED <<depthBg, bgFile>>
  /\ UNCHANGED <<multiplexerVars, roi, threshBg, filtering, disturbed>>

-----------------------------------------------------------------------------
(* filter_with_normal_cb, filter_without_normal_cb.                        *)

Lower(a, b) == IF a < b THEN a ELSE b
Upper(a, b) == IF a < b THEN b ELSE a
Step(here, there) == filtering.at = here /\ filtering' = [filtering EXCEPT !.at = there]

\* The region is cut to the image, and stays so for the images that follow.
ClampedTo_Bottom(c) ==
  LET top == Lower(roi.top, Height[c]) IN [top |-> top, bottom |-> Upper(top, roi.bottom)]
ClampedTo(c) ==
  LET top == Lower(roi.top, Height[c]) IN
  [top |-> top, bottom |-> Upper(top, Lower(roi.bottom, Height[c]))]

FilterBegins(c) ==
  /\ filtering.at = "idle"
  /\ Complete(c)
  /\ synced' = [synced EXCEPT ![c] = 0]
  /\ roi' = ClampedTo(c)
  /\ filtering' = IF roi'.top = roi'.bottom THEN filtering
                  ELSE [at |-> "keep", camera |-> c, cut |-> {}]
  /\ disturbed' = FALSE
  /\ UNCHANGED <<activeCamera, sent, threshBg, depthOrg, depthBg, bgFile, saving>>

KeepOriginal ==
  /\ Step("keep", "info")
  /\ depthOrg' = TRUE
  /\ UNCHANGED <<multiplexerVars, roi, threshBg, depthBg, bgFile, saving, disturbed>>

\* create_subcamera_info, create_subimage
CutOut ==
  /\ \/ /\ filtering.at \in {"info", "depth"}
        /\ filtering' = [filtering EXCEPT !.cut = IF disturbed THEN {} ELSE @ \cup {roi},
                           !.at = IF @ = "info" THEN "depth" ELSE IF threshBg THEN "load" ELSE "image"]
     \/ filtering.at = "image" /\ filtering' = Waits
  /\ UNCHANGED <<multiplexerVars, roi, threshBg, depthOrg, depthBg, bgFile, saving, disturbed>>

\* filter: a background that cannot be loaded, because it was never saved or
\* is being written, switches its removal off.
LoadBg ==
  /\ \/ /\ depthBg
        /\ Step("load", "remove")
        /\ UNCHANGED <<depthBg, threshBg>>
     \/ /\ ~ depthBg
        /\ Step("load", "read")
        /\ UNCHANGED <<depthBg, threshBg>>
     \/ /\ bgFile
        /\ Step("read", "remove")
        /\ depthBg' = TRUE
        /\ UNCHANGED threshBg
     \/ /\ ~ bgFile \/ saving = "file"
        /\ Step("read", "image")
        /\ depthBg' = FALSE /\ threshBg' = FALSE
  /\ UNCHANGED <<multiplexerVars, roi, depthOrg, bgFile, saving, disturbed>>

RemoveBg ==
  /\ Step("remove", "image")
  /\ UNCHANGED <<multiplexerVars, roi, threshBg, depthOrg, depthBg, bgFile, saving, disturbed>>

Filter ==
  (\E c \in Cameras : FilterBegins(c)) \/ KeepOriginal \/ CutOut \/ LoadBg \/ RemoveBg

DepthNext ==
  \/ MultiplexerNext /\ UNCHANGED depthVars
  \/ SetVariable \/ SaveBg \/ Filter

DepthSpec == DepthInit /\ [][DepthNext]_depthFilterVars

-----------------------------------------------------------------------------
\* Unless a parameter is set meanwhile, all that is published of a frame
\* shows the same region, inside the image, whatever camera was active
\* before; and what save_bg writes or uses is there, although the thread
\* that filters replaces it at any time.
RegionsAgree ==
  /\ \A r \in filtering.cut :
       r = roi /\ r.top < r.bottom /\ r.bottom <= Height[filtering.camera]
  /\ saving \in {"file", "use"} => depthOrg
  /\ filtering.at = "remove" => depthBg
=============================================================================

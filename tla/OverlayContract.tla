--------------------------- MODULE OverlayContract ---------------------------
(***************************************************************************)
(* What the overlay promises to whoever starts a container: it serves the  *)
(* wanted text or nothing at all, a start comes to an end, and a rebuilt   *)
(* image is the full one or holds all that the image under it held.        *)
(***************************************************************************)
CONSTANTS
    Wanted(_, _),   \* text a container of an image is to serve under some flags
    FlagSets,
    Images,
    Full            \* text of an image built from scratch

VARIABLES image, phase, flags, tree

vars == <<image, phase, flags, tree>>

Init == image \in Images /\ phase = "idle" /\ flags = {} /\ tree = {}

Start ==
    /\ phase = "idle"
    /\ phase' = "starting" /\ flags' \in FlagSets
    /\ UNCHANGED <<image, tree>>

Serve ==
    /\ phase = "starting"
    /\ phase' = "serving" /\ tree' = Wanted(image, flags)
    /\ UNCHANGED <<image, flags>>

Fail ==
    /\ phase = "starting"
    /\ phase' = "failed"
    /\ UNCHANGED <<image, flags, tree>>

Stop ==
    /\ phase /= "idle"
    /\ phase' = "idle" /\ flags' = {} /\ tree' = {}
    /\ UNCHANGED image

Publish ==
    /\ phase = "idle"
    /\ image' = Full \/ image \subseteq image'
    /\ UNCHANGED <<phase, flags, tree>>

Next == Start \/ Serve \/ Fail \/ Stop \/ Publish

Spec == Init /\ [][Next]_vars /\ WF_vars(Serve \/ Fail)
=============================================================================

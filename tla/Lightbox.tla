------------------------------ MODULE Lightbox ------------------------------
(***************************************************************************)
(* The lightbox (bootstrap-lightbox.js): a modal dialog without the class  *)
(* "fade" that is displayed only when its image has been loaded.  The      *)
(* backdrop and hideModal are those of Bootstrap's modal dialog; without   *)
(* "fade" they call back at once.  (With "fade", hide calls a method that  *)
(* the modal dialog of Bootstrap 3 no longer has, and throws.)             *)
(***************************************************************************)
EXTENDS Naturals

CONSTANT MaxLooks   \* bound on the number of times the lightbox is shown

ASSUME LightboxAssumption == MaxLooks \in Nat \ {0}

VARIABLE
    lightbox   \* isShown, displayed, traps (focusin handlers), backdrop (0: null)
               \* and the ones in the page, loads (images on their way),
               \* looks, next (next backdrop), hasty (history: the last hide
               \* came while an image was on its way, or left a backdrop)

LightboxTypeOK ==
    lightbox \in [isShown : BOOLEAN, displayed : BOOLEAN, traps : Nat,
                  backdrop : Nat, page : SUBSET (Nat \ {0}),
                  loads : Nat, looks : 0 .. MaxLooks,
                  next : Nat \ {0}, hasty : BOOLEAN]

LightboxInit ==
    lightbox = [isShown |-> FALSE, displayed |-> FALSE, traps |-> 0, backdrop |-> 0,
                page |-> {}, loads |-> 0, looks |-> 0, next |-> 1, hasty |-> FALSE]

(* show: nothing is displayed before preloadSize calls back. *)
LightboxShow ==
    /\ ~lightbox.isShown
    /\ lightbox.looks < MaxLooks
    /\ lightbox' = [lightbox EXCEPT !.isShown = TRUE, !.looks = @ + 1, !.loads = @ + 1]

(* onload: a backdrop if the lightbox is still shown, and display anyway;
   enforceFocus adds a handler without removing the last one. *)
ImageLoaded ==
    /\ lightbox.loads > 0
    /\ lightbox' = [lightbox EXCEPT
            !.loads = @ - 1,
            !.backdrop = IF lightbox.isShown THEN lightbox.next ELSE @,
            !.page = IF lightbox.isShown THEN @ \cup {lightbox.next} ELSE @,
            !.next = IF lightbox.isShown THEN @ + 1 ELSE @,
            !.displayed = TRUE,
            !.traps = @ + 1]

(* There is no handler for an image that does not load. *)
ImageFails ==
    /\ lightbox.loads > 0
    /\ lightbox' = [lightbox EXCEPT !.loads = @ - 1]

(* An image that has still to come, or a backdrop that is forgotten. *)
LeavesSomething == lightbox.loads > 0 \/ lightbox.page \ {lightbox.backdrop} # {}

(* Mutant of LightboxHide: the focus handler stays. *)
LightboxHideTrapped ==
    /\ lightbox.isShown
    /\ lightbox' = [lightbox EXCEPT !.isShown = FALSE, !.displayed = FALSE,
                                    !.page = @ \ {lightbox.backdrop}, !.backdrop = 0,
                                    !.hasty = LeavesSomething]

(* hide, hideModal and removeBackdrop. *)
LightboxHide ==
    /\ lightbox.isShown
    /\ lightbox' = [lightbox EXCEPT !.isShown = FALSE, !.displayed = FALSE, !.traps = 0,
                                    !.page = @ \ {lightbox.backdrop}, !.backdrop = 0,
                                    !.hasty = LeavesSomething]

LightboxNext == LightboxShow \/ ImageLoaded \/ ImageFails \/ LightboxHide

LightboxSpec == LightboxInit /\ [][LightboxNext]_lightbox

-----------------------------------------------------------------------------
(***************************************************************************)
(* The lightbox is displayed only while it is shown, with one backdrop,    *)
(* which can still be removed, and one focus handler: late images never    *)
(* add up - after a hide that left no image on its way.  (Dismissed too    *)
(* early, the lightbox opens all the same when the image arrives, and hide *)
(* refuses to close it, as it is not shown.  A later show and hide mend    *)
(* that, unless a late image came while it was shown again: one of two     *)
(* backdrops then stays for ever.)                                         *)
(***************************************************************************)
LightboxWhole ==
    ~lightbox.hasty =>
        /\ lightbox.displayed => lightbox.isShown
        /\ lightbox.page = (IF lightbox.displayed THEN {lightbox.backdrop} ELSE {})
        /\ lightbox.traps = (IF lightbox.displayed THEN 1 ELSE 0)

=============================================================================

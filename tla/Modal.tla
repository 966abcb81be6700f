------------------------------- MODULE Modal -------------------------------
(***************************************************************************)
(* Bootstrap's modal dialog (bootstrap.js), with the class "fade" and the  *)
(* keyboard option, as the pages use it.  Opening and closing go through   *)
(* CSS transitions: a callback waits for the end event of the backdrop or  *)
(* of the dialog, and emulateTransitionEnd triggers that event when the    *)
(* browser does not.  An end event runs every callback then waiting on the *)
(* element, in the order of registration.                                  *)
(***************************************************************************)
EXTENDS Naturals, Sequences, SequencesExt, SubSequences

CONSTANT MaxShows   \* bound on the number of times the dialog is shown

ASSUME ModalAssumption == MaxShows \in Nat \ {0}

VARIABLE
    modal   \* isShown, displayed (element.show/hide), escapes (keyup handlers),
            \* trap (focusin handler), backdrop (0: null) and the ones in the page,
            \* open (class modal-open), waiting (callbacks, oldest first),
            \* shows, next (next backdrop), overlapped (history: shown while
            \* closing), hasty (history: last hidden while its backdrop was fading in)

(* A show makes a backdrop; so does a hideModal that finds the dialog shown. *)
Backdrops == Nat \ {0}

(* Callback f waits for the end event of e: 0 is the dialog itself. *)
Waits(e, f) == [on |-> e, do |-> f]

ModalCallbacks ==
    [on : {0}, do : {"shown", "hideModal"}] \cup [on : Backdrops, do : {"display", "remove"}]

ModalTypeOK ==
    modal \in [isShown : BOOLEAN, displayed : BOOLEAN, escapes : Nat, trap : BOOLEAN,
               backdrop : {0} \cup Backdrops, page : SUBSET Backdrops, open : BOOLEAN,
               waiting : Seq(ModalCallbacks), shows : 0 .. MaxShows,
               next : Backdrops, overlapped : BOOLEAN, hasty : BOOLEAN]

ModalInit ==
    modal = [isShown |-> FALSE, displayed |-> FALSE, escapes |-> 0, trap |-> FALSE,
             backdrop |-> 0, page |-> {}, open |-> FALSE, waiting |-> <<>>, shows |-> 0,
             next |-> 1, overlapped |-> FALSE, hasty |-> FALSE]

WaitsFor(f) == \E i \in DOMAIN modal.waiting : modal.waiting[i].do = f

(* Something of an earlier hide has still to happen. *)
ModalClosing == WaitsFor("hideModal") \/ WaitsFor("remove")

(* escape(): one handler more when shown, none when hidden. *)
Escapes(shown) == IF shown THEN modal.escapes + 1 ELSE 0

-----------------------------------------------------------------------------
(* backdrop(): by isShown and $backdrop as they are now, f waits on a new
   backdrop - the old one is forgotten - or on the old one, or is due now. *)
NewBackdrop(m, f) ==
    [m EXCEPT !.backdrop = m.next, !.page = @ \cup {m.next}, !.next = @ + 1,
              !.waiting = Append(@, Waits(m.next, f))]

(* removeBackdrop, which drops what waits on it, and the class of the body. *)
RemoveBackdrop(m) ==
    [m EXCEPT !.page = @ \ {m.backdrop}, !.backdrop = 0, !.open = FALSE,
              !.waiting = ElementsIn(@, {w \in Range(@) : w.on # m.backdrop \/ w.on = 0})]

(* Mutant of HideModal: it does not call backdrop. *)
HideModalOnly(m) == [m EXCEPT !.displayed = FALSE]

HideModal(m) ==
    LET hidden == [m EXCEPT !.displayed = FALSE]
    IN  CASE m.isShown                      -> NewBackdrop(hidden, "remove")
          [] ~m.isShown /\ m.backdrop # 0   ->
                [hidden EXCEPT !.waiting = Append(@, Waits(m.backdrop, "remove"))]
          [] ~m.isShown /\ m.backdrop = 0   -> RemoveBackdrop(hidden)

(* The callback of show: display, enforceFocus, and wait for the dialog. *)
Display(m) ==
    [m EXCEPT !.displayed = TRUE, !.trap = TRUE, !.waiting = Append(@, Waits(0, "shown"))]

RunCallback(m, w) ==
    CASE w.do = "display"   -> Display(m)
      [] w.do = "shown"     -> [m EXCEPT !.open = TRUE]
      [] w.do = "hideModal" -> HideModal(m)
      [] w.do = "remove"    -> RemoveBackdrop(m)

-----------------------------------------------------------------------------
ModalShow ==
    /\ ~modal.isShown
    /\ modal.shows < MaxShows
    /\ modal' = NewBackdrop([modal EXCEPT !.isShown = TRUE, !.escapes = Escapes(TRUE),
                                          !.shows = @ + 1,
                                          !.overlapped = @ \/ ModalClosing], "display")

(* The dismiss button, a click on the backdrop, the escape key. *)
ModalHide ==
    /\ modal.isShown
    /\ modal' = [modal EXCEPT !.isShown = FALSE, !.escapes = Escapes(FALSE), !.trap = FALSE,
                              !.waiting = Append(@, Waits(0, "hideModal")),
                              !.hasty = WaitsFor("display")]

(* The backdrop fades in 150 ms and the dialog in 300: a callback of the
   dialog does not overtake a display that was waiting before it. *)
InTime(i) ==
    modal.waiting[i].on = 0 => \A j \in 1 .. (i - 1) : modal.waiting[j].do # "display"

(* The end event of e: all that waits on it, first come first served. *)
ModalTransitionEnd(e) ==
    LET mine == {w \in Range(modal.waiting) : w.on = e}
        others == Range(modal.waiting) \ mine
    IN  /\ \E i \in DOMAIN modal.waiting :
               /\ modal.waiting[i].on = e
               /\ \A j \in 1 .. (i - 1) : modal.waiting[j].on # e
               /\ InTime(i)
        /\ modal' = FoldLeft(RunCallback, [modal EXCEPT !.waiting = ElementsIn(@, others)],
                             ElementsIn(modal.waiting, mine))

ModalEnds == \E w \in Range(modal.waiting) : ModalTransitionEnd(w.on)

ModalNext == ModalShow \/ ModalHide \/ ModalEnds

ModalSpec == ModalInit /\ [][ModalNext]_modal /\ WF_modal(ModalEnds)

-----------------------------------------------------------------------------
(***************************************************************************)
(* Escape closes the dialog once and only while it is shown: the keyup     *)
(* handlers of several shows never add up, nor does one survive a hide,    *)
(* however shows and hides overtake the transitions.                       *)
(***************************************************************************)
ModalOneEscape == modal.escapes = (IF modal.isShown THEN 1 ELSE 0)

(***************************************************************************)
(* When every transition has ended the page agrees with the last call, as  *)
(* long as the dialog was never shown while it was closing: dialog and     *)
(* modal-open are there iff isShown, with exactly the one backdrop that    *)
(* removeBackdrop can reach.  Hiding it while it opens is harmless, but    *)
(* for the focus handler, which display then installs after hide removed   *)
(* it, and which stays until the next hide.  (Shown while closing, a       *)
(* backdrop stays for ever, and the dialog may end hidden though isShown.) *)
(***************************************************************************)
ModalSettles ==
    (modal.waiting = <<>> /\ ~modal.overlapped) =>
        /\ modal.displayed = modal.isShown
        /\ modal.open = modal.isShown
        /\ modal.page = (IF modal.isShown THEN {modal.backdrop} ELSE {})
        /\ ~modal.hasty => modal.trap = modal.isShown

(***************************************************************************)
(* The dialog: one handler for Escape, and a page that agrees with the     *)
(* last call when nothing is under way.                                    *)
(***************************************************************************)
ModalSafe == ModalOneEscape /\ ModalSettles

(***************************************************************************)
(* A dialog that is dismissed disappears, unless it is shown again - and   *)
(* unless it was once shown while it was closing.                          *)
(***************************************************************************)
ModalDisappears ==
    (modal.displayed /\ ~modal.isShown /\ ~modal.overlapped)
        ~> (modal.isShown \/ ~modal.displayed)

=============================================================================

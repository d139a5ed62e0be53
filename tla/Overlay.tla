------------------------------ MODULE Overlay ------------------------------
(***************************************************************************)
(* The popup in which /provider and /model let the user pick an option     *)
(* (overlay_pick in src/ui/overlay.c).  Options and rows are counted from  *)
(* 0, as in the code.  The screen keeps its height while the popup is      *)
(* open: what curses makes of the window when it does not (the loop takes  *)
(* no notice of KEY_RESIZE) is not modelled.                               *)
(***************************************************************************)
EXTENDS Integers

CONSTANTS
    MaxOptions,     \* bound: options
    ScreenHeights   \* bound: LINES

ASSUME OverlayAssumption == MaxOptions \in Nat \ {0} /\ ScreenHeights \subseteq Nat

VARIABLE ov

Closed(result) == [open |-> FALSE, count |-> 0, vis |-> 1, sel |-> 0, scroll |-> 0,
                   result |-> result]

\* The top of the loop: the scroll position follows the selection.  The faulty
\* variant lets the selection go one row too far.
KeepInViewLate(o) ==
    [o EXCEPT !.scroll = IF o.sel < @ THEN o.sel
                         ELSE IF o.sel > @ + o.vis THEN o.sel - o.vis + 1 ELSE @]

KeepInView(o) ==
    [o EXCEPT !.scroll = IF o.sel < @ THEN o.sel
                         ELSE IF o.sel >= @ + o.vis THEN o.sel - o.vis + 1 ELSE @]

\* overlay_pick up to its first wgetch; a current option that is none of the
\* list is taken for the first.  The rows shown are those the screen has room
\* for, at least one.
overlay_pick ==
    /\ ~ov.open
    /\ \E count \in 1..MaxOptions, current \in -1..MaxOptions, lines \in ScreenHeights :
        LET room == IF count < lines - 8 THEN count ELSE lines - 8
        IN  ov' = KeepInView([open |-> TRUE, count |-> count,
                              vis |-> IF room < 1 THEN 1 ELSE room,
                              sel |-> IF current < 0 \/ current >= count THEN 0 ELSE current,
                              scroll |-> 0, result |-> -1])

\* KEY_UP, KEY_DOWN, KEY_PPAGE, KEY_NPAGE.
MoveBy(delta) ==
    /\ ov.open
    /\ LET sel == ov.sel + delta
       IN  ov' = KeepInView([ov EXCEPT !.sel = IF sel < 0 THEN 0
                                               ELSE IF sel >= ov.count THEN ov.count - 1
                                               ELSE sel])

Select == ov.open /\ ov' = Closed(ov.sel)
Cancel == ov.open /\ ov' = Closed(-1)

OverlayInit == ov = Closed(-1)

OverlayNext ==
    \/ overlay_pick
    \/ \E delta \in {-1, 1, -ov.vis, ov.vis} : MoveBy(delta)
    \/ Select \/ Cancel

OverlaySpec == OverlayInit /\ [][OverlayNext]_ov

-----------------------------------------------------------------------------
OverlayTypeOK ==
    ov \in [open : BOOLEAN, count : 0..MaxOptions, vis : 1..MaxOptions,
            sel : 0..MaxOptions - 1, scroll : 0..MaxOptions - 1,
            result : -1..MaxOptions - 1]

\* The selected option is one of those the popup shows, whatever the keys and
\* however small the screen, and no row of the popup is empty while there are
\* options (overlay.c:53).
SelInView ==
    ov.open => /\ ov.scroll <= ov.sel /\ ov.sel < ov.scroll + ov.vis
               /\ ov.scroll + ov.vis <= ov.count
=============================================================================

----------------------------- MODULE MCDesktop -----------------------------
(* The desktop on a screen of 8 by 7 units, in which the windows' default  *)
(* bounds overlap as they do in the code: the File Manager overlaps both   *)
(* others, which do not overlap.                                           *)
EXTENDS Desktop

MCBounds == <<Rect(0, 2, 4, 3), Rect(5, 2, 3, 3), Rect(2, 3, 4, 3)>>

\* Panel buttons, a task button, the menu's last item, and the title, buttons
\* and grip of windows at their default bounds.
MCTargets ==
    {Point(0, 0), Point(2, 0), Point(4, 0), Point(0, 3), Point(0, 2), Point(2, 2),
     Point(3, 2), Point(3, 4), Point(5, 2), Point(2, 3)}

\* Pixels of the panel, of each window, of each overlap, of the menu and of
\* the desktop alone.
MCPixels ==
    {Point(0, 0), Point(4, 0), Point(5, 0), Point(7, 0),
     Point(0, 1), Point(0, 3), Point(2, 3), Point(4, 5), Point(5, 4), Point(6, 2), Point(7, 6)}
=============================================================================

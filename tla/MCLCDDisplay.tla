---------------------------- MODULE MCLCDDisplay ----------------------------
(* A small display and texts of every interesting length.                  *)
EXTENDS LCDDisplay

CONSTANTS empty, short, wide, full, over

\* The widths of the display, 16 in 40, scaled to 3 in 8: a text that fits the
\* window, one that fits a scroll, one that fills a row of the controller and
\* one that does not fit.
MCTexts == {empty, short, wide, full, over}
MCLength ==
  [t \in MCTexts |->
     CASE t = empty -> 0 [] t = short -> 2 [] t = wide -> 4 [] t = full -> 8 [] t = over -> 10]
=============================================================================

------------------------------- MODULE MCBoard --------------------------------
(* Two people at the sprint tracker, a board of two columns and two cards.  *)
EXTENDS Board, TLC

CONSTANTS desk, tablet
MCBrowsers == {desk, tablet}
MCSymmetry == Permutations(MCBrowsers)
===============================================================================

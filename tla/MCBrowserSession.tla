--------------------------- MODULE MCBrowserSession ---------------------------
(* A small instance of BrowserSession: two tabs of one browser.               *)
EXTENDS BrowserSession, TLC

Symmetry == Permutations(Tabs)
=============================================================================

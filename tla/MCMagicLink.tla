---------------------------- MODULE MCMagicLink ----------------------------
(* The TLC instance of MagicLink.                                          *)
EXTENDS MagicLink, TLC

CONSTANTS c1, c2, ann, bob

\* Each of the staff acts for a client.
Portfolios == ann :> {c1} @@ bob :> {c2}

\* Requests, links and addresses are not told apart, nor are the clients when
\* the staff change places with them.
Symmetry ==
  Permutations(Workers) \cup Permutations(Links) \cup Permutations(Sources)
    \cup {ann :> bob @@ bob :> ann @@ c1 :> c2 @@ c2 :> c1}
=============================================================================

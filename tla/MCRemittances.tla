--------------------------- MODULE MCRemittances ----------------------------
(***************************************************************************)
(* Two requests in flight about the cash of two sessions.                  *)
(***************************************************************************)
EXTENDS Remittances, TLC

MCSymmetry == Permutations(Workers) \cup Permutations(Sessions)
                  \cup Permutations(Remittances) \cup Permutations(SiteRemittances)

=============================================================================

------------------------------ MODULE MCDeckSync ------------------------------
(* Instances of DeckSync for TLC.                                           *)
EXTENDS DeckSync, TLC

CONSTANTS c1, c2, k1, deck, child, other

(* A deck with a deck below it.                                             *)
Above == (child :> deck) @@ (deck :> Top)

(* ... and another deck.                                                    *)
Wood == (child :> deck) @@ (deck :> Top) @@ (other :> Top)
=============================================================================

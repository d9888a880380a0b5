-------------------------------- MODULE MCTurn --------------------------------
(***************************************************************************)
(* A turn, and the splitter that makes its sentences, for TLC.  What the   *)
(* splitter does depends on no state: it is looked at once, where a turn   *)
(* begins.                                                                 *)
(***************************************************************************)
EXTENDS Turn, Sentences

\* Every character of a reply that can be heard is spoken, once and in order, however
\* the model's tokens broke it, and no sentence that is handed to Bulbul is blank
\* (sentences, cutPoint).
NothingIsUnspoken ==
  Init => \A reply \in Replies : \A breaks \in Breaks(reply) : IsSpoken(reply, breaks)

\* A caller hears the same sentences however the model's tokens fall, unless one ends
\* at a decimal point: the digit after it has not come yet, and the number is cut in
\* two (cutPoint: "a digit either side of a period means it's a decimal point").
SameSentencesForAnyTokens ==
  Init => \A reply \in Replies : \A breaks \in Breaks(reply) : IsSplitAsAWhole(reply, breaks)
=============================================================================

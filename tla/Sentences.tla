------------------------------- MODULE Sentences -------------------------------
(***************************************************************************)
(* How the tokens of a reply become the sentences that are spoken          *)
(* (packages/sarvam/src/stream.ts, sentences and cutPoint): a sentence is  *)
(* yielded as soon as the buffer holds one, whatever the model writes next. *)
(*                                                                         *)
(* Of a character the model has what the splitter tells apart.  The tokens *)
(* are the reply, broken after some of its characters: so the buffer is    *)
(* always a span of the reply, and so is a sentence.                       *)
(***************************************************************************)
EXTENDS Integers, SequencesExt

CONSTANTS
  MinSentence,  \* MIN_SENTENCE_CHARS: a sentence is no shorter
  MaxClause,    \* MAX_CLAUSE_CHARS: from here on a clause is enough
  MaxChars      \* bound: characters of a reply on which the splitter is checked

ASSUME SentencesConstants ==
  /\ MinSentence \in Nat \ {0} /\ MaxClause \in Nat \ {0}
  /\ MaxChars \in Nat

\* "mark" is the other ends of a sentence, "comma" the ends of a clause.
Char == {"letter", "digit", "space", "period", "mark", "comma"}

\* A buffer is what came after its first place and up to its second.
Buffers(reply) == (0..Len(reply)) \X (0..Len(reply))
Within(buffer) == buffer[1] + 1 .. buffer[2]

\* trim(), and the sentence that it leaves, from its first place to its last: one, or
\* none when nothing is left.
Trimmed(reply, buffer) ==
  LET said == {i \in Within(buffer) : reply[i] # "space"}
  IN IF said = {} THEN << >> ELSE << <<Min(said), Max(said)>> >>

\* A digit on either side of a period, in the buffer, makes it a decimal point.
IsDecimal(reply, buffer, i) ==
  /\ reply[i] = "period"
  /\ {i - 1, i + 1} \subseteq Within(buffer)
  /\ reply[i - 1] = "digit" /\ reply[i + 1] = "digit"

\* (mutant) a buffer that is long enough is cut where it ends
ClosesAtLength(reply, buffer, i) ==
  \/ reply[i] \in {"period", "mark"} /\ i - buffer[1] >= MinSentence /\ ~IsDecimal(reply, buffer, i)
  \/ i = buffer[2] /\ i - buffer[1] >= MaxClause

Closes(reply, buffer, i) ==
  \/ reply[i] \in {"period", "mark"} /\ i - buffer[1] >= MinSentence /\ ~IsDecimal(reply, buffer, i)
  \/ reply[i] = "comma" /\ i - buffer[1] >= MaxClause

CutPoints(reply, buffer) == {i \in Within(buffer) : Closes(reply, buffer, i)}

\* (mutant) the rest begins behind the space that follows
RestAfterSpace(buffer, cut) == <<Min({cut + 1, buffer[2]}), buffer[2]>>

Rest(buffer, cut) == <<cut, buffer[2]>>

\* Where the next token ends.
NextEnd(reply, breaks, received) == Min({e \in breaks \cup {Len(reply)} : e > received})

\* sentences(): cut as long as there is where to, then take the next token; what is
\* left when the tokens end is a sentence too.
Sentences(reply, breaks) ==
  LET split[buffer \in Buffers(reply)] ==
        LET cuts == CutPoints(reply, buffer) IN
        IF cuts # {}
        THEN Trimmed(reply, <<buffer[1], Min(cuts)>>) \o split[Rest(buffer, Min(cuts))]
        ELSE IF buffer[2] # Len(reply)
        THEN split[<<buffer[1], NextEnd(reply, breaks, buffer[2])>>]
        ELSE Trimmed(reply, buffer)
  IN split[<<0, 0>>]

-----------------------------------------------------------------------------
(* What the splitter has to do. *)

\* The places at which the tokens of a reply can end, before the last one does.
Breaks(reply) == SUBSET (1..Len(reply) - 1)

\* Every character that can be heard is in a sentence, the sentences are in order and do
\* not overlap, and none is blank.
IsSpoken(reply, breaks) ==
  LET split == Sentences(reply, breaks)
      Heard(i) == i \in DOMAIN reply /\ reply[i] # "space"
  IN /\ \A i \in DOMAIN reply : Heard(i) =>
          \E k \in DOMAIN split : split[k][1] <= i /\ i <= split[k][2]
     /\ \A j, k \in DOMAIN split : j < k => split[j][2] < split[k][1]
     /\ \A k \in DOMAIN split :
          split[k][1] <= split[k][2] /\ Heard(split[k][1]) /\ Heard(split[k][2])

IsSplitAsAWhole(reply, breaks) ==
  (\A i \in breaks : ~IsDecimal(reply, <<0, Len(reply)>>, i))
    => Sentences(reply, breaks) = Sentences(reply, {})

Replies == BoundedSeq(Char, MaxChars)
=============================================================================

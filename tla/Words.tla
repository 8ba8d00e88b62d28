-------------------------------- MODULE Words --------------------------------
(* How the words of two texts relate where the engine compares characters:    *)
(* containment of strings in synthesis.rs and the prefix terms of index.rs.   *)
(* Words are compared without regard to case.                                 *)
EXTENDS Integers, Sequences

CONSTANTS BeginsWith(_, _),   \* the word begins with the part, or is the part
          EndsWith(_, _),     \* the word ends with the part, or is the part
          HasPart(_, _)       \* the part occurs in the word, or is the word

\* str::contains on texts joined by single spaces: the part lies inside one word,
\* or runs from the end of a word over whole words to the beginning of another.
Within(part, text) ==
  \/ Len(part) = 1 /\ \E i \in DOMAIN text : HasPart(text[i], part[1])
  \/ /\ Len(part) > 1
     /\ \E i \in 0 .. Len(text) - Len(part) :
          /\ EndsWith(text[i + 1], part[1])
          /\ BeginsWith(text[i + Len(part)], part[Len(part)])
          /\ \A k \in 2 .. Len(part) - 1 : text[i + k] = part[k]
=============================================================================

------------------------------- MODULE MCVocab -------------------------------
(* Vocab with the four special words, a word in two spellings, two other words *)
(* and two metatags, one with a malformed type.                                *)
EXTENDS Vocab

CONSTANTS unk, ss, se, pau, A, a, b, c, meta1, metax

Specials4 == {unk, ss, se, pau}
MixedNames == Specials4 \cup {A, a, meta1, metax}

MixedWordArgs == {unk, a, A, meta1, metax}
MCLower == [n \in Names |-> IF n = A THEN a ELSE n]
MCMetaType == [n \in Names \cap {meta1, metax} |-> IF n = meta1 THEN 1 ELSE -1]
===============================================================================

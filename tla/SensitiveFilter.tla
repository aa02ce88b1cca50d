--------------------------- MODULE SensitiveFilter ---------------------------
(***************************************************************************)
(* The word filter of internal/danmaku: a trie over lower-case letters.    *)
(* A node of the trie is the path that leads to it, so a trie is a set of  *)
(* paths closed under prefixes and the set of those that end a word.       *)
(* Words and texts are sequences of letters, trimmed.                      *)
(***************************************************************************)
EXTENDS Sequences, Integers

CONSTANT Lower   \* a function: the lower case of each letter

ToLower(text) == [i \in DOMAIN text |-> Lower[text[i]]]

\* NewSensitiveFilter: an empty word is skipped.
Trie(words) ==
    LET kept == {ToLower(w) : w \in words \ {<<>>}}
    IN  [nodes |-> UNION {{SubSeq(w, 1, n) : n \in 1..Len(w)} : w \in kept},
         terminal |-> kept]

\* Contains: from every position, walk down the trie until it ends or a word does.
Contains(trie, raw) ==
    LET text == ToLower(raw)
    IN  \E i \in DOMAIN text : \E j \in i..Len(text) :
            /\ \A k \in i..j : SubSeq(text, i, k) \in trie.nodes
            /\ SubSeq(text, i, j) \in trie.terminal

-----------------------------------------------------------------------------
\* The reference: some word occurs in the text, in whatever case.
Occurs(words, raw) ==
    \E w \in words \ {<<>>} : \E i \in 0..Len(raw) - Len(w) :
        \A n \in DOMAIN w : Lower[w[n]] = Lower[raw[i + n]]
=============================================================================

------------------------------- MODULE DnsNames -------------------------------
(***************************************************************************)
(* Names as strings.  A string is a sequence of characters, a character    *)
(* its code.  What Unicode says of characters is given by constants.       *)
(***************************************************************************)
EXTENDS Naturals, Sequences

CONSTANTS
    LowerCase,    \* lower case of characters that are not ASCII, each a text
    Cased,        \* the characters with that property
    Ignorable     \* and those with Case_Ignorable

Dot == 46
Newline == 10
Unknown == 65533             \* U+FFFD
Sigma == 931                 \* in lower case 962 at the end of a word, or 963
SmallSigmas == {962, 963}

Char == {c \in Nat : c <= 1114111 /\ c \notin 55296..57343}
Text == Seq(Char)

\* Small letters stay as they are, and none is ASCII punctuation.
ASSUME CaseAssumption ==
    /\ DOMAIN LowerCase \subseteq Char \ (0..127 \cup {Unknown, Sigma} \cup SmallSigmas)
    /\ \A c \in DOMAIN LowerCase :
          /\ LowerCase[c] \in Text \ {<<>>}
          /\ \A k \in DOMAIN LowerCase[c] :
                LowerCase[c][k] \notin DOMAIN LowerCase \cup 65..90 \cup {Sigma, Dot, Newline}

\* No letter follows in the word, and one is before.
FinalSigma(text, k) ==
    /\ \E i \in 1..(k - 1) : /\ text[i] \in Cased \ Ignorable
                             /\ \A j \in (i + 1)..(k - 1) : text[j] \in Ignorable
    /\ ~\E i \in (k + 1)..Len(text) : /\ text[i] \in Cased \ Ignorable
                                      /\ \A j \in (k + 1)..(i - 1) : text[j] \in Ignorable

\* to_lowercase, of one character and of a string.
LowerAt(text, k) ==
    LET c == text[k]
    IN  CASE c \in 65..90             -> <<c + 32>>
          [] c = Sigma                -> <<IF FinalSigma(text, k) THEN 962 ELSE 963>>
          [] c \in DOMAIN LowerCase   -> LowerCase[c]
          [] OTHER                    -> <<c>>
Lower(text) ==
    LET from[k \in 1..(Len(text) + 1)] ==
            IF k > Len(text) THEN <<>> ELSE LowerAt(text, k) \o from[k + 1]
    IN  from[1]

\* trim_end_matches('.').
Trim(text) ==
    SubSeq(text, 1, CHOOSE n \in 0..Len(text) :
                       /\ n = 0 \/ text[n] # Dot
                       /\ \A k \in (n + 1)..Len(text) : text[k] = Dot)

\* How write_name and the filter rules compare names.
Canon(text) == Lower(Trim(text))

===============================================================================

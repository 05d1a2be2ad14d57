----------------------------- MODULE MCSources -----------------------------
(* Hashes of three bytes of 4 bits, texts of four characters of 3 bits, and *)
(* a buffer of 7 bits: it overflows when the third character is pushed.  As *)
(* in the code, some hash that is too short has the digits of a text.       *)
EXTENDS TorrentSources

CONSTANTS u, v, n1, n2, e1, e2, e3, q1, q2

Texts4 == [1..4 -> Chars]

\* Texts that toUpper made longer: of 5 to 11 letters (TLC's numbers hold no
\* more), one that ends in padding, and one with another character.
LongTexts ==
    {[i \in 1..n |-> (i * i - 1) % 8] : n \in 5..11}
    \union {<<7, 0, 5, 3, 2, Pad>>, <<1, 2, Other, 3, 4>>}

\* 0 is not in the alphabet, 1 at its end.
MCDigitChar == [d \in 0..3 |-> IF d = 0 THEN Other ELSE IF d = 1 THEN 7 ELSE d - 2]

Topic(t) == [key |-> "xt", topic |-> t]
Hex(h) == Topic([form |-> "hex", hash |-> h])
Base32(t) == Topic([form |-> "base32", text |-> t])

\* Every text; and items in any order, with a second topic, a hash that is too
\* short (of four digits that are letters, and not) or too long, a topic of
\* another kind.
MCUris ==
    {<<Base32(t)>> : t \in Texts4 \union LongTexts}
    \union {<<a, b, c>> : a \in {Hex(<<5, 2, 15>>), Hex(<<7>>), Topic([form |-> "other"])},
                          b \in {Hex(<<11, 6>>), Hex(<<1, 11>>), Base32(<<1, 2, 3, 4, 5, 6>>),
                                 [key |-> "dn", name |-> n1], [key |-> "xl", length |-> -1]},
                          c \in {Hex(<<0, 6, 9>>), [key |-> "tr", tracker |-> u],
                                 [key |-> "xl", length |-> 9]}}

MCLengths == {-1, 9}
MCWellKnown == <<u>>
MCNone == <<>>

MCAnswers ==
    {[kind |-> "error"], [kind |-> "object"]}
    \union {[kind |-> "array", entries |-> s] :
              s \in {<<e2, e1>>, <<e3, NoResults, e1>>}}

\* e1 can be added, e2 has no hash, e3 a short one.
MCHashOf == (e1 :> <<3, 4, 12>>) @@ (e2 :> <<>>) @@ (e3 :> <<11, 6>>)
MCNameOf == (e1 :> n1) @@ (e2 :> n1) @@ (e3 :> n1)

\* A tracker alone, a group of two that repeats it, and an empty group.
MCUrlLists == {<<>>, <<u>>, <<v, u>>}

MCTorrentSources ==
    {[size |-> 1, files |-> 1, pieces |-> 1], [size |-> 0, files |-> 0, pieces |-> 0]}

=============================================================================

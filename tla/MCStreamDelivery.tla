--------------------------- MODULE MCStreamDelivery ---------------------------
(* Every answer of at most five words and tags, in chunks of five symbols; *)
(* those of at most four pieces that have the word "data:"; and some that  *)
(* are longer than all the buffers together.                               *)
EXTENDS StreamDelivery, SequencesExt

Tokens == {<<"text">>, <<"blank">>, Open, Close}
ShortContents == {FlattenSeq(t) : t \in UNION {[1 .. n -> Tokens] : n \in 0 .. 5}}

DataTokens == Tokens \cup {<<"newline">>, <<"data:">>}
DataContents == {c \in {FlattenSeq(t) : t \in UNION {[1 .. n -> DataTokens] : n \in 1 .. 4}} :
                    \E i \in DOMAIN c : c[i] = "data:"}

Texts(n) == [i \in 1 .. n |-> "text"]
LongContents == {Texts(28), Open \o Texts(14) \o Close \o Texts(10)}

AllContents == ShortContents \cup DataContents \cup LongContents
===============================================================================

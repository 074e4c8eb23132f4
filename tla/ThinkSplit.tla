------------------------------ MODULE ThinkSplit ------------------------------
(***************************************************************************)
(* Package thinksplit: the reasoning between the first <think> and the     *)
(* </think> that closes it is taken out of an answer, at once (Split) or   *)
(* chunk by chunk (the StreamSplitter).                                    *)
(*                                                                         *)
(* An answer is a sequence of symbols, a few characters each: a tag is two *)
(* of them, so that the end of a chunk can fall inside a tag.  "data:" is  *)
(* a word of its own: at the start of a line it looks like an SSE event.   *)
(***************************************************************************)
EXTENDS Naturals, Sequences, FiniteSets, FiniteSetsExt

Open  == <<"<thi", "nk>">>
Close == <<"</th", "ink>">>
White == {"blank", "newline"}
Symbols == {"text", "data:", "<thi", "nk>", "</th", "ink>"} \cup White

Before(s, i) == SubSeq(s, 1, i - 1)
From(s, i) == SubSeq(s, i, Len(s))
Places(tag, s) == {i \in 1 .. Len(s) - 1 : SubSeq(s, i, i + 1) = tag}
First(places) == IF places = {} THEN 0 ELSE Min(places)

Blank(s) == \A i \in DOMAIN s : s[i] \in White

(* The close tag that leaves none of the open tags before it unmatched. *)
Matching(s) ==
    First({i \in Places(Close, s) :
             Cardinality({o \in Places(Open, s) : o < i})
                 = Cardinality({c \in Places(Close, s) : c < i})})

Parts(visible, reasoning) == [visible |-> visible, reasoning |-> reasoning]

(* What follows the open tag: the reasoning up to its close tag. *)
Inside(s) == IF Matching(s) = 0 THEN Parts(<<>>, s)
             ELSE Parts(From(s, Matching(s) + 2), Before(s, Matching(s)))

Split(s) ==
    LET o == First(Places(Open, s))
        rest == Inside(From(s, o + 2))
    IN  IF o = 0 THEN Parts(s, <<>>)
        ELSE Parts(Before(s, o) \o rest.visible, rest.reasoning)

-------------------------------------------------------------------------------
(* The StreamSplitter, with the parts that came out of its last call. *)

NewStreamSplitter == [buffer |-> <<>>, inThinkTag |-> FALSE, foundFirst |-> FALSE,
                      out |-> Parts(<<>>, <<>>)]

Leaves(s, buffer, in, out) ==
    [buffer |-> buffer, inThinkTag |-> in, foundFirst |-> s.foundFirst \/ in, out |-> out]

(* In the tag: without its end everything is reasoning, and is forgotten.  *)
Reason(s, b) == Leaves([s EXCEPT !.foundFirst = TRUE], <<>>, Matching(b) = 0, Inside(b))

(* Only the first open tag counts.  Text before it is returned alone; what *)
(* is behind the tag waits in the buffer for the next call.                *)
Feed(s, delta) ==
    LET b == s.buffer \o delta
        o == First(Places(Open, b))
    IN  IF s.inThinkTag THEN Reason(s, b)
        ELSE IF s.foundFirst \/ o = 0 THEN Leaves(s, <<>>, FALSE, Parts(b, <<>>))
        ELSE IF o > 1 THEN Leaves(s, From(b, o + 2), TRUE, Parts(Before(b, o), <<>>))
        ELSE Reason(s, From(b, o + 2))

(* At the end of the stream; only what is in the tag is ever buffered. *)
Flush(s) == Inside(s.buffer)
===============================================================================

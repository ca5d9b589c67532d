------------------------------- MODULE MCRetain -------------------------------
(* Small instances of RetainPipeline: one session whose transcript grows. *)
EXTENDS RetainPipeline, TLC

CONSTANTS c1, c2, d1, d2, s1, ca, cb, cc, p1, p2, p3

MCSession == {s1}
MCPiece   == {p1, p2, p3}

Post(doc, content, from, to) ==
  [doc |-> doc, session |-> s1, content |-> content, from |-> from, to |-> to]

\* A first delta; the same bytes and more, posted again under the same
\* document after the answer was lost; the next delta; one with nothing to
\* retain.
First  == Post(d1, ca, 0, 1)
Grown  == Post(d1, cb, 0, 2)
Second == Post(d2, cc, 1, 2)
Empty  == Post(d2, Nothing, 1, 2)

MCContent == {ca, cb, cc}
MCDoc     == {d1, d2}
DeltaPosts   == {First, Second, Empty}
AllPosts     == {Grown} \cup DeltaPosts
SinglePost   == {First}

\* Two builds that cut the same text into different chunks.
MCCuts ==
  [v \in Version |->
     IF v = 1 THEN ca :> <<{p1}, {p2}>> @@ cb :> <<{p1}, {}, {p2, p3}>> @@ cc :> <<{p3}>>
              ELSE ca :> <<{p1, p2}>> @@ cb :> <<{p1, p2}, {p3}>> @@ cc :> <<{p3}>>]

MCSymmetry == Permutations({c1, c2})
===============================================================================

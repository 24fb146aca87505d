------------------------------ MODULE MCReader ------------------------------
(* Recordings of up to three segments: whole records over different words, *)
(* lone words, and a record whose extent the next segment may not fill.    *)
EXTENDS Reader

W(k, l, f) == [kind |-> k, len |-> l, fate |-> f]

Null == W("null", 0, "fine")
Junk == W("junk", 0, "fine")

\* Three words fill a record of either format, two words one of "std" only.
Heads == {W("msg", 3, "fine"), W("msg", 3, "shape"), W("msg", 3, "time"),
          W("err", 3, "fine"), W("err", 3, "code"), W("spur", 3, "fine")}

\* What stands inside a record: a stray zero, or a word a scan takes for a Type
\* Word.
Bodies == {<<Null, Junk>>, <<Junk, W("spur", 3, "fine")>>}

Segments ==
  {<<h>> \o b : h \in Heads, b \in Bodies}
    \union {<<W("msg", 2, "fine"), Junk>>, <<Null>>, <<Junk>>, <<W("spur", 4, "fine")>>}

SmallFiles ==
  Segments \union {a \o b : a, b \in Segments} \union {a \o b \o c : a, b, c \in Segments}

Minima == [irig |-> 3, std |-> 2]

C(s, h, n) == [strict |-> s, hint |-> h, lookahead |-> n]

\* Both modes in every format; and a deeper look-ahead.
AllConfigs ==
  {C(s, h, 2) : s \in BOOLEAN, h \in {"auto", "irig", "std"}} \union {C(FALSE, "irig", 3)}
=============================================================================

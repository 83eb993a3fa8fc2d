------------------------- MODULE MCV90Downstream -------------------------
EXTENDS V90Downstream

Shaper(S, ld) == [S |-> S, K |-> 3, ld |-> ld,
                  sizes |-> <<2, 1, 3, 1, 1, 2>>]
MCParams == {[Shaper(s[1], s[2]) EXCEPT !.sizes = [i \in Symbols |-> @[i + 1]]] :
               s \in {<<6, 0>>, <<5, 1>>, <<4, 3>>, <<3, 2>>}}

Frame(signs, value) == [signs |-> [i \in Symbols |-> signs[i + 1]], value |-> value]
MCPayloads == {
  <<Frame(<<1, 1, 0, 1, 0, 0>>, 5), Frame(<<0, 1, 1, 0, 1, 1>>, 2), Frame(<<1, 0, 0, 1, 1, 0>>, 7)>>}
==========================================================================

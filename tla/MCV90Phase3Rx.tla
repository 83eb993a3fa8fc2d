--------------------------- MODULE MCV90Phase3Rx ---------------------------
EXTENDS V90Phase3Rx

\* What callers ask for; one constellation for all six frames.
Compact == [S |-> 6, drn |-> 1, ld |-> 0, a1 |-> 0, a2 |-> 0, b1 |-> 0, b2 |-> 0,
            index |-> [frame \in 0 .. 5 |-> 0], masks |-> <<{8, 40}>>, codec |-> <<>>]
\* The captured caller's: constellations for the codec, too, a shaping filter.
Separate == [Compact EXCEPT !.S = 5, !.ld = 1, !.a1 = 64, !.b2 = -3, !.drn = 0,
                            !.codec = <<{9, 41}>>]
TooFast == [Compact EXCEPT !.drn = 9]
Empty == [sp |-> <<0>>, tp |-> <<0>>, h |-> <<0, 0, 0, 0, 0, 0, 0, 0>>,
          ref |-> <<0, 0, 0, 0, 0, 0, 0, 0>>, ucodes |-> <<>>]
Three == [sp |-> [i \in 1 .. 18 |-> i % 2], tp |-> <<1>>, h |-> <<1, 2, 3, 4, 5, 6, 7, 8>>,
          ref |-> <<9, 8, 7, 6, 5, 4, 3, 127>>, ucodes |-> <<1, 64, 127>>]

\* Another constellation for frames 1 and 3.
Mixed == [Compact EXCEPT !.S = 4, !.drn = 2, !.index = [frame \in 0 .. 5 |-> <<0, 1, 0, 1, 0, 0>>[frame + 1]],
                         !.masks = <<{8, 40}, {9, 41, 127}>>]
\* Frame 5 uses the second of two: it is read as the third, which is not there.
Overlooked == [Mixed EXCEPT !.index = [frame \in 0 .. 5 |-> <<0, 1, 0, 0, 0, 1>>[frame + 1]]]
\* Frame 4 uses the second of three: it is read as the third.
Mistaken == [Mixed EXCEPT !.index = [frame \in 0 .. 5 |-> <<0, 2, 1, 0, 1, 0>>[frame + 1]],
                          !.masks = <<{8, 40}, {9, 41}, {10, 42, 127}>>]

Caller(ja, cp, fill, clicks) == [ja |-> ja, cp |-> cp, fill |-> fill, clicks |-> clicks]
\* The clicks: in the ones (6), the start bit (17), the first index that is
\* misread (119), the CRC of Ja (230), that of a CPt (275) and its fill (426).
MCCalls == {Caller(Empty, Separate, 3, {119}), Caller(Three, Compact, 1, {6, 275}),
            Caller(Empty, TooFast, 3, {17, 230}), Caller(Empty, Mixed, 3, {426}),
            Caller(Empty, Overlooked, 3, {}), Caller(Empty, Mistaken, 1, {})}
============================================================================

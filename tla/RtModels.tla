------------------------------- MODULE RtModels -------------------------------
(***************************************************************************)
(* The golden model of fixed-point ray tracing, asked for a reciprocal or  *)
(* an intersection, and what its answers have to satisfy.                  *)
(***************************************************************************)
EXTENDS RtFixed, Questions

FxWords == -(2 ^ (FXW - 1)) .. FX_MAX
FxPoints == [Axes -> FxWords]

\* The calls the hardware's testbench can make.
RtCallable(q) ==
    /\ q.k = "recip" => q.det \in 1 .. 2 ^ (FXW - 1)
    /\ q.k = "tri" => q.o \in FxPoints /\ q.d \in FxPoints /\ \A i \in Axes : q.v[i] \in FxPoints

ASSUME RtQueriesAssumption == \A calls \in Queries : \A q \in calls : RtCallable(q)

Reciprocate == Ask("recip") /\ answer' = <<Reciprocal(query.det)>>
HitTriangle == Ask("tri") /\ answer' = <<tri_isect(query.o, query.d, query.v[1], query.v[2], query.v[3])>>

RtNext == Reciprocate \/ HitTriangle
RtSpec == Asking /\ [][RtNext]_<<query, answer>>

-----------------------------------------------------------------------------
\* The Newton-Raphson reciprocal of every determinant is 2^FXW / det but for the
\* truncation to a whole number and a few units in the last place of the mantissa:
\* the iteration converges over the whole normalised range.
RECIPROCAL_ERROR == 8
ReciprocalConverges ==
    Asked({"recip"}) => AbsVal(Got * query.det - 2 ^ FXW) <= RECIPROCAL_ERROR + query.det

-----------------------------------------------------------------------------
(* Geometry, on integers. *)

Dot(v, w) == v[1] * w[1] + v[2] * w[2] + v[3] * w[3]
Cross(v, w) == <<v[2] * w[3] - v[3] * w[2], v[3] * w[1] - v[1] * w[3], v[1] * w[2] - v[2] * w[1]>>
Units(v) == [i \in Axes |-> v[i] \div FX_ONE]
Diff(v, w) == [i \in Axes |-> v[i] - w[i]]

\* The triangle as the ray's origin sees it, and the plane's normal.
Seen(q) == [i \in Axes |-> Diff(Units(q.v[i]), Units(q.o))]
Normal(v) == Cross(Diff(v[2], v[1]), Diff(v[3], v[1]))
Side(q, i, j) == Dot(Units(q.d), Cross(Seen(q)[i], Seen(q)[j]))

Whole(v) == \A i \in Axes : v[i] % FX_ONE = 0
FitsWord(n) == AbsVal(n) < 2 ^ (FXW \div 2 - 1)

\* Integer points, and a word for each of the four determinants, whatever the partial
\* products and sums they are made of.
InRange(q) ==
    /\ Whole(q.o) /\ Whole(q.d) /\ \A i \in Axes : Whole(q.v[i])
    /\ FitsWord(Side(q, 1, 2)) /\ FitsWord(Side(q, 3, 1))
    /\ FitsWord(Dot(Normal(Seen(q)), Units(q.d))) /\ FitsWord(Dot(Normal(Seen(q)), Seen(q)[1]))

\* A triangle of integer points is hit when the ray's line passes its three edges on
\* one side and its plane lies ahead: a partial product that wraps around is no harm as
\* long as the determinants fit.
HitsAreGeometric ==
    (Asked({"tri"}) /\ InRange(query)) =>
        LET sides == {Side(query, 1, 2), Side(query, 2, 3), Side(query, 3, 1)}
            normal == Normal(Seen(query))
        IN  Got.hit <=> /\ (\A x \in sides : x >= 0) \/ (\A x \in sides : x <= 0)
                      /\ Dot(normal, Units(query.d)) * Dot(normal, Seen(query)[1]) > 0
=============================================================================

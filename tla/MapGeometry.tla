------------------------------ MODULE MapGeometry ------------------------------
(***************************************************************************)
(* The geometry behind the shapes drawn on the map (leaflet-src.js):       *)
(* rectangles (L.Bounds), lines and polygons clipped to what is in view    *)
(* (L.LineUtil, L.PolyUtil), and lines simplified.                         *)
(*                                                                         *)
(* Coordinates are integers, in a unit fine enough for every crossing of   *)
(* a segment between points of the grid with an edge of the view to have   *)
(* integer coordinates too: the code's divisions are exact.  An input is   *)
(* chosen in the initial state; the functions are compared with what they  *)
(* compute by definition.                                                  *)
(***************************************************************************)
EXTENDS Integers, Sequences, FiniteSets, SequencesExt

CONSTANTS Grid,          \* coordinates of a point, in steps
          PathGrid,      \* of a path to simplify
          Unit,          \* units in a step
          ViewMin, ViewMax,     \* the view, in steps
          ShapePoints, PathPoints,  \* points of a shape, and of a path to simplify
          Tolerance      \* of simplify, in steps

ASSUME GridAssumption == Grid \subseteq Int /\ PathGrid \subseteq Int
ASSUME ViewAssumption == ViewMin \in Int /\ ViewMax \in Int /\ ViewMin <= ViewMax
ASSUME UnitAssumption == Unit \in Nat \ {0}

\* The divisions are exact: so fine is the unit.
ASSUME ExactAssumption == \A x, y \in Grid : x > y => \E n \in 1..Unit : Unit = n * (x - y)

ASSUME ToleranceAssumption == Tolerance \in Nat
ASSUME PointsAssumption == ShapePoints \in Nat /\ PathPoints \in Nat

VARIABLE geo

geVars == <<geo>>

Point(x, y) == [x |-> x, y |-> y]
GridPoints == {Point(x * Unit, y * Unit) : x, y \in Grid}

GeInit == \E kind \in {"clip", "simplify"} : geo = [kind |-> kind, points |-> <<>>]

\* A shape is drawn point by point, and drawn anew with each (Polyline.addLatLng).
AddPoint ==
  \/ /\ geo.kind = "clip" /\ Len(geo.points) < ShapePoints
     /\ \E p \in GridPoints : geo' = [geo EXCEPT !.points = Append(@, p)]
  \/ /\ geo.kind = "simplify" /\ Len(geo.points) < PathPoints
     /\ \E x, y \in PathGrid : geo' = [geo EXCEPT !.points = Append(@, Point(x, y))]

GeNext == AddPoint

-------------------------------------------------------------------------------
\* L.Bounds: a rectangle, or none yet.

NoBounds == [none |-> TRUE]

Extend(b, p) ==
  IF b = NoBounds THEN [min |-> p, max |-> p]
  ELSE [min |-> Point(IF p.x < b.min.x THEN p.x ELSE b.min.x,
                      IF p.y < b.min.y THEN p.y ELSE b.min.y),
        max |-> Point(IF p.x > b.max.x THEN p.x ELSE b.max.x,
                      IF p.y > b.max.y THEN p.y ELSE b.max.y)]

BoundsOf(points) == FoldLeft(Extend, NoBounds, points)

ContainsBounds(b, c) ==
  b.min.x <= c.min.x /\ c.max.x <= b.max.x /\ b.min.y <= c.min.y /\ c.max.y <= b.max.y

ContainsPoint(b, p) == ContainsBounds(b, [min |-> p, max |-> p])

Intersects(b, c) ==
  c.max.x >= b.min.x /\ c.min.x <= b.max.x /\ c.max.y >= b.min.y /\ c.min.y <= b.max.y
-------------------------------------------------------------------------------
\* L.LineUtil: clipping to the view.

Low == ViewMin * Unit
High == ViewMax * Unit
View == [min |-> Point(Low, Low), max |-> Point(High, High)]

Sides == {"left", "right", "bottom", "top"}

\* _getBitCode: the sides of the view a point is beyond.
BitCode(p) ==
  {s \in Sides : CASE s = "left" -> p.x < Low [] s = "right" -> p.x > High
                   [] s = "bottom" -> p.y < Low [] s = "top" -> p.y > High}

\* The divisions of the code are exact in this unit; a divisor is not 0.
Quotient(n, d) == IF d < 0 THEN (-n) \div (-d) ELSE n \div d

\* _getEdgeIntersection: of the line through a and b with one of the sides.
AtY(a, b, y) == Point(a.x + Quotient((b.x - a.x) * (y - a.y), b.y - a.y), y)
AtX(a, b, x) == Point(x, a.y + Quotient((b.y - a.y) * (x - a.x), b.x - a.x))

EdgeIntersection(a, b, sides) ==
  CASE "top" \in sides -> AtY(a, b, High)
    [] "top" \notin sides /\ "bottom" \in sides -> AtY(a, b, Low)
    [] sides \cap {"top", "bottom"} = {} /\ "right" \in sides -> AtX(a, b, High)
    [] sides = {"left"} -> AtX(a, b, Low)

\* clipSegment (Cohen-Sutherland): an end that is outside moves to an edge, at
\* most twice for each end.
Accepted(s) == BitCode(s.a) \cup BitCode(s.b) = {}
Rejected(s) == BitCode(s.a) \cap BitCode(s.b) # {}

ClipStep(s, n) ==
  IF Accepted(s) \/ Rejected(s) THEN s
  ELSE IF BitCode(s.a) # {} THEN [s EXCEPT !.a = EdgeIntersection(s.a, s.b, BitCode(s.a))]
  ELSE [s EXCEPT !.b = EdgeIntersection(s.a, s.b, BitCode(s.b))]

ClipSegment(a, b) == FoldLeft(ClipStep, [a |-> a, b |-> b], <<1, 2, 3, 4>>)

\* Polyline._clipPoints: the parts of a line in view; a part ends where its
\* line leaves the view, or ends.
ClipPart(points, c, i) ==
  LET s == ClipSegment(points[i], points[i + 1])
      begun == IF c.open THEN Append(Front(c.parts), Append(Last(c.parts), s.a))
               ELSE Append(c.parts, <<s.a>>)
      ends == s.b # points[i + 1] \/ i = Len(points) - 1
  IN IF Rejected(s) THEN c
     ELSE [parts |-> IF ends THEN Append(Front(begun), Append(Last(begun), s.b)) ELSE begun,
           open |-> ~ends]

ClipPoints(points) ==
  FoldLeft(LAMBDA c, i : ClipPart(points, c, i), [parts |-> <<>>, open |-> FALSE],
           [i \in 1..Len(points) - 1 |-> i]).parts

\* Faulty variant: the top is forgotten.
ClipOrderNoTop == <<"left", "bottom", "right">>

\* L.PolyUtil.clipPolygon (Sutherland-Hodgman): one side after the other.
ClipOrder == <<"left", "bottom", "right", "top">>

\* Of an edge, what is not beyond the side: its end, and where it crosses the side.
Clipped(ring, side, i) ==
  LET a == ring[i]
      b == IF i = 1 THEN Last(ring) ELSE ring[i - 1]
      p == EdgeIntersection(b, a, {side})
  IN IF side \notin BitCode(a)
     THEN IF side \in BitCode(b) THEN <<p, a>> ELSE <<a>>
     ELSE IF side \notin BitCode(b) THEN <<p>> ELSE <<>>

Against(ring, side) == FlattenSeq([i \in 1..Len(ring) |-> Clipped(ring, side, i)])

ClipPolygon(points) == FoldLeft(Against, points, ClipOrder)

\* L.Polygon: a last point that is the first again goes (_initWithHoles), and
\* the outline and the holes that are in view are drawn (_clipPoints).
InitRing(points) ==
  IF Len(points) >= 2 /\ points[1] = Last(points) THEN Front(points) ELSE points

KeepRing(kept, points) ==
  LET ring == ClipPolygon(InitRing(points))
  IN IF ring # <<>> THEN Append(kept, ring) ELSE kept

ClipRings(rings) == FoldLeft(KeepRing, <<>>, rings)
-------------------------------------------------------------------------------
\* L.LineUtil: simplification.

SqDist(p, q) == (p.x - q.x) * (p.x - q.x) + (p.y - q.y) * (p.y - q.y)

\* _sqClosestPointOnSegment with sqDist, as a fraction.
SqDistToSegment(p, p1, p2) ==
  LET dx == p2.x - p1.x
      dy == p2.y - p1.y
      dot == dx * dx + dy * dy
      t == (p.x - p1.x) * dx + (p.y - p1.y) * dy
      cross == (p.x - p1.x) * dy - (p.y - p1.y) * dx
  IN IF dot > 0 /\ t > dot THEN [num |-> SqDist(p, p2), den |-> 1]
     ELSE IF dot > 0 /\ t > 0 THEN [num |-> cross * cross, den |-> dot]
     ELSE [num |-> SqDist(p, p1), den |-> 1]

Further(d, e) == d.num * e.den > e.num * d.den
SqTolerance == [num |-> Tolerance * Tolerance, den |-> 1]

\* _reducePoints: a point too close to the one kept before it goes, but not the
\* last.
KeepFar(points, kept, i) ==
  IF SqDist(points[i], points[Last(kept)]) > Tolerance * Tolerance THEN Append(kept, i)
  ELSE kept

ReducePoints(points) ==
  LET kept == FoldLeft(LAMBDA k, i : KeepFar(points, k, i), <<1>>,
                       [i \in 1..Len(points) - 1 |-> i + 1])
      all == IF Last(kept) < Len(points) THEN Append(kept, Len(points)) ELSE kept
  IN [k \in 1..Len(all) |-> points[all[k]]]

\* _simplifyDPStep: of the points between first and last the first that is the
\* furthest from their segment is marked, if that is too far.
Distance(points, f, l, i) == SqDistToSegment(points[i], points[f], points[l])

TooFar(points, f, l) == {i \in f + 1 .. l - 1 : Further(Distance(points, f, l, i), SqTolerance)}

Furthest(points, f, l) ==
  CHOOSE i \in TooFar(points, f, l) : \A j \in TooFar(points, f, l) :
    /\ ~Further(Distance(points, f, l, j), Distance(points, f, l, i))
    /\ j < i => Further(Distance(points, f, l, i), Distance(points, f, l, j))

Marked(points) ==
  LET m[s \in (1..Len(points)) \X (1..Len(points))] ==
        IF TooFar(points, s[1], s[2]) = {} THEN {}
        ELSE LET index == Furthest(points, s[1], s[2])
             IN {index} \cup m[<<s[1], index>>] \cup m[<<index, s[2]>>]
  IN {1, Len(points)} \cup m[<<1, Len(points)>>]

\* The indices that are marked, in their order.
KeepMarked(marked, kept, i) == IF i \in marked THEN Append(kept, i) ELSE kept

SimplifyDP(points) ==
  LET marked == Marked(points)
      kept == FoldLeft(LAMBDA k, i : KeepMarked(marked, k, i), <<>>,
                       [i \in 1..Len(points) |-> i])
  IN [k \in 1..Len(kept) |-> points[kept[k]]]

\* Without a tolerance, or points, there is nothing to do.
Simplify(points) ==
  IF Tolerance = 0 \/ points = <<>> THEN points ELSE SimplifyDP(ReducePoints(points))

\* Polyline._updatePath simplifies what is in view (_simplifyPoints): each part of
\* a line, and, inherited by Polygon, each ring.
UpdatePath(parts) == [i \in DOMAIN parts |-> Simplify(parts[i])]

GeSpec == GeInit /\ [][GeNext]_geVars
-------------------------------------------------------------------------------
GeTypeOK ==
  geo.kind \in {"clip", "simplify"} /\ Len(geo.points) <= IF geo.kind = "clip" THEN ShapePoints
                                                         ELSE PathPoints

InView(p) == ContainsPoint(View, p)
Middle(lo, p, hi) == (lo <= p /\ p <= hi) \/ (hi <= p /\ p <= lo)
Cross(a, b, p) == (b.x - a.x) * (p.y - a.y) - (b.y - a.y) * (p.x - a.x)
OnSegment(a, b, p) == Cross(a, b, p) = 0 /\ Middle(a.x, p.x, b.x) /\ Middle(a.y, p.y, b.y)

\* The points that divide a segment into Unit pieces.
Samples(a, b) ==
  {Point(a.x + ((b.x - a.x) * k) \div Unit, a.y + ((b.y - a.y) * k) \div Unit) : k \in 0..Unit}

\* A clipped line is the part of the line in view: its points are on the line
\* and in view, and it covers every point of the line that is.
ClippedLine(points, parts) ==
  /\ \A part \in Range(parts) : \A v \in Range(part) :
       InView(v) /\ \E i \in 1..Len(points) - 1 : OnSegment(points[i], points[i + 1], v)
  /\ \A i \in 1..Len(points) - 1 : \A q \in Samples(points[i], points[i + 1]) :
       InView(q) => \E part \in Range(parts) :
                      \E k \in 1..Len(part) - 1 : OnSegment(part[k], part[k + 1], q)

\* A point is inside a ring when a ray from it crosses the ring an odd number of
\* times.
Before(ring, i) == IF i = 1 THEN Last(ring) ELSE ring[i - 1]
Inside(ring, p) ==
  Cardinality({i \in 1..Len(ring) :
     LET a == ring[i]
         b == Before(ring, i)
     IN (a.y > p.y) # (b.y > p.y) /\ (Cross(a, b, p) > 0) = (b.y > a.y)}) % 2 = 1

\* Points in view that are on no edge of the polygon.
Probes(points) ==
  {p \in {Point(x, y) : x, y \in Low + 1 .. High - 1} :
     \A i \in 1..Len(points) : Cross(Before(points, i), points[i], p) # 0}

\* A clipped polygon is in view, and has the same points of the view inside.
ClippedPolygon(points, ring) ==
  /\ \A v \in Range(ring) : InView(v)
  /\ \A p \in Probes(points) : Inside(points, p) <=> Inside(ring, p)

\* What lies within the view is not clipped, and of what lies apart from it
\* nothing is left.
BoundsDecide(points) ==
  /\ ContainsBounds(View, BoundsOf(points)) => ClipPoints(points) = <<points>>
  /\ ~Intersects(View, BoundsOf(points)) =>
       ClipPoints(points) = <<>> /\ ClipRings(<<points>>) = <<>>

\* Shapes are clipped to exactly what is in view of them (L.LineUtil.clipSegment,
\* Polyline._clipPoints, L.PolyUtil.clipPolygon and Polygon._clipPoints).
ClippedExactly ==
  geo.kind = "clip" /\ Len(geo.points) > 1 =>
    /\ BoundsDecide(geo.points)
    /\ ClippedLine(geo.points, ClipPoints(geo.points))
    /\ LET rings == ClipRings(<<geo.points>>) IN
         ClippedPolygon(geo.points, IF rings = <<>> THEN <<>> ELSE rings[1])

\* A simplified line has the ends of the line, and every point left of the
\* vertex reduction is within the tolerance of it.
Within(points, simple) ==
  /\ simple[1] = points[1] /\ Last(simple) = Last(points)
  /\ \A p \in Range(ReducePoints(points)) :
       \E k \in 1..Len(simple) - 1 :
         ~Further(SqDistToSegment(p, simple[k], simple[k + 1]), SqTolerance)

\* So is a line that is simplified as a whole, and each part of a line and each
\* ring of a polygon in view (L.LineUtil.simplify, Polyline._updatePath).
UpdatedWithin(parts) ==
  LET drawn == UpdatePath(parts) IN
  \A i \in DOMAIN parts : Len(parts[i]) > 1 => Within(parts[i], drawn[i])

SimplifiedWithin ==
  /\ geo.kind = "simplify" /\ Len(geo.points) > 1 => Within(geo.points, Simplify(geo.points))
  /\ geo.kind = "clip" /\ Len(geo.points) > 1 =>
       UpdatedWithin(ClipPoints(geo.points)) /\ UpdatedWithin(ClipRings(<<geo.points>>))

\* What is drawn is the part of the shape that lies in view, simplified within
\* the tolerance, from its second point on.
DrawnAsGiven == ClippedExactly /\ SimplifiedWithin
===============================================================================

-------------------------------- MODULE RtRef --------------------------------
(***************************************************************************)
(* The golden model of the ray-tracing hardware (tb/uvm/rt_ref.py): the    *)
(* BVH builder and the stack traversal.                                    *)
(*                                                                         *)
(* A node of the tree is a leaf with a triangle <<id, v0, v1, v2>>, or has *)
(* a box and two subtrees (the program's addresses).                       *)
(***************************************************************************)
EXTENDS RtFixed, Sequences, FiniteSets, SequencesExt

CONSTANT STACK_DEPTH    \* entries of the traversal stack (32 in the program)

ASSUME StackAssumption == STACK_DEPTH \in Nat

Vertices(tri) == {tri[2], tri[3], tri[4]}
BoxMin(tris) == [i \in Axes |-> LeastOf({v[i] : v \in UNION {Vertices(t) : t \in ToSet(tris)}})]
BoxMax(tris) == [i \in Axes |-> GreatestOf({v[i] : v \in UNION {Vertices(t) : t \in ToSet(tris)}})]

Centroid(tri, axis) == tri[2][axis] + tri[3][axis] + tri[4][axis]

\* Split at the centroid median of the first widest axis; the sort is stable.
RECURSIVE build_bvh(_)
build_bvh(tris) ==
    LET bmin == BoxMin(tris)
        bmax == BoxMax(tris)
        Extent(i) == bmax[i] - bmin[i]
        axis == LeastOf({i \in Axes : \A j \in Axes : Extent(i) >= Extent(j)})
        Before(i, j) ==
            \/ Centroid(tris[i], axis) < Centroid(tris[j], axis)
            \/ Centroid(tris[i], axis) = Centroid(tris[j], axis) /\ i < j
        order == SetToSortSeq(DOMAIN tris, Before)
        sorted == [n \in DOMAIN tris |-> tris[order[n]]]
        mid == Len(tris) \div 2
    IN  IF Len(tris) = 1 THEN [leaf |-> TRUE, tri |-> tris[1]]
        ELSE [leaf |-> FALSE, bmin |-> bmin, bmax |-> bmax,
              left |-> build_bvh(SubSeq(sorted, 1, mid)),
              right |-> build_bvh(SubSeq(sorted, mid + 1, Len(sorted)))]

\* Mutant: full one entry early.
PushIfRoom(node, stack) == IF Len(stack) < STACK_DEPTH - 1 THEN <<node>> \o stack ELSE stack

Push(node, stack) == IF Len(stack) < STACK_DEPTH THEN <<node>> \o stack ELSE stack

\* The nearest hit so far, after a leaf.
NearerOf(best, at, tri) ==
    IF at.hit /\ at.t < best.t
    THEN [hit |-> TRUE, id |-> tri[1], t |-> at.t, u |-> at.u, v |-> at.v]
    ELSE best

\* Depth-first traversal, nearer child first.  A full stack drops the farther child.
RECURSIVE Visit(_, _, _, _, _, _)
Visit(node, stack, best, o, d, inv) ==
    LET Pop(b) == IF stack = <<>> THEN b ELSE Visit(Head(stack), Tail(stack), b, o, d, inv)
        near == IF d[1] >= 0 THEN node.left ELSE node.right
        far == IF d[1] >= 0 THEN node.right ELSE node.left
    IN  IF node.leaf
        THEN Pop(NearerOf(best, tri_isect(o, d, node.tri[2], node.tri[3], node.tri[4]), node.tri))
        ELSE IF box_isect(o, inv, best.t, node.bmin, node.bmax)
        THEN Visit(near, Push(far, stack), best, o, d, inv)
        ELSE Pop(best)

traverse(root, o, d, inv) ==
    Visit(root, <<>>, [hit |-> FALSE, id |-> 0, t |-> FX_MAX, u |-> 0, v |-> 0], o, d, inv)
=============================================================================

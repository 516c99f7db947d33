----------------------------- MODULE Clustering -----------------------------
(***************************************************************************)
(* spatial.cluster_detections: detections grouped by their distance, in    *)
(* the order of the rows.  A detection is known by its index, a cluster is *)
(* the set of the indices of its members.                                  *)
(***************************************************************************)
EXTENDS Plane, SequencesExt

CONSTANT Radius  \* radius_m of the request

ASSUME RadiusAssumption == Radius \in Nat

Near(points, i, j) == Distance2(points[i], points[j]) <= Square(Radius)

Used(clusters) == UNION ToSet(clusters)

\* Mutant of Group: a member of an earlier cluster is taken once more.
GroupAll(points, clusters, seed) ==
  {seed} \union {j \in seed + 1..Len(points) : Near(points, seed, j)}

\* The seed and the unused detections after it that are near it.
Group(points, clusters, seed) ==
  {seed} \union {j \in seed + 1..Len(points) : j \notin Used(clusters) /\ Near(points, seed, j)}

Visit(points, clusters, i) ==
  IF i \in Used(clusters) THEN clusters
  ELSE Append(clusters, Group(points, clusters, i))

\* The clusters there are when the first n rows have been visited.
Clusters(points) ==
  LET clusters[n \in 0..Len(points)] ==
        IF n = 0 THEN <<>> ELSE Visit(points, clusters[n - 1], n)
  IN  clusters
ClusterDetections(points) == Clusters(points)[Len(points)]
-----------------------------------------------------------------------------
Seed(cluster) == CHOOSE s \in cluster : \A j \in cluster : s <= j

\* "Every detection belongs to exactly one cluster" (spatial.py:234), no cluster is
\* made of parts that nothing within the radius connects, so that a detection without
\* neighbour is alone, and no two clusters start within the radius of each other.  It
\* is not the "single-linkage" of spatial.py:232: near detections may be apart.
Sound(points) ==
  LET clusters == ClusterDetections(points)
      FirstOf(i) == Seed(clusters[i])
  IN  /\ \A p \in DOMAIN points : \E i \in DOMAIN clusters : p \in clusters[i]
      /\ \A i, k \in DOMAIN clusters : i < k =>
           /\ clusters[i] \intersect clusters[k] = {}
           /\ ~Near(points, FirstOf(i), FirstOf(k))
      /\ \A i \in DOMAIN clusters : \A part \in (SUBSET clusters[i]) \ {{}, clusters[i]} :
           \E p \in part, q \in clusters[i] \ part : Near(points, p, q)
==============================================================================

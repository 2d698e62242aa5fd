----------------------------- MODULE MCGraphEdit -----------------------------
(***************************************************************************)
(* Small instances of the map editor for TLC.                              *)
(***************************************************************************)
EXTENDS GraphEditProperties

\* A street of two vertices and, in front of them, a vertex without lanes: the
\* smallest map where a deletion moves a lane and a road is left to draw.
Street == [places |-> <<1, 2, 3>>, lanes |-> {<<1, 2>>, <<2, 1>>}]

=============================================================================

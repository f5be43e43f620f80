------------------------------- MODULE MCAoi --------------------------------
EXTENDS Aoi

\* A box of odd width, and positions on a corner, on the first centre lines, in
\* the far quadrant and off the map.
OddBox == [left |-> 0, bottom |-> 0, right |-> 5, top |-> 5]
FewPoints == {[x |-> 2, y |-> 2], [x |-> 3, y |-> 2], [x |-> 5, y |-> 4], [x |-> 6, y |-> 1]}
=============================================================================

---------------------------- MODULE GhostIndices ----------------------------
(***************************************************************************)
(* Which cells the ghost kernels read and write, index by index, for the   *)
(* cell-centred and the three face-staggered arrays of one quadrant: the   *)
(* quadrant's own array (its view, nx cells a side and ngz ghosts) and its *)
(* coarse buffer (nx/2 cells and as many ghosts).                          *)
(*                                                                         *)
(* A kernel's index sets are products over the axes.  A filled region is a *)
(* box: of each axis, pairs <<index written, where the data come from>>,   *)
(* the second an index of the same lattice, continued past its ghosts.     *)
(***************************************************************************)
EXTENDS GhostMesh

CONSTANTS nx, ngz
ASSUME CellsAssumption == /\ ngz \in Nat /\ ngz > 0 /\ ngz % 2 = 0
                          /\ nx \in Nat /\ nx % 2 = 0 /\ nx >= 2 * ngz

Half   == nx \div 2
Center == 0                       \* STAG_CENTER; FACEX, FACEY, FACEZ are their axes
Staggerings == {Center} \cup Axis
Shift(stag, i) == IF stag = i THEN 1 ELSE 0          \* transf.sx, sy, sz
LoopOff(stag)  == IF stag = Center THEN 0 ELSE 1     \* the same on every axis
GzOff(stag, k) == IF k = FACE THEN 0 ELSE LoopOff(stag)
None == -99   \* no data: never packed, or not in the source's interior
-----------------------------------------------------------------------------
(* index_transformer_t: along one axis, of an element of kind k that has   *)
(* component c on it, in an array of n cells shifted by s there.           *)
Ghost(k, c, n, s, x) == CASE c = 1  -> n + ngz + x + (IF k = FACE THEN s ELSE 0)
                          [] c = -1 -> x
                          [] OTHER  -> ngz + x
Phys(k, c, n, s, x) == CASE c = 1  -> n + x
                         [] c = -1 -> ngz + x + (IF k = FACE THEN s ELSE 0)
                         [] OTHER  -> ngz + x
Interior(n, s) == ngz .. n + s + ngz - 1

(* The loops and the range checks: those of a face leave its normal alone. *)
Iter(k, c, n, stag) == IF c = 0 THEN 0 .. n + LoopOff(stag) - 1 ELSE 0 .. ngz + GzOff(stag, k) - 1
GhostRange(k, c, n, s) == CASE c = 0 -> Interior(n, s)
                            [] c = 1 /\ k # FACE  -> 0 .. n + s + 2 * ngz - 1
                            [] c = -1 /\ k # FACE -> 0 .. ngz + s - 1
                            [] OTHER -> 0 .. n + s + 2 * ngz - 1
PhysRange(k, c, n, s) == CASE c = 0 -> Interior(n, s)
                           [] c = 1 /\ k # FACE  -> 0 .. n + s + ngz - 1
                           [] c = -1 /\ k # FACE -> 0 .. 2 * ngz + s - 1
                           [] OTHER -> 0 .. n + s + 2 * ngz - 1

(* What slot x of element c's message, or of a local copy, holds: an index *)
(* of the sender's interior.                                               *)
SlotIndex(k, c, n, stag, i, remote, x) ==
  LET s == Shift(stag, i)
      p == Phys(k, c, n, s, x)
  IN  IF p \in Interior(n, s) /\ (remote => x \in Iter(k, c, n, stag) /\ p \in PhysRange(k, c, n, s))
      THEN p ELSE None

(* copy_op, and pack_op with unpack_op: between arrays of one spacing.     *)
Same(k, c, n, stag, i, remote) ==
  {<<Ghost(k, c, n, Shift(stag, i), x), SlotIndex(k, -c, n, stag, i, remote, x)>> :
     x \in {y \in Iter(k, c, n, stag) : Ghost(k, c, n, Shift(stag, i), y) \in GhostRange(k, c, n, Shift(stag, i))}}

(* copy_from_cbuf_op, and pack_to_cbuf_op with unpack_from_cbuf_op: from   *)
(* the coarse buffer of the fine neighbour in the half b of the axis.      *)
FinerRange(k, c, stag, i, b, remote) ==
  LET s == Shift(stag, i) IN
  IF c # 0 THEN GhostRange(k, c, nx, s)
  ELSE IF b = 1 THEN ngz + Half + (IF remote THEN 0 ELSE s) .. ngz + nx + s - 1
  ELSE ngz .. ngz + Half + s - 1
FinerDest(k, c, stag, i, b, x) == Ghost(k, c, nx, Shift(stag, i), IF c = 0 THEN x + b * Half ELSE x)
FinerPairs(k, c, stag, i, b, remote) ==
  {<<FinerDest(k, c, stag, i, b, x), SlotIndex(k, -c, Half, stag, i, remote, x)>> :
     x \in {y \in Iter(k, c, Half, stag) : FinerDest(k, c, stag, i, b, y) \in FinerRange(k, c, stag, i, b, remote)}}

(* copy_to_cbuf_op, and pack_op with unpack_to_cbuf_op: from the coarse    *)
(* neighbour, whose half b the quadrant is against.  Along the element the *)
(* loop goes on for ngz cells, into the virtual elements beside it.        *)
CoarserRange(k, c, stag, i, b) ==
  LET s == Shift(stag, i) IN
  IF c # 0 THEN GhostRange(k, c, Half, s)
  ELSE IF b = 1 THEN 0 .. Half + ngz + s - 1
  ELSE ngz .. Half + 2 * ngz + s - 1
CoarserIter(k, c, stag) == IF c = 0 THEN 0 .. Half + LoopOff(stag) + ngz + GzOff(stag, k) - 1
                           ELSE Iter(k, c, Half, stag)
CoarserDest(k, c, stag, i, b, x) == Ghost(k, c, Half, Shift(stag, i), IF c = 0 THEN x - b * ngz ELSE x)
CoarserSlot(c, b, x) == IF c = 0 THEN x + b * (Half - ngz) ELSE x
CoarserPairs(k, c, stag, i, b, remote) ==
  {<<CoarserDest(k, c, stag, i, b, x), SlotIndex(k, -c, nx, stag, i, remote, CoarserSlot(c, b, x))>> :
     x \in {y \in CoarserIter(k, c, stag) : CoarserDest(k, c, stag, i, b, y) \in CoarserRange(k, c, stag, i, b)}}
-----------------------------------------------------------------------------
(* Boundary kernels: the whole element beyond the interior.  In a coarse   *)
(* buffer an edge on a domain face also takes the corners at its ends.     *)
Plain(I) == {<<j, j>> : j \in I}
Beyond(c, n, s) == CASE c = 1  -> n + s + ngz .. n + s + 2 * ngz - 1
                     [] c = -1 -> 0 .. ngz - 1
                     [] OTHER  -> Interior(n, s)
(* Mutant: only the edge itself, in a coarse buffer too. *)
WallRangeEdge(g, q, d, i, n, stag) == Beyond(d[i], n, Shift(stag, i))
WallRange(g, q, d, i, n, stag) ==
  IF n = Half /\ Kind(d) = EDGE /\ BcType(g, q, d) = FACE /\ d[i] = 0
  THEN 0 .. n + Shift(stag, i) + 2 * ngz - 1
  ELSE Beyond(d[i], n, Shift(stag, i))
-----------------------------------------------------------------------------
(* prolong_op, and the first and last index of div_free_prolong_op.        *)
Steps(c)        == 0 .. (IF c = 0 THEN Half ELSE ngz \div 2) - 1
Fine(k, c, x)   == Ghost(k, c, nx, 0, 2 * x)
Coarse(k, c, x) == Ghost(k, c, Half, 0, x) + (IF c = -1 THEN ngz \div 2 ELSE 0)
First(c) == CASE c = 1 -> nx + ngz [] c = -1 -> 0 [] OTHER -> ngz
Last(c)  == CASE c = 1 -> nx + 2 * ngz - 2 [] c = -1 -> ngz - 2 [] OTHER -> nx + ngz - 2
=============================================================================

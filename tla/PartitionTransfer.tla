-------------------------- MODULE PartitionTransfer --------------------------
(***************************************************************************)
(* Who sends which quadrants to whom when the forest is partitioned anew   *)
(* (grace_transfer_fixed_begin). The leaves of the forest are numbered     *)
(* along the space-filling curve; a rank owns a contiguous range, in the   *)
(* old partition src[r] .. src[r+1]-1 and in the new one                   *)
(* dst[r] .. dst[r+1]-1. Sender and receiver of a message each work out    *)
(* its range by themselves, from the same two arrays of offsets.           *)
(***************************************************************************)
EXTENDS Integers

CONSTANT NRanks
ASSUME NRanksAssumption == NRanks \in Nat \ {0}

Ranks == 0 .. (NRanks - 1)

(* p4est's global_first_quadrant: what the library promises of it. That
   every leaf has a rank that holds it is what p4est_bsearch_partition
   searches for. *)
IsPartition(off) ==
  /\ off \in [0 .. NRanks -> Nat]
  /\ off[0] = 0
  /\ \A q, r \in 0 .. NRanks : q <= r => off[q] <= off[r]
  /\ \A g \in 0 .. (off[NRanks] - 1) : \E q \in Ranks : off[q] <= g /\ g < off[q + 1]
Holder(off, g) == CHOOSE q \in Ranks : off[q] <= g /\ g < off[q + 1]

MinOf(x, y) == IF x <= y THEN x ELSE y

(* first_sender .. last_sender with mine = dst and other = src,
   first_receiver .. last_receiver with mine = src and other = dst. *)
Partners(mine, other, r) ==
  IF mine[r] < mine[r + 1]
  THEN Holder(other, mine[r]) .. Holder(other, mine[r + 1] - 1) ELSE {}
(* gbegin and gend in the turn of the loop for partner q: the first partner's
   range starts where mine starts, each later one's where the last ended. *)
GBegin(mine, other, r, q) ==
  IF q = Holder(other, mine[r]) THEN mine[r] ELSE other[q]
GEnd(mine, other, r, q) == MinOf(other[q + 1], mine[r + 1])
(* The quadrants exchanged with q, by global number, and where they lie in
   this rank's array (rb counts the quadrants of the earlier partners). *)
Exchanged(mine, other, r, q) ==
  IF q \in Partners(mine, other, r)
  THEN GBegin(mine, other, r, q) .. (GEnd(mine, other, r, q) - 1) ELSE {}
Slot(mine, r, g) == g - mine[r]

(* A receiver expects from each sender what that sender sends it, so that no
   message is left without its partner or has another length. *)
TransfersMatch(src, dst) ==
  \A s, d \in Ranks : Exchanged(dst, src, d, s) = Exchanged(src, dst, s, d)
(* Every quadrant reaches its new rank, and comes from the one that had it. *)
TransfersComplete(src, dst) ==
  \A d \in Ranks : \A g \in dst[d] .. (dst[d + 1] - 1) :
     /\ g \in Exchanged(dst, src, d, Holder(src, g))
     /\ \A s \in Ranks : g \in Exchanged(dst, src, d, s) => s = Holder(src, g)
=============================================================================

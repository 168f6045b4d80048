----------------------------- MODULE MCParticles -----------------------------
(* Small values for Particles: four places; a coarse and a finer mesh, dealt
   to two or three ranks, one of which may have no quadrant. *)
EXTENDS Particles

Coarse == <<<<0, 2>>, <<2, 4>>>>
Fine   == <<<<0, 1>>, <<1, 2>>, <<2, 4>>>>
Deal2(m, n) == [r \in 0 .. 1 |-> IF r = 0 THEN SubSeq(m, 1, n) ELSE SubSeq(m, n + 1, Len(m))]
Deal3(m, n, k) == [r \in 0 .. 2 |-> IF r = 0 THEN SubSeq(m, 1, n)
                                   ELSE IF r = 1 THEN SubSeq(m, n + 1, k) ELSE SubSeq(m, k + 1, Len(m))]
MCForests == {Deal2(Coarse, 1), Deal2(Fine, 1), Deal2(Fine, 2), Deal3(Fine, 1, 2), Deal3(Coarse, 1, 1)}

MCFlows == {[x \in 0 .. 3 |-> d] : d \in {-1, 1}} \cup {[x \in 0 .. 3 |-> IF x < 2 THEN 1 ELSE -1]}
=============================================================================

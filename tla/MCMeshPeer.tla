----------------------------- MODULE MCMeshPeer -----------------------------
(***************************************************************************)
(* Instances of MeshPeer for TLC.  c1 and c2 are routable; bad and worse   *)
(* overlap the local range here, junk does not parse, wide has no virtual  *)
(* range (it is larger than the pool), worse shares the one of here.       *)
(***************************************************************************)
EXTENDS MeshPeer, TLC

CONSTANTS n1, n2, p1, p2, k1, k2, k3, kx, c1, c2, v1, v2, bad, worse, wide, junk, here

S(k, C) == [key |-> k, cidrs |-> C]

\* One object; its CIDRs change, its key does not.
MCEdit == [p \in {p1} |-> {S(k1, {c1}), S(k1, {c2, bad})}]
\* One object whose key is rotated, with a malformed CIDR added.
MCRotate == [p \in {p1} |-> {S(k1, {c1}), S(k2, {c1, junk})}]
\* The same beside an object to which the CIDR moves.
MCMove == MCRotate @@ (p2 :> {S(k3, {c1}), S(k3, {c2})})
\* One object with ranges to remap, some of which cannot be.
MCRemap ==
    [p \in {p1} |-> {S(k1, {c1, bad}), S(k2, {bad, junk}), S(k1, {worse}), S(k1, {wide})}]

MCOverlap == [c \in Withheld |-> IF c \in {bad, worse} THEN Local ELSE {}]
MCVirtual ==
    [r \in Withheld \cup Local |->
        IF r = bad THEN v1 ELSE IF r \in {worse, here} THEN v2 ELSE NoCidr]
MCSameHandshake == [n \in Node |-> 1]
=============================================================================

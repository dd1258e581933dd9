-------------------------- MODULE MCCertifiedCommit --------------------------
(***************************************************************************)
(* Instance: accounts a and b.  bx (height 1, this node's own) spends b's  *)
(* nonce 0.  bd and br (height 2, gossiped) are rivals for a's nonce 0; bd *)
(* also has a transfer of b to itself at nonce 1, so it waits for bx.  The *)
(* certificate of bx finds it by (height, group, root), br's by hash, bd's *)
(* by (height, group) only, where it finds br when that was registered     *)
(* last.                                                                   *)
(***************************************************************************)
EXTENDS CertifiedCommit

CONSTANTS a, b, bx, bd, br, g

Heights == [k \in {bx, br, bd} |-> IF k = bx THEN 1 ELSE 2]
Order == [k \in {bx, br, bd} |-> CASE k = bx -> 1 [] k = br -> 2 [] k = bd -> 3]
Roots == [k \in {bx, br, bd} |-> k]

Pay(p, q, n) == [from |-> p, to |-> q, nonce |-> n]

Transfers ==
    [k \in {bx, br, bd} |->
        CASE k = bx -> <<Pay(b, a, 0)>>
          [] k = br -> <<Pay(a, b, 0)>>
          [] k = bd -> <<Pay(a, b, 0), Pay(b, b, 1)>>]

Cert(h, height, group, root) == [hash |-> h, height |-> height, group |-> group, root |-> root]

Certified ==
    {Cert(NoBlock, 1, NoGroup, bx), Cert(br, 2, g, br), Cert(NoBlock, 2, g, NoBlock)}

Final == {[block |-> bx, group |-> NoGroup], [block |-> br, group |-> g]}

\* Bound: certificates, heights taken by block_final, faults and the clock share
\* a budget of three, with at most one height and one fault or tick.
Budget ==
    /\ certs + Cardinality(heights) + faults + now <= 3
    /\ Cardinality(heights) <= 1
    /\ faults + now <= 1
=============================================================================

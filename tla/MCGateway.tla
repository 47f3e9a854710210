----------------------------- MODULE MCGateway -----------------------------
EXTENDS Gateway, TLC

CONSTANTS r1, r2, r3, f1, f2

MCFields == {f1, f2}
MCHash == {AuditorHash(f) : f \in MCFields}
TwoRequests == {r1, r2}
ThreeRequests == {r1, r2, r3}
MCSymmetry == Permutations(ThreeRequests)

\* What auditors post: every event under the hash of its own fields.
Honest == {[fields |-> f, hash |-> AuditorHash(f)] : f \in MCFields}

\* An event without a hash as well.
HonestOrNot == Honest \cup {[fields |-> f1, hash |-> NoHash]}
=============================================================================

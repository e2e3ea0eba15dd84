--------------------------- MODULE MCSbomArtifacts ---------------------------
EXTENDS SbomArtifacts

CONSTANTS g1, g2, d1, img

OneImage == [g \in {g1, g2} |-> img]
=============================================================================

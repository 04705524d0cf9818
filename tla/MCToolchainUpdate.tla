------------------------- MODULE MCToolchainUpdate -------------------------
(* A stable toolchain, its successor and the beta between the two.          *)
EXTENDS ToolchainUpdate

S1 == V(0, 8, 0, Release, 0)
B2 == V(0, 8, 1, Beta, 1)
S2 == V(0, 8, 1, Release, 0)
S3 == V(0, 8, 2, Release, 0)
MCReleases == {S1, B2, S2, S3}
=============================================================================

----------------------------- MODULE MC_MicroTcp -----------------------------
EXTENDS MicroTcp

\* Initial numbers one and two below the wrap: the client's SYN and the
\* server's bytes cross it.
MC_ISS == {SeqMod - 1}
MC_IRS == {SeqMod - 2}

=============================================================================

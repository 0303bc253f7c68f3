----------------------------- MODULE MCDesktop -----------------------------
EXTENDS Desktop

=============================================================================

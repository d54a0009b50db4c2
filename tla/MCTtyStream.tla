----------------------------- MODULE MCTtyStream -----------------------------
EXTENDS TtyStream

=============================================================================

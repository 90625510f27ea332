---------------------------- MODULE MCLspDocSync ----------------------------
EXTENDS LspDocSync

\* Two documents.

CONSTANTS a, b
=============================================================================

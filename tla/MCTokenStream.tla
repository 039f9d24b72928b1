---------------------------- MODULE MCTokenStream ----------------------------
EXTENDS TokenStream
=============================================================================

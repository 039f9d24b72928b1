----------------------------- MODULE MCMemoryPool -----------------------------
EXTENDS MemoryPool
================================================================================

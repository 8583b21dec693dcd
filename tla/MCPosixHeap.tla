---------------------------- MODULE MCPosixHeap ----------------------------
EXTENDS PosixHeap

\* Nothing, less and more than a smallest block, a size that rounds up, a size that
\* leaves too little to split, one that outgrows two smallest blocks and the header
\* between them.  None whose rounding wraps around size_t.
SmallRequests == {0, 1, 5, 7, 14}
===============================================================================

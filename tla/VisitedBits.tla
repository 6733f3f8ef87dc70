----------------------------- MODULE VisitedBits -----------------------------
(***************************************************************************)
(* node_visited_bits of DriverPrepareNodes (Driver.cpp 665-685): one bit   *)
(* per DAG node in an array of 32-bit words.  NodeSelector treats it as a *)
(* set of indices; this module keeps the words and the index arithmetic,  *)
(* so that the two can be compared at the word boundaries.                 *)
(*                                                                         *)
(* A word is the set of its bit positions that are 1, and 1 << b is bit   *)
(* b.  dag_bit is an int: 1 << 31 overflows it, which the compilers tundra *)
(* is built with turn into INT_MIN, bit pattern 0x80000000 once converted  *)
(* to the uint32_t of the word: bit 31, the only outcome.                  *)
(***************************************************************************)
EXTENDS Naturals, Bitwise

CONSTANT BitsetNodeCount  \* dag->m_NodeCount

(* Mutation of NodeWordCount: the count is rounded down.                   *)
MutNodeWordCountRoundDown(n) == n \div 32

(* node_word_count = (dag->m_NodeCount + 31) / 32                          *)
NodeWordCount(n) == (n + 31) \div 32

(* HeapAllocateArrayZeroed<uint32_t>(heap, node_word_count)                *)
ZeroBits(n) == [w \in 0 .. NodeWordCount(n) - 1 |-> {}]

(* dag_word = dag_index / 32; dag_bit = 1 << (dag_index & 31)              *)
DagWord(i) == i \div 32
DagBit(i) == {i & 31}

(* 0 == (node_visited_bits[dag_word] & dag_bit) is false                   *)
IsVisited(bits, i) == (bits[DagWord(i)] \cap DagBit(i)) # {}

(* node_visited_bits[dag_word] |= dag_bit                                  *)
Mark(bits, i) == [bits EXCEPT ![DagWord(i)] = @ \cup DagBit(i)]

-----------------------------------------------------------------------------
(* The indices where the arithmetic changes: both ends of every word.      *)
EdgeIndices ==
  {i \in 0 .. BitsetNodeCount - 1 : i % 32 \in {0, 1, 30, 31}}
    \cup {BitsetNodeCount - 1}

(* Marking any two nodes of a DAG in the zeroed bitset and testing any     *)
(* node finds exactly those two visited, for nodes at both ends of every   *)
(* word, the sign bit included, and no word lies outside the allocation.  *)
BitsetRepresentsSet ==
  \A i, j, q \in EdgeIndices :
    LET bits == Mark(Mark(ZeroBits(BitsetNodeCount), i), j)
    IN  /\ {DagWord(i), DagWord(j), DagWord(q)} \subseteq DOMAIN bits
        /\ IsVisited(bits, q) <=> q \in {i, j}

=============================================================================

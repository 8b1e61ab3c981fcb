---------------------------------- MODULE Heap ----------------------------------
(***************************************************************************)
(* What driver memory promises its users: blocks do not overlap, and a     *)
(* request fails only if no gap between the blocks is large enough or      *)
(* blocks and gaps together are as many as there are descriptors.          *)
(***************************************************************************)
EXTENDS Integers, FiniteSets

CONSTANTS Size, Limit, Lengths   (* of the blocks asked for *)

VARIABLES blocks, result        (* allocated [start, length]; the last call and its result *)

vars == <<blocks, result>>

Failed == -1

Init == blocks = {} /\ result = [call |-> "none", value |-> 0]

Meets(b, s, e) == b.start < e /\ s < b.start + b.length
Free(s, e) == e <= Size /\ \A b \in blocks : ~Meets(b, s, e)

(* The gaps between blocks, as <<first, end>>. *)
Gaps ==
    {g \in ({0} \cup {b.start + b.length : b \in blocks})
             \X ({Size} \cup {b.start : b \in blocks}) : g[1] < g[2] /\ Free(g[1], g[2])}

Alloc(n) ==
    \/ \E s \in 0 .. Size - 1 :
          /\ Free(s, s + n)
          /\ blocks' = blocks \cup {[start |-> s, length |-> n]}
          /\ result' = [call |-> "alloc", value |-> s]
    \/ /\ \/ \A g \in Gaps : g[2] - g[1] < n
          \/ Cardinality(Gaps) + Cardinality(blocks) = Limit
       /\ result' = [call |-> "alloc", value |-> Failed]
       /\ UNCHANGED blocks

(* An answer to "how much?" is at most what can be had in one piece. *)
Query ==
    /\ result'.call = "query"
    /\ result'.value = 0 \/ \E g \in Gaps : result'.value \in 1 .. g[2] - g[1]
    /\ UNCHANGED blocks

Release(s) ==
    \/ /\ \E b \in blocks : b.start = s /\ blocks' = blocks \ {b}
       /\ result' = [call |-> "free", value |-> 0]
    \/ /\ \A b \in blocks : b.start # s
       /\ result' = [call |-> "free", value |-> Failed]
       /\ UNCHANGED blocks

Next ==
    \/ \E n \in Lengths : Alloc(n)
    \/ Query
    \/ \E s \in 0 .. Size - 1 : Release(s)

Spec == Init /\ [][Next]_vars
=============================================================================

------------------------------ MODULE OnCycle ------------------------------
(***************************************************************************)
(* Graph._on_cycle of graph/model.py: the datasets that can reach          *)
(* themselves, found by Tarjan's algorithm with an explicit stack.  The    *)
(* planner gives only these a budget of enlargements (module Planner takes *)
(* the set as CyclicIn).                                                   *)
(***************************************************************************)
EXTENDS Integers, Sequences, FiniteSets

CONSTANTS Datasets,
          SpecOrder,   \* the datasets in the order of the _specs dict
          Graphs       \* out[ds]: the sequence of the targets of the edges leaving ds

VARIABLES out,
          index, low,        \* partial functions on the datasets visited
          stack, found,
          work,              \* explicit recursion stack of [node, child]
          roots              \* roots the outer loop has still to try

vars == <<out, index, low, stack, found, work, roots>>

Lesser(a, b) == IF a <= b THEN a ELSE b
Top          == work[Len(work)]
Visited      == DOMAIN index
OnStack(d)   == \E i \in DOMAIN stack : stack[i] = d

\* The caller's frame: all of work but its top.
Callers == SubSeq(work, 1, Len(work) - 1)

\* Advance the top frame by one child.
Advanced == [work EXCEPT ![Len(work)].child = @ + 1]

Init ==
  /\ out \in Graphs
  /\ index = << >> /\ low = << >>
  /\ stack = << >> /\ found = {} /\ work = << >>
  /\ roots = SpecOrder

TakeRoot ==
  /\ work = << >> /\ roots # << >>
  /\ roots' = Tail(roots)
  /\ work' = IF Head(roots) \in Visited THEN work
             ELSE <<[node |-> Head(roots), child |-> 0]>>
  /\ UNCHANGED <<out, index, low, stack, found>>

\* First turn for a node: it gets the next number and goes on the stack.
Enter ==
  /\ work # << >> /\ Top.node \notin Visited
  /\ LET counter == Cardinality(Visited)
         n       == Top.node
     IN  /\ index' = [d \in Visited \cup {n} |-> IF d = n THEN counter ELSE index[d]]
         /\ low'   = [d \in Visited \cup {n} |-> IF d = n THEN counter ELSE low[d]]
         /\ stack' = Append(stack, n)
  /\ UNCHANGED <<out, found, work, roots>>

\* One edge of the node n on top, leading to kid.

SelfLoop(n, kid) ==
  /\ kid = n
  /\ found' = found \cup {n} /\ work' = Advanced
  /\ UNCHANGED low

NewKid(n, kid) ==
  /\ kid # n /\ kid \notin Visited
  /\ work' = Append(Advanced, [node |-> kid, child |-> 0])
  /\ UNCHANGED <<low, found>>

SeenKidAnywhere(n, kid) ==     \* mutant: on the stack or not
  /\ kid # n /\ kid \in Visited
  /\ low' = [low EXCEPT ![n] = Lesser(@, index[kid])] /\ work' = Advanced
  /\ UNCHANGED found

SeenKid(n, kid) ==
  /\ kid # n /\ kid \in Visited
  /\ low' = IF OnStack(kid) THEN [low EXCEPT ![n] = Lesser(@, index[kid])] ELSE low
  /\ work' = Advanced
  /\ UNCHANGED found

Kid ==
  /\ work # << >> /\ Top.node \in Visited /\ Top.child < Len(out[Top.node])
  /\ LET n == Top.node  kid == out[n][Top.child + 1]
     IN  SelfLoop(n, kid) \/ NewKid(n, kid) \/ SeenKid(n, kid)
  /\ UNCHANGED <<out, index, stack, roots>>

\* All edges seen: hand low to the caller and, at the root of a component, pop it.
Component(n) ==
  LET at == CHOOSE i \in DOMAIN stack : stack[i] = n
  IN  {stack[i] : i \in at .. Len(stack)}

Below(n) == SubSeq(stack, 1, (CHOOSE i \in DOMAIN stack : stack[i] = n) - 1)

Leave ==
  /\ work # << >> /\ Top.node \in Visited /\ Top.child >= Len(out[Top.node])
  /\ LET n == Top.node IN
       /\ work' = Callers
       /\ low' = IF Callers = << >> THEN low
                 ELSE [low EXCEPT ![Callers[Len(Callers)].node] = Lesser(@, low[n])]
       /\ IF low[n] = index[n]
          THEN /\ stack' = Below(n)
               /\ found' = IF Cardinality(Component(n)) > 1
                           THEN found \cup Component(n) ELSE found
          ELSE UNCHANGED <<stack, found>>
  /\ UNCHANGED <<out, index, roots>>

Next == TakeRoot \/ Enter \/ Kid \/ Leave

\* A loop on one thread that nothing blocks.
Spec == Init /\ [][Next]_vars /\ WF_vars(Next)

-----------------------------------------------------------------------------
\* Reference definition: what can be reached from d along one edge or more.
Reach(d) ==
  LET step(S)     == UNION {{out[x][i] : i \in DOMAIN out[x]} : x \in S}
      upto[n \in 1 .. Cardinality(Datasets)] ==
        IF n = 1 THEN step({d}) ELSE upto[n - 1] \cup step(upto[n - 1])
  IN  upto[Cardinality(Datasets)]

Done == work = << >> /\ roots = << >>

\* A frame's child index points into its edges, low links stay at or below the
\* index they belong to, and no dataset is on the stack twice.
TypeOK ==
  /\ \A i \in DOMAIN work :
       work[i].node \in Datasets /\ work[i].child \in 0 .. Len(out[work[i].node])
  /\ Visited \subseteq Datasets /\ DOMAIN low = Visited
  /\ \A d \in Visited : index[d] \in 0 .. Cardinality(Visited) - 1 /\ low[d] \in 0 .. index[d]
  /\ \A i, j \in DOMAIN stack : stack[i] = stack[j] => i = j

\* _on_cycle returns the datasets that can reach themselves, no more and no
\* fewer: a missing one would be given the acyclic budget and loop 10,000 times,
\* an extra one would be widened to a full rebuild.
FindsTheCyclic == Done => found = {d \in Datasets : d \in Reach(d)}

\* A node is taken off the stack with all of its component, never before it.
ComponentsPopWhole ==
  \A d \in Visited : \A e \in Reach(d) :
    d \in Reach(e) /\ e \in Visited => (OnStack(d) <=> OnStack(e))

\* Every frame is advanced and popped: the search ends on every graph.
Terminates == <>Done
=============================================================================

------------------------------ MODULE VectorOLE ------------------------------
(***************************************************************************)
(* What a pair of DistributedVectorOLE objects promises its two            *)
(* applications, without caches, seeds or messages: a source of correlated *)
(* randomness (distributed_vector_ole.h:84-92).  The two ends make the     *)
(* same calls.  The end that is first to finish a call obtains elements    *)
(* that nobody has seen; the other end then obtains the same ones, and the *)
(* Receiver the delta they are correlated under.                           *)
(***************************************************************************)
EXTENDS Integers, SequencesExt

CONSTANT Ends  \* the two ends

VARIABLE results  \* results[p]: what the calls of p have returned, in order

Init == results = [p \in Ends |-> <<>>]

Delivered(p) == UNION {ToSet(results[p][k].elements) : k \in DOMAIN results[p]}

\* The first end to finish a call: either an error, or new elements.
Novel(r) ==
  /\ r.ok \/ r.elements = <<>>
  /\ IsInjective(r.elements)
  /\ \A q \in Ends : ToSet(r.elements) \cap Delivered(q) = {}

\* The second end: the same outcome in the other role.
Agrees(r, s) ==
  /\ r.op = s.op /\ r.role # s.role
  /\ r.ok = s.ok /\ r.elements = s.elements

\* The Receiver's delta is that of its elements, and that of the results since
\* the Receiver last called PrecomputeReceiver.
DeltaHolds(p, r) ==
  r.role = "receiver" /\ r.op = "Run" /\ r.ok =>
    /\ \A e \in ToSet(r.elements) : e[1] = r.delta
    /\ \A j \in DOMAIN results[p] :
         LET s == results[p][j]
         IN  /\ s.role = "receiver" /\ s.op = "Run" /\ s.ok
             /\ \A k \in j .. Len(results[p]) :
                  results[p][k].role = "receiver" => results[p][k].op = "Run"
             => s.delta = r.delta

\* A call of p returns r.
Return(p) ==
  LET k == Len(results[p]) + 1
      r == results'[p][k]
  IN  /\ Len(results'[p]) = k
      /\ results' = [results EXCEPT ![p] = Append(@, r)]
      /\ DeltaHolds(p, r)
      /\ \A q \in Ends \ {p} :
           IF k <= Len(results[q]) THEN Agrees(r, results[q][k]) ELSE Novel(r)

Next == \E p \in Ends : Return(p)

Spec == Init /\ [][Next]_results

=============================================================================

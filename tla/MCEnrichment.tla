------------------------------ MODULE MCEnrichment -----------------------------
(* A small instance of Enrichment: two servers of two namespaces, of which    *)
(* the first has two good declarations and some that a check refuses.         *)
EXTENDS Enrichment

CONSTANTS n1, n2, A, B, pA, pB, x, y, r1, r2

NamespaceOfName == [n \in Names |-> IF n = n1 THEN A ELSE B]
LabelOfNamespace == [ns \in Namespaces |-> IF ns = A THEN pA ELSE pB]

Good(n, p) ==
  [mcp_name |-> n, passport |-> p, schema |-> TRUE, dated |-> TRUE,
   nodes |-> <<x>>, edges |-> {}, numbers |-> {"natural"}]

FirstDoc == Good(n1, pA)
SecondDoc == [FirstDoc EXCEPT !.nodes = <<x, y>>, !.edges = {<<x, y>>}]

AllDocs == {
  FirstDoc, SecondDoc, Good(n1, pB), Good(n2, pB),
  [FirstDoc EXCEPT !.edges = {<<x, y>>}],
  [FirstDoc EXCEPT !.nodes = <<x, x>>],
  [FirstDoc EXCEPT !.numbers = {"negative"}],
  [FirstDoc EXCEPT !.dated = FALSE] }

\* The first server is verified and names an address that hosts its declaration.
\* The second has an envelope of any kind, and nothing to offer but a declaration
\* of the first.
AllStarts ==
  {[found |-> [n \in Names |-> IF n = n1 THEN "uri" ELSE d],
    hosted |-> [n \in Names |-> FirstDoc],
    rights |-> [r \in Passports \X Namespaces |->
                  IF r \in {<<pA, A>>, <<pB, B>>} THEN "dns_txt" ELSE None]] :
     d \in Discoveries}
================================================================================

--------------------------- MODULE MCPublisherRights ---------------------------
(* A small instance of PublisherRights: namespace A of a domain with two      *)
(* servers, namespace G of a GitHub owner with one, and two keys.             *)
EXTENDS PublisherRights, TLC

CONSTANTS A, G, sA, sB, sG, pA, pG, k1, k2, f1, f2, u1, u2, c1, t1, t2, r1, r2

NamespaceOfServer == [s \in Servers |-> IF s = sG THEN G ELSE A]
KindOfNamespace == [ns \in Namespaces |-> IF ns = G THEN "github" ELSE "reverse_dns"]
LabelOfNamespace == [ns \in Namespaces |-> IF ns = G THEN pG ELSE pA]
FingerprintOfKey == [k \in Keys |-> IF k = k1 THEN f1 ELSE f2]

Dns(kind, s, p, f, k, by) ==
  [kind |-> kind, server |-> s, passport |-> p, fpr |-> f, key |-> k,
   redirect |-> None, signer |-> by]
GitHub(kind, p, u, by) ==
  [kind |-> kind, server |-> sG, passport |-> p, fpr |-> None, key |-> None,
   redirect |-> u, signer |-> by]

\* The requests of each kind: good ones, and ones that differ from a good one in
\* one thing a handler looks at.
AllBodies == {
  Dns("dns_challenge", sA, None, f1, k1, None),
  Dns("dns_challenge", sA, None, f2, k1, None),
  Dns("dns_verify", sA, pA, f1, k1, k1),
  Dns("dns_verify", sA, pG, f1, k1, k1),
  Dns("dns_verify", sB, pA, f1, k1, k1),
  Dns("dns_verify", sA, pA, f1, k1, k2),
  Dns("declare", sA, pA, f1, k1, k1),
  Dns("declare", sA, pG, f1, k1, k1),
  GitHub("github_start", pG, u1, None),
  GitHub("github_callback", pG, u1, pG),
  GitHub("github_callback", pG, u2, pG),
  GitHub("github_callback", pG, u1, pA),
  GitHub("manual", pA, None, Operator) }

\* Tokens and requests play no part of their own, and no run over them checks
\* liveness.
Interchangeable == Permutations(Tokens) \cup Permutations(Requests)
================================================================================

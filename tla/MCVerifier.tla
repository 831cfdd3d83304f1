------------------------------- MODULE MCVerifier ------------------------------
(* Two keys, two sets of entries that share a row and differ in the JSON of   *)
(* the other, and declarations that repeat a member or are not JSON.          *)
EXTENDS Verifier

MCLimit == (0 :> 24) @@ (1 :> 256) @@ (2 :> 65536) @@ (3 :> 16777216) @@ (4 :> 33554432)

E(name, version, json) == [name |-> name, version |-> version, json |-> json]
MCEntrySets ==
  {<<E(1, 1, 0), E(1, 2, 0)>>, <<E(1, 1, 0), E(1, 2, 1)>>}

Json(members) == [json |-> TRUE, members |-> members]
MCTexts ==
  {Json(<< <<"mcp_name", "a">>, <<"mcp_name", "b">> >>), Json(<< <<"mcp_name", "b">> >>),
   Json(<<>>), NoText}

MCOthers ==
  {EntryAutoEnriched(0, "a"), AttestationAccepted(0, "a"), AttestationRevoked(0, Null),
   PublisherRightsVerified(0, "a"), SkillSnapshot(0, <<"root">>, <<>>, 1, 2)}

MCSymmetry == Permutations(Keys)

Infinity == [needs |-> 1, finite |-> FALSE]
MCLiterals ==
  {Null, Zeros(32), Overload, Float([width |-> 1, number |-> Infinity]),
   Float([width |-> 2, number |-> Infinity])}
================================================================================

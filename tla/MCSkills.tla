-------------------------------- MODULE MCSkills -------------------------------
(* Two skills of one source and one of another; an inherited lockfile without *)
(* refs, with two skills of one source, one that names branches and has the   *)
(* digests of the first commits, one that is pinned and has other digests,    *)
(* and one whose digests are malformed.                                       *)
EXTENDS Skills

MCLimit == (0 :> 24) @@ (1 :> 256) @@ (2 :> 65536) @@ (3 :> 16777216) @@ (4 :> 33554432)

MCSourceOf == (1 :> "a") @@ (2 :> "a") @@ (3 :> "b")

Entry(n, ref, hash, good) ==
  [source |-> MCSourceOf[n], sourceType |-> "github", skillPath |-> n, ref |-> ref,
   computedHash |-> hash, wellFormedHash |-> good]
RawLock(version, names, ref, hash, good) ==
  [version |-> version, skills |-> [n \in names |-> Entry(n, ref, hash, good)]]
MCRawLocks ==
  {RawLock(1, {1, 2}, Unpinned, 9, TRUE), RawLock(2, {2, 3}, Branch, 0, TRUE),
   RawLock(2, {1, 3}, 1, 9, TRUE), RawLock(1, {1, 2, 3}, Unpinned, 9, FALSE)}

MCConfigured ==
  << [host |-> "public", kind |-> 3], [host |-> "peer", kind |-> 2], [host |-> "self", kind |-> 1] >>
================================================================================

-------------------------------- MODULE Receipts -------------------------------
(* CROWN receipts (rcx-registry-crown): the six types of document, their      *)
(* canonical encoding, the hash that is taken over it with three fields       *)
(* neutralised, and the signature over it with one.  BLAKE3 and Ed25519 are   *)
(* free constructors: equal results come from equal inputs only.              *)
EXTENDS CborHeads, Sequences, FiniteSetsExt, SequencesExt

\* A value of a field, by its CBOR kind.
Null == <<"null">>
Text(x) == <<"text", x>>
Uint(n) == <<"uint", n>>
Float(f) == <<"float", f>>
Map(x) == <<"map", x>>
Bytes(len, x) == <<"bytes", len, x>>
Zeros(len) == Bytes(len, <<"zeros">>)
Id(x) == Bytes(16, <<"id", x>>)
Optional(hash) == IF hash = <<>> THEN Null ELSE Bytes(32, hash)

Blake3(x) == <<"blake3", x>>
Ed25519(key, x) == <<"ed25519", key, x>>

\* The field names of all types in the order of their encoded keys: the head of
\* a text comes first, so a shorter name precedes a longer one.
FieldOrder == <<
  "type", "reason", "changes", "event_id", "namespace", "revoked_at", "scraped_at",
  "signer_kid", "server_name", "skill_count", "snapshot_id", "verified_at",
  "declared_uri", "lock_version", "receipt_hash", "server_count", "signed_at_ms",
  "declared_hash", "attestation_id", "issuer_passport", "attestation_hash",
  "enrichment_bytes", "lock_merkle_root", "revoker_passport", "supersedes_prior",
  "attestation_bytes", "receipt_signature", "publisher_passport",
  "verification_method", "revocation_signature", "snapshot_merkle_root",
  "auto_enrichment_bytes", "upstream_registry_uri", "previous_snapshot_hash",
  "upstream_snapshot_etag" >>

Rank == [name \in ToSet(FieldOrder) |-> CHOOSE i \in DOMAIN FieldOrder : FieldOrder[i] = name]

\* The elements of a set, by how many there are up to each.
Arranged(set, upto) ==
  [k \in 1 .. Cardinality(set) |-> CHOOSE x \in set : Cardinality(upto[x]) = k]

\* The entries of a map in the order they are written.
Ordered(fields) ==
  Arranged(fields, [p \in fields |-> {q \in fields : Rank[q[1]] <= Rank[p[1]]}])

\* What goes over the wire: the head of the map and its entries.
Encode(fields) == [head |-> WriteHead(Cardinality(fields)), pairs |-> Ordered(fields)]

--------------------------------------------------------------------------------
(* The documents, without the three fields they share.                        *)

RegistrySnapshot(id, root, prev, count) ==
  {<<"event_id", Id(id)>>, <<"snapshot_id", Id(id)>>, <<"scraped_at", Uint(id)>>,
   <<"server_count", Uint(count)>>, <<"snapshot_merkle_root", Bytes(32, root)>>,
   <<"previous_snapshot_hash", Optional(prev)>>,
   <<"upstream_registry_uri", Text("upstream")>>, <<"upstream_snapshot_etag", Null>>,
   <<"changes", Map("changes")>>}

EntryAutoEnriched(id, server) ==
  {<<"event_id", Id(id)>>, <<"server_name", Text(server)>>, <<"snapshot_id", Id(id)>>,
   <<"auto_enrichment_bytes", Bytes(64, <<"id", id>>)>>}

EntryEnriched(id, server, declared, prior) ==
  {<<"event_id", Id(id)>>, <<"server_name", Text(server)>>,
   <<"publisher_passport", Text("publisher")>>, <<"declared_uri", Text("uri")>>,
   <<"declared_hash", Bytes(32, declared)>>,
   <<"enrichment_bytes", Bytes(64, <<"id", id>>)>>, <<"supersedes_prior", Optional(prior)>>}

AttestationAccepted(id, server) ==
  {<<"event_id", Id(id)>>, <<"attestation_id", Id(id)>>, <<"server_name", Text(server)>>,
   <<"issuer_passport", Text("issuer")>>, <<"type", Text("auditor")>>,
   <<"attestation_hash", Bytes(32, <<"id", id>>)>>,
   <<"attestation_bytes", Bytes(64, <<"id", id>>)>>}

AttestationRevoked(id, reason) ==
  {<<"event_id", Id(id)>>, <<"attestation_id", Id(id)>>,
   <<"revoker_passport", Text("issuer")>>, <<"reason", reason>>,
   <<"revoked_at", Uint(id)>>, <<"revocation_signature", Bytes(64, <<"id", id>>)>>}

PublisherRightsVerified(id, namespace) ==
  {<<"event_id", Id(id)>>, <<"publisher_passport", Text("publisher")>>,
   <<"namespace", Text(namespace)>>, <<"verification_method", Text("dns_txt")>>,
   <<"verified_at", Uint(id)>>}

\* The receipt over a skills lockfile.
SkillSnapshot(id, root, prev, count, version) ==
  {<<"event_id", Id(id)>>, <<"snapshot_id", Id(id)>>, <<"signed_at_ms", Uint(id)>>,
   <<"skill_count", Uint(count)>>, <<"lock_version", Uint(version)>>,
   <<"lock_merkle_root", Bytes(32, root)>>, <<"previous_snapshot_hash", Optional(prev)>>}

--------------------------------------------------------------------------------
(* Hashing and signing.                                                       *)

\* The fields that every document has.
Shared == {"receipt_hash", "receipt_signature", "signer_kid"}
Trio(hash, signature, kid) ==
  {<<"receipt_hash", hash>>, <<"receipt_signature", signature>>, <<"signer_kid", kid>>}

\* to_cbor_value(zero_receipt = true): the kid becomes null, not an empty text.
Zeroed(body) == body \cup Trio(Zeros(32), Zeros(64), Null)

\* ReceiptDocument::compute_hash.
ReceiptHash(body) == Blake3(<<"cbor", Encode(Zeroed(body))>>)

\* The signature covers the receipt hash and the kid; only itself is zero.
SigningBytes(body, hash, kid) == Encode(body \cup Trio(Bytes(32, hash), Zeros(64), kid))

\* The kid is a configured name: it stays when the key behind it is rotated, and
\* the unsigned signer, which leaves the signature zero, has it as well.
Kid == Text("kid")

SignedReceipt(body, key) ==
  Encode(body \cup Trio(Bytes(32, ReceiptHash(body)),
                        Bytes(64, Ed25519(key, SigningBytes(body, ReceiptHash(body), Kid))), Kid))
UnsignedReceipt(body) ==
  Encode(body \cup Trio(Bytes(32, ReceiptHash(body)), Zeros(64), Kid))

\* verify_receipt_signature: the typed check of the crown crate itself.
BodyOf(wire) == {p \in ToSet(wire.pairs) : p[1] \notin Shared}
FieldOf(wire, name) == (CHOOSE p \in ToSet(wire.pairs) : p[1] = name)[2]
TypedVerifies(wire, key) ==
  LET body == BodyOf(wire)
      hash == FieldOf(wire, "receipt_hash")
      kid == FieldOf(wire, "signer_kid")
  IN  /\ hash = Bytes(32, ReceiptHash(body))
      /\ FieldOf(wire, "receipt_signature") =
           Bytes(64, Ed25519(key, SigningBytes(body, hash[3], kid)))

--------------------------------------------------------------------------------
(* Digests of sets and of declarations.                                       *)

\* Upstream lists a version of a server once, so no two entries are equal here.
Before(e, f) == e.name < f.name \/ (e.name = f.name /\ e.version < f.version)

\* Mutant of SortedEntries: the digest takes the entries as they come.
UnsortedEntries(entries) == entries

SortedEntries(entries) ==
  LET places == DOMAIN entries
      order == Arranged(places, [i \in places |->
                 {j \in places : j = i \/ Before(entries[j], entries[i])}])
  IN  [k \in places |-> entries[order[k]]]

\* snapshot_merkle_root: one hash over all entries; the framing keeps them apart.
SnapshotMerkleRoot(entries) == Blake3(<<"entries", SortedEntries(entries)>>)

\* A declaration is its text: whether it is JSON, and the members as written.
\* Parsing keeps the last of equal members, and the canonical form sorts them.
Parsed(text) ==
  LET members == text.members
  IN  [m \in {members[i][1] : i \in DOMAIN members} |->
         members[Max({i \in DOMAIN members : members[i][1] = m})][2]]

DeclarationHash(text) == Blake3(<<"json", Parsed(text)>>)
================================================================================

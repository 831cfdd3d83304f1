------------------------------ MODULE RegistryData -----------------------------
(* The data the mirror and the snapshots share: what the upstream registry    *)
(* lists, and the digest a snapshot receipt signs.                            *)
EXTENDS Naturals, Sequences, FiniteSets

CONSTANTS
  Names,   \* server names
  Docs     \* one mirrored version: its version string and canonical JSON

\* An upstream envelope.  valid is what MirroredServer::from_envelope decides; at
\* is the place of its name and version string in the order upstream lists in.
Envelope == [name : Names, doc : Docs, valid : BOOLEAN, at : Nat \ {0}]

Digests == [Names \X Docs -> Nat]

\* snapshot_merkle_root: entries are sorted before they are hashed, so the root
\* stands for how often each (name, doc) occurs among the mirrorable envelopes.
MerkleRoot(listing) ==
  [e \in Names \X Docs |->
     Cardinality({i \in DOMAIN listing :
                    listing[i].valid /\ <<listing[i].name, listing[i].doc>> = e})]

\* The names that have a mirrorable envelope.
NamesIn(listing) == {listing[i].name : i \in {j \in DOMAIN listing : listing[j].valid}}
================================================================================

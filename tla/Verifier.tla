-------------------------------- MODULE Verifier -------------------------------
(* Offline verification: the registry signs receipts, its key is rotated, and *)
(* somebody holds a list of documents that came from it, in any order, with   *)
(* gaps, and perhaps damaged or edited on the way.  The five verbs of         *)
(* rcx-verify and the two programs around them, the CLI and the conformance   *)
(* adapter, are operators over what is held.                                  *)
EXTENDS Receipts

CONSTANTS
  Keys,        \* ed25519 key pairs
  EntrySets,   \* the entry lists snapshots are taken of
  Texts,       \* the texts of declarations
  Names,       \* the names a declaration may claim
  Others,      \* bodies of the receipts that form no chain
  Literals,    \* the values an edit may put into a field
  Edited,      \* bound: the fields an edit touches
  Capacity,    \* the most entries there is memory for
  MaxLog, MaxHeld, MaxEdits   \* bounds

Entry == [name : Nat, version : Nat, json : Nat]

\* What upstream lists: a version of a server once.
IsEntryList(e) ==
  e \in Seq(Entry) /\ \A i, j \in DOMAIN e :
    e[i].name = e[j].name /\ e[i].version = e[j].version => i = j

\* A field that the decoder does not come back from: its head claims more than
\* can be allocated or addressed, or its values nest deeper than the stack.
Overload == <<"overload">>

\* The fields of a receipt of a type, each of them once, with the values that the
\* registry writes: no floats.
IsData(v) == v[1] \notin {"float", "overload"}
IsBody(b) ==
  /\ \A p \in b : p = <<p[1], p[2]>> /\ p[1] \in ToSet(FieldOrder) \ Shared /\ IsData(p[2])
  /\ \A p, q \in b : p[1] = q[1] => p = q

\* The receipts that form no chain lack the fields that chains are made of; who
\* edits a document has no signature to put in; there is memory for documents.
ASSUME VerifierAssumption ==
  /\ Keys \cap {"none", "absent", "short"} = {}
  /\ \A e \in EntrySets : IsEntryList(e)
  /\ \A t \in Texts : t.json \in BOOLEAN
  /\ \A b \in Others :
       IsBody(b) /\ \A p \in b : p[1] \notin {"snapshot_merkle_root", "supersedes_prior"}
  /\ \A v \in Literals : v[1] = "bytes" => v = Zeros(v[2])
  /\ MaxLog \in Nat /\ MaxHeld \in Nat /\ MaxEdits \in Nat
  /\ Capacity \in Nat /\ Len(FieldOrder) + MaxEdits <= Capacity /\ Capacity < Limit[4]

VARIABLES
  key,     \* the signer's current key, "none" for the unsigned signer
  log,     \* history: what the registry has published, oldest first
  held,    \* the documents the caller holds
  edits    \* how many edits they have seen

vars == <<key, log, held, edits>>

\* A published receipt: its kind, the key that signed it, the set a snapshot was
\* taken of or the text of a declaration, and its bytes.
Kinds == {"snapshot", "entry_enriched", "other"}

Init == key \in Keys \cup {"none"} /\ log = <<>> /\ held = <<>> /\ edits = 0

--------------------------------------------------------------------------------
(* Decoding.                                                                  *)

AcceptsValue(v) == v[1] = "float" => AcceptsFloat(v[2])

\* read_value takes memory for as many entries as a head claims before it reads
\* the first, and adds a length to its position unchecked: it panics, or the
\* allocator gives up, unless it has met something it refuses before.
DecoderPanics(w) ==
  /\ AcceptsHead(w.head)
  /\ \/ w.head.arg > Capacity
     \/ \E i \in DOMAIN w.pairs :
          /\ i <= w.head.arg /\ w.pairs[i][2] = Overload
          /\ \A j \in 1 .. i - 1 : AcceptsValue(w.pairs[j][2])

\* decode: every head in its shortest form, as many entries as the map says, no
\* byte after them; a float in its shortest form.
Decodes(w) ==
  /\ AcceptsHead(w.head)
  /\ w.head.arg = Len(w.pairs)
  /\ \A i \in DOMAIN w.pairs : AcceptsValue(w.pairs[i][2])

\* Encoding again what was decoded panics on an infinity or a NaN, which the
\* decoder lets through as halves.
Reencodes(w) ==
  \A i \in DOMAIN w.pairs : w.pairs[i][2][1] = "float" => CanWriteFloat(w.pairs[i][2][2].number)

\* CborValue::encode of what was decoded: entries are sorted by their keys, those
\* with equal keys keep their order.
InOrder(pairs) == \A i \in 1 .. Len(pairs) - 1 : Rank[pairs[i][1]] <= Rank[pairs[i + 1][1]]
Sorted(pairs) ==
  LET places == DOMAIN pairs
      order == Arranged(places, [i \in places |->
                 {j \in places : \/ Rank[pairs[j][1]] < Rank[pairs[i][1]]
                                 \/ pairs[j][1] = pairs[i][1] /\ j <= i}])
  IN  [k \in places |-> pairs[order[k]]]
Encoded(w) ==
  [head |-> WriteHead(Len(w.pairs)),
   pairs |-> IF InOrder(w.pairs) THEN w.pairs ELSE Sorted(w.pairs)]

\* Mutant of IsCanonical: whatever decodes is taken as it is.
IsDecodable(w) == Decodes(w)

IsCanonical(w) == Encoded(w) = w

\* The first entry with a name.
Missing == <<"missing">>
Lookup(w, name) ==
  LET found == {i \in DOMAIN w.pairs : w.pairs[i][1] = name}
  IN  IF found = {} THEN Missing ELSE w.pairs[Min(found)][2]

IsBytes(v, len) == v[1] = "bytes" /\ v[2] = len
IsText(v) == v[1] = "text"

\* Mutant of Neutral: a text becomes the empty text.
NeutralByType(v) ==
  CASE v[1] = "bytes" -> Zeros(v[2]) [] v[1] = "text" -> Text("") [] OTHER -> v

Neutral(v) ==
  CASE v[1] = "bytes" -> Zeros(v[2]) [] v[1] = "text" -> Null [] OTHER -> v

\* zero_fields, encoded again.
ZeroFields(w, names) ==
  Encoded([w EXCEPT !.pairs = [i \in DOMAIN w.pairs |->
     IF w.pairs[i][1] \in names THEN <<w.pairs[i][1], Neutral(w.pairs[i][2])>> ELSE w.pairs[i]]])

--------------------------------------------------------------------------------
(* The verbs.  A check is a verdict and the condition to go on; the verdict   *)
(* of a verb is that of the first check that fails.                           *)

First(checks) ==
  LET failed == {i \in DOMAIN checks : ~checks[i][2]}
  IN  IF failed = {} THEN "verified" ELSE checks[Min(failed)][1]

\* Both preimages; taking HashPreimage for SigningPreimage is a mutant as well.
HashPreimage(w) == ZeroFields(w, Shared)

SigningPreimage(w) == ZeroFields(w, {"receipt_signature"})

\* Reading the receipt and its three fields, before anything is hashed.
Read(w, k) ==
  LET hash == Lookup(w, "receipt_hash")
      signature == Lookup(w, "receipt_signature")
      kid == Lookup(w, "signer_kid")
  IN  First(<<
        <<"bad_public_key", k \in Keys>>,
        <<"panic", ~DecoderPanics(w)>>,
        <<"decode_error", Decodes(w)>>,
        <<"panic", Reencodes(w)>>,
        <<"not_canonical", IsCanonical(w)>>,
        <<"missing_field", hash # Missing>>, <<"decode_error", IsBytes(hash, 32)>>,
        <<"missing_field", signature # Missing>>, <<"decode_error", IsBytes(signature, 64)>>,
        <<"missing_field", kid # Missing>>, <<"decode_error", IsText(kid)>> >>)

VerifyReceipt(w, k) ==
  IF Read(w, k) # "verified" THEN Read(w, k)
  ELSE First(<<
    <<"hash_mismatch",
      Lookup(w, "receipt_hash") = Bytes(32, Blake3(<<"cbor", HashPreimage(w)>>))>>,
    <<"bad_signature",
      Lookup(w, "receipt_signature") = Bytes(64, Ed25519(k, SigningPreimage(w)))>> >>)

\* ReceiptFacts.
Facts(w) ==
  [hash |-> Lookup(w, "receipt_hash"), kid |-> Lookup(w, "signer_kid"),
   root |-> LET root == Lookup(w, "snapshot_merkle_root")
            IN IF IsBytes(root, 32) THEN root ELSE Missing]

VerifySnapshot(entries, root) ==
  First(<< <<"root_mismatch", SnapshotMerkleRoot(entries) = root>> >>)

VerifyPublisher(text, hash) ==
  First(<< <<"decode_error", text.json>>,
           <<"declaration_hash_mismatch", DeclarationHash(text) = hash>> >>)

\* Mutant of NameIn: the first of equal members.
FirstNameIn(text) ==
  LET named == {i \in DOMAIN text.members : text.members[i][1] = "mcp_name"}
  IN  IF named = {} THEN "absent" ELSE text.members[Min(named)][2]

NameIn(text) == IF "mcp_name" \in DOMAIN Parsed(text) THEN Parsed(text)["mcp_name"] ELSE "absent"

VerifyNamespace(text, hash, namespace) ==
  First(<< <<VerifyPublisher(text, hash), VerifyPublisher(text, hash) = "verified">>,
           <<"missing_field", NameIn(text) # "absent">>,
           <<"namespace_mismatch", NameIn(text) = namespace>> >>)

\* Mutant of LinkOf: one rule for both kinds.
LinkByRoot(kind, prior) == <<"previous_snapshot_hash", Facts(prior).root>>

\* ChainKind: the field that holds the backward link, and what it must hold.
LinkOf(kind, prior) ==
  IF kind = "snapshot" THEN <<"previous_snapshot_hash", Facts(prior).root>>
  ELSE <<"supersedes_prior", Facts(prior).hash>>

\* Mutant of LinkVerdict: the receipts are verified, the links are not compared.
EachVerdict(links, i, k, kind) == VerifyReceipt(links[i], k)

LinkVerdict(links, i, k, kind) ==
  LET receipt == VerifyReceipt(links[i], k)
  IN  First(<<
           <<receipt, receipt = "verified">>,
           <<"missing_field", i = 1 \/ LinkOf(kind, links[i - 1])[2] # Missing>>,
           <<"chain_broken",
             i = 1 \/ Lookup(links[i], LinkOf(kind, links[i - 1])[1]) = LinkOf(kind, links[i - 1])[2]>> >>)

VerifyHistory(links, k, kind) ==
  LET verdicts == [i \in DOMAIN links |-> LinkVerdict(links, i, k, kind)]
  IN  First([i \in DOMAIN links |-> <<verdicts[i], verdicts[i] = "verified">>])

--------------------------------------------------------------------------------
(* The programs.                                                              *)

\* The digests the registry has published.
Roots == {SnapshotMerkleRoot(log[i].entries) : i \in {n \in DOMAIN log : log[n].kind = "snapshot"}}
DeclaredHashes ==
  {DeclarationHash(log[i].text) : i \in {n \in DOMAIN log : log[n].kind = "entry_enriched"}}

\* A command: the verb, its options, and the contents of its file if readable.
\* "absent" is an option that was not given, "short" one of the wrong length.
Commands ==
  [verb : {"receipt"}, readable : BOOLEAN, file : {held}, key : Keys \cup {"absent", "short"}]
  \cup [verb : {"chain"}, readable : BOOLEAN, file : {held},
        key : Keys \cup {"absent", "short"}, kind : {"absent", "snapshot", "entry_enriched"}]
  \cup [verb : {"snapshot"}, readable : BOOLEAN, file : EntrySets,
        option : {"given", "absent", "short"}, digest : Roots]
  \cup [verb : {"declaration", "namespace"}, readable : BOOLEAN, file : Texts,
        option : {"given", "absent", "short"}, digest : DeclaredHashes,
        name : Names \cup {"absent"}]

Verdict(c) ==
  CASE c.verb = "receipt" -> VerifyReceipt(c.file[1], c.key)
    [] c.verb = "chain" -> VerifyHistory(c.file, c.key, c.kind)
    [] c.verb = "snapshot" -> VerifySnapshot(c.file, c.digest)
    [] c.verb = "declaration" -> VerifyPublisher(c.file, c.digest)
    [] c.verb = "namespace" -> VerifyNamespace(c.file, c.digest, c.name)

\* The CLI's own checks: the options are there, keys and digests have 32 bytes,
\* the file can be read; what fails here is an error, not a verdict.
HasOptions(c) ==
  CASE c.verb = "receipt" -> c.key \in Keys
    [] c.verb = "chain" -> c.key \in Keys /\ c.kind # "absent"
    [] c.verb = "namespace" -> c.option = "given" /\ c.name # "absent"
    [] OTHER -> c.option = "given"

\* Mutant of Runs: an empty chain is passed on to the verb.
RunsOnNothing(c) == c.readable /\ HasOptions(c) /\ (c.verb = "receipt" => c.file # <<>>)

Runs(c) ==
  /\ c.readable /\ HasOptions(c)
  /\ c.verb \in {"receipt", "chain"} => c.file # <<>>

\* A malformed document is a negative verdict too: main reports 1 for it.  101
\* stands for any end without a report, the signal of an abort included.
CodeOf(verdict) == IF verdict = "verified" THEN 0 ELSE IF verdict = "panic" THEN 101 ELSE 1
ExitCode(c, verdict) == IF Runs(c) THEN CodeOf(verdict) ELSE 2

\* The adapter: a field that is absent or is not what it should be is a decode
\* error.  It leaves the length of a key to the verb, and passes an empty chain;
\* the answer "panic" is none, the process has ended.
AdapterReads(c) ==
  /\ c.readable
  /\ CASE c.verb = "receipt" -> c.key # "absent" /\ c.file # <<>>
       [] c.verb = "chain" -> c.key # "absent" /\ c.kind # "absent"
       [] OTHER -> HasOptions(c)

Answer(c, verdict) == IF AdapterReads(c) THEN verdict ELSE "decode_error"

--------------------------------------------------------------------------------
(* Steps.                                                                     *)

\* What the log has of a kind, oldest first.
Places(kind) ==
  LET of == {i \in DOMAIN log : log[i].kind = kind}
  IN  Arranged(of, [i \in of |-> {j \in of : j <= i}])
Of(kind) == [n \in DOMAIN Places(kind) |-> log[Places(kind)[n]]]

\* The signer of this run of the registry signs, or leaves the receipt unsigned.
\* Bound: a receipt that is in no chain is published alone.
Publish(kind, body, entries, text) ==
  /\ Len(log) < MaxLog /\ Of("other") = <<>>
  /\ log' = Append(log,
       [kind |-> kind, signedBy |-> key, entries |-> entries, text |-> text,
        wire |-> IF key = "none" THEN UnsignedReceipt(body) ELSE SignedReceipt(body, key)])
  /\ UNCHANGED <<key, held, edits>>

NoText == [json |-> FALSE, members |-> <<>>]

\* persist_snapshot: the prior link is the root of the snapshot before.
PublishSnapshot ==
  \E entries \in EntrySets :
    LET chain == Of("snapshot")
        prev == IF chain = <<>> THEN <<>> ELSE SnapshotMerkleRoot(Last(chain).entries)
        body == RegistrySnapshot(Len(log), SnapshotMerkleRoot(entries), prev, Len(entries))
    IN  Publish("snapshot", body, entries, NoText)

\* refresh_one: the prior link is the hash of the receipt before.
PublishEnrichment ==
  \E text \in {t \in Texts : t.json /\ NameIn(t) # "absent"} :
    LET chain == Of("entry_enriched")
        prior == IF chain = <<>> THEN <<>> ELSE Lookup(Last(chain).wire, "receipt_hash")[3]
        body == EntryEnriched(Len(log), NameIn(text), DeclarationHash(text), prior)
    IN  Publish("entry_enriched", body, <<>>, text)

PublishOther == log = <<>> /\ \E body \in Others : Publish("other", body, <<>>, NoText)

\* The operator rotates the key or changes the signer's configuration, once.
Rotate(k) ==
  /\ k # key /\ log # <<>> /\ \A i \in DOMAIN log : log[i].signedBy = key
  /\ key' = k
  /\ UNCHANGED <<log, held, edits>>

\* The caller fetches a receipt that has been published.
Fetch(i) ==
  /\ Len(held) < MaxHeld /\ edits = 0
  /\ held' = Append(held, log[i].wire)
  /\ UNCHANGED <<key, log, edits>>

Put(w, i, v) == [w EXCEPT !.pairs[i] = <<@[1], v>>]
Recount(pairs) == [head |-> WriteHead(Len(pairs)), pairs |-> pairs]
Swapped(w, i) ==
  [w EXCEPT !.pairs = [w.pairs EXCEPT ![i] = w.pairs[i + 1], ![i + 1] = w.pairs[i]]]
Rehashed(w) ==
  LET hash == Bytes(32, Blake3(<<"cbor", HashPreimage(w)>>))
  IN  [w EXCEPT !.pairs = [i \in DOMAIN w.pairs |->
         IF w.pairs[i][1] = "receipt_hash" THEN <<"receipt_hash", hash>> ELSE w.pairs[i]]]

Widest == [width |-> 4, arg |-> Limit[4] - 1]
OtherHeads(h) == {[h EXCEPT !.width = @ + 1], [h EXCEPT !.arg = @ + 1], Widest}

\* The forms of a document after one of its entries, or its head, was changed.
Edits(w) ==
  LET touched == {i \in DOMAIN w.pairs : w.pairs[i][1] \in Edited}
  IN  {Swapped(w, i) : i \in touched \ {Len(w.pairs)}}
        \cup {Recount(RemoveAt(w.pairs, i)) : i \in touched}
        \cup {Recount(InsertAt(w.pairs, i, w.pairs[i])) : i \in touched}
        \cup {Put(w, i, v) : i \in touched, v \in Literals}
        \cup {[w EXCEPT !.head = h] : h \in {g \in OtherHeads(w.head) : g \in Heads}}

\* A document was damaged or edited, its hash recomputed or not.  Bound: it is
\* held alone, for a history verifies only if each of its links does.
Edit ==
  /\ Len(held) = 1 /\ edits < MaxEdits /\ edits' = edits + 1
  /\ \E w \in Edits(held[1]) : held' \in {<<w>>, <<Rehashed(w)>>}
  /\ UNCHANGED <<key, log>>

Next ==
  \/ PublishSnapshot \/ PublishEnrichment \/ PublishOther
  \/ \E k \in Keys \cup {"none"} : Rotate(k)
  \/ \E i \in DOMAIN log : Fetch(i)
  \/ Edit

Spec == Init /\ [][Next]_vars

--------------------------------------------------------------------------------
(* Properties.                                                                *)

TypeOK ==
  /\ key \in Keys \cup {"none"}
  /\ Len(log) <= MaxLog /\ Len(held) <= MaxHeld /\ edits \in 0 .. MaxEdits
  /\ \A i \in DOMAIN log :
       /\ log[i].kind \in Kinds /\ log[i].signedBy \in Keys \cup {"none"}
       /\ AcceptsHead(log[i].wire.head) /\ log[i].wire.head \in Heads
  /\ \A i \in DOMAIN held : held[i].head \in Heads

Segment(s, i, j) == [n \in 1 .. j - i + 1 |-> s[i + n - 1].wire]

\* Whatever the registry has signed verifies under the key it was signed with:
\* receipts of every type, through the typed check and through the generic one,
\* and every gapless run of a chain under one key.
HonestVerifies ==
  /\ \A i \in DOMAIN log : log[i].signedBy \in Keys =>
       /\ VerifyReceipt(log[i].wire, log[i].signedBy) = "verified"
       /\ TypedVerifies(log[i].wire, log[i].signedBy)
  /\ \A kind \in {"snapshot", "entry_enriched"}, k \in Keys :
       LET chain == Of(kind)
       IN  \A i, j \in DOMAIN chain :
             (i <= j /\ \A n \in i .. j : chain[n].signedBy = k) =>
               VerifyHistory(Segment(chain, i, j), k, kind) = "verified"

\* A document that verifies under a key is one that was signed with it, byte for
\* byte: no field was changed, dropped, repeated, moved or encoded otherwise.
VerifiedWasSigned ==
  \A i \in DOMAIN held, k \in Keys :
    VerifyReceipt(held[i], k) = "verified" =>
      \E j \in DOMAIN log : log[j].wire = held[i] /\ log[j].signedBy = k

\* a may stand before b in a history of snapshots: it is of the same set as the
\* snapshot that was taken just before b.
Joins(a, b) ==
  LET chain == Of("snapshot")
  IN  \E i, j \in DOMAIN chain :
        /\ chain[i].wire = a /\ chain[j].wire = b /\ j > 1
        /\ SnapshotMerkleRoot(chain[j - 1].entries) = SnapshotMerkleRoot(chain[i].entries)

NoSetCameBack ==
  LET chain == Of("snapshot")
  IN  \A i, j \in DOMAIN chain :
        SnapshotMerkleRoot(chain[i].entries) = SnapshotMerkleRoot(chain[j].entries) => i = j

IsRunOf(links, chain) ==
  \E i \in DOMAIN chain : i + Len(links) - 1 \in DOMAIN chain
                          /\ Segment(chain, i, i + Len(links) - 1) = links

\* A history that verifies is unbroken: receipts of enrichments are a gapless run
\* of those published; in a history of snapshots every link rests on the set that
\* stood before it, and it is a gapless run as well if no set came back.
HistoryIsUnbroken ==
  \A k \in Keys : Len(held) > 1 =>
    /\ VerifyHistory(held, k, "entry_enriched") = "verified" =>
         IsRunOf(held, Of("entry_enriched"))
    /\ VerifyHistory(held, k, "snapshot") = "verified" =>
         /\ \A n \in 1 .. Len(held) - 1 : Joins(held[n], held[n + 1])
         /\ NoSetCameBack => IsRunOf(held, Of("snapshot"))

SameEntries(a, b) == Len(a) = Len(b) /\ ToSet(a) = ToSet(b)

\* The root of a published snapshot vouches for its entries in any order, and
\* for no other list.
RootsBindTheSet ==
  \A i \in DOMAIN log : log[i].kind = "snapshot" =>
    \A entries \in EntrySets \cup {Reverse(e) : e \in EntrySets} :
      VerifySnapshot(entries, SnapshotMerkleRoot(log[i].entries)) = "verified"
        <=> SameEntries(entries, log[i].entries)

\* A namespace that verifies against a published declaration is the one the
\* registry recorded the declaration for, whatever text it is read from.
DeclarationsBindTheName ==
  \A i \in DOMAIN log : log[i].kind = "entry_enriched" =>
    \A text \in Texts, name \in Names :
      VerifyNamespace(text, DeclarationHash(log[i].text), name) = "verified" =>
        FieldOf(log[i].wire, "server_name") = Text(name)

HasHalfInfinity(docs) ==
  \E i \in DOMAIN docs : \E p \in ToSet(docs[i].pairs) :
    p[2][1] = "float" /\ ~p[2][2].number.finite

ClaimsTooMuch(docs) ==
  \E i \in DOMAIN docs :
    docs[i].head.arg > Capacity \/ \E p \in ToSet(docs[i].pairs) : p[2] = Overload

\* The CLI exits with 0 only after something was checked and all of it verified,
\* with 2 when nothing was, and without a report only over an infinity written as
\* a half or a document that claims more than there is room for; where both
\* programs check a command, they give the same answer.
ExitCodesTell ==
  \A c \in Commands :
    LET verdict == Verdict(c)
        code == ExitCode(c, verdict)
        answer == Answer(c, verdict)
    IN
    /\ (c.verb \in {"receipt", "chain"} /\ code = 0) =>
         /\ c.file # <<>>
         /\ \A i \in IF c.verb = "receipt" THEN {1} ELSE DOMAIN c.file :
              VerifyReceipt(c.file[i], c.key) = "verified"
    /\ code = 101 => HasHalfInfinity(c.file) \/ ClaimsTooMuch(c.file)
    /\ code \in {0, 1} => (code = 0 <=> answer = "verified")
    /\ (code = 2 /\ answer = "verified") => c.verb = "chain" /\ c.file = <<>>

\* Whatever it is sent, the adapter answers, with decode_error for what is
\* malformed: CONTRACT.md, section 7, and the header of adapter.rs.
AdapterAlwaysAnswers == \A c \in Commands : Answer(c, Verdict(c)) # "panic"
================================================================================

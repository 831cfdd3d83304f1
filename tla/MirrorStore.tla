------------------------------ MODULE MirrorStore ------------------------------
(* The mirror tables behind PgMirrorStore: mcp_servers, one row per server    *)
(* name, and rcx_enrichment, whose server_name REFERENCES mcp_servers(name)   *)
(* with no ON DELETE clause.  Every operator is one autocommitted statement;  *)
(* nothing in the code groups them into a transaction.                        *)
(*                                                                            *)
(* A timestamp is abstracted to its age, and ages saturate at Retention:      *)
(* the code only ever compares now - deleted_upstream_at with the window.     *)
EXTENDS RegistryData

CONSTANTS
  Retention,    \* SOFT_DELETE_RETENTION (30 days), in units of Tick
  None          \* a missing row, a NULL column, a missing hash

VARIABLES
  mirror,       \* mcp_servers
  enriched      \* the server names that have a row in rcx_enrichment

mirrorVars == <<mirror, enriched>>

Ages == 0 .. Retention

\* deletedFor is the age of deleted_upstream_at, None while that column is NULL.
Row == [doc : Docs, deletedFor : Ages \cup {None}]

ASSUME MirrorAssumption ==
  /\ Retention \in Nat \ {0}
  /\ None \notin Nat
  /\ None \notin Row

MirrorTypeOK ==
  /\ mirror \in [Names -> Row \cup {None}]
  /\ enriched \subseteq Names

MirrorInit ==
  /\ mirror = [n \in Names |-> None]
  /\ enriched = {}

Rows == {n \in Names : mirror[n] # None}
LiveRows == {n \in Rows : mirror[n].deletedFor = None}

--------------------------------------------------------------------------------
\* Mutants of UpsertServer: the conflict clause forgets deleted_upstream_at, or
\* is DO NOTHING.
UpsertKeepsStamp(n, d) ==
  /\ mirror' = [mirror EXCEPT ![n] = IF @ = None THEN [doc |-> d, deletedFor |-> None]
                                     ELSE [@ EXCEPT !.doc = d]]
  /\ UNCHANGED enriched

UpsertDoesNothing(n, d) ==
  /\ mirror' = [mirror EXCEPT ![n] = IF @ = None THEN [doc |-> d, deletedFor |-> None]
                                     ELSE @]
  /\ UNCHANGED enriched

\* upsert_server: a conflict on the name overwrites every column and clears
\* the deletion stamp, so of several versions of a name the last one stays.
UpsertServer(n, d) ==
  /\ mirror' = [mirror EXCEPT ![n] = [doc |-> d, deletedFor |-> None]]
  /\ UNCHANGED enriched

\* mark_deleted with a stamp of the given age: ... WHERE name = $1 AND
\* deleted_upstream_at IS NULL.
MarkDeleted(n, age) ==
  /\ mirror' = IF n \in LiveRows
               THEN [mirror EXCEPT ![n].deletedFor = age]
               ELSE mirror
  /\ UNCHANGED enriched

\* The foreign key refuses to delete a row that an enrichment row refers to.
EvictAllowed(n) == n \notin enriched

\* evict: DELETE FROM mcp_servers WHERE name = $1.
Evict(n) ==
  /\ EvictAllowed(n)
  /\ mirror' = [mirror EXCEPT ![n] = None]
  /\ UNCHANGED enriched

\* cached_state: every name with its deletion stamp, in no particular order.
CachedState == {<<n, mirror[n].deletedFor>> : n \in Rows}

\* The enrichment upsert, by the refresh loop or by a publisher's declaration:
\* the foreign key asks only that the mirror row exists, deleted or not.
UpsertEnrichment(n) ==
  /\ n \in Rows
  /\ enriched' = enriched \cup {n}
  /\ UNCHANGED mirror

Older(age) == IF age < Retention THEN age + 1 ELSE age

\* One unit of time: every deletion stamp is one unit older.
AgeRows ==
  /\ mirror' = [n \in Names |->
                  IF n \in Rows \ LiveRows
                  THEN [mirror[n] EXCEPT !.deletedFor = Older(@)]
                  ELSE mirror[n]]
  /\ UNCHANGED enriched
================================================================================

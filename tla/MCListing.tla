------------------------------- MODULE MCListing -------------------------------
(* A small instance of Listing: four names, rows of two versions, one query   *)
(* for each filter, limits below, at and above the bounds.                    *)
EXTENDS Listing

CONSTANTS v1, v2

First == [version |-> v1, deleted |-> FALSE, latest |-> TRUE, recent |-> TRUE]

AllRows == {
  First,
  [First EXCEPT !.version = v2],
  [First EXCEPT !.deleted = TRUE],
  [First EXCEPT !.recent = FALSE, !.latest = FALSE] }

Plain == [search |-> Names, version |-> None, deleted |-> FALSE, since |-> FALSE]

AllQueries == {
  Plain,
  [Plain EXCEPT !.deleted = TRUE],
  [Plain EXCEPT !.since = TRUE],
  [Plain EXCEPT !.version = Latest],
  [Plain EXCEPT !.version = v1, !.deleted = TRUE],
  [Plain EXCEPT !.search = Names \ {2}] }

AllLimits == {None, 0, 9}
================================================================================

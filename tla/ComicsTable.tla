---------------------------- MODULE ComicsTable ----------------------------
(***************************************************************************)
(* What the update service promises about the comics table to everybody    *)
(* who reads it: search, Stats, the check before a favorite is added.  It  *)
(* is the abstract specification that UpdateService implements (module     *)
(* UpdateTable) and the environment of SearchQueries, UpdateStats and      *)
(* Favorites.                                                              *)
(*                                                                         *)
(* One request at a time owns the table.  An Update adds rows, one by one, *)
(* each for a comic that xkcd.com has published and that was missing.  A   *)
(* Drop empties the table at once.  A statement that its client gave up    *)
(* may be executed at any later time; from then on the table is "raced"    *)
(* and an Update may also rewrite rows.                                    *)
(***************************************************************************)
EXTENDS Naturals

CONSTANTS
  Updates,      \* the Update calls
  Drops,        \* the Drop calls
  MaxID,        \* bound on the newest xkcd id
  Rows,         \* what a row can hold
  Absent,       \* no row
  None          \* no owner

IDs == 1 .. MaxID

VARIABLES
  xkcdLast,     \* the newest id on xkcd.com
  rows,         \* id -> row or Absent
  owner,        \* the request in the core of the update service
  raced         \* a statement took effect after its client gave it up

tableVars == <<xkcdLast, rows, owner, raced>>

Stored == {id \in IDs : rows[id] # Absent}
EmptyTable == [id \in IDs |-> Absent]

\* The update service has just started, on the table an earlier one left behind.
TableInit ==
  /\ xkcdLast \in IDs
  /\ rows \in [IDs -> Rows \cup {Absent}]
  /\ \A id \in IDs : id > xkcdLast => rows[id] = Absent
  /\ owner = None
  /\ raced = FALSE

\* A request gets into the core.
Acquire(r) ==
  /\ owner = None
  /\ owner' = r
  /\ UNCHANGED <<xkcdLast, rows, raced>>

\* It leaves the core: it returned, or its process died.
Release ==
  /\ owner # None
  /\ owner' = None
  /\ UNCHANGED <<xkcdLast, rows, raced>>

\* A worker of the Update in the core stores a comic.
AddRow(id, row) ==
  /\ owner \in Updates
  /\ id <= xkcdLast
  /\ rows[id] = Absent \/ raced
  /\ rows' = [rows EXCEPT ![id] = row]
  /\ UNCHANGED <<xkcdLast, owner, raced>>

\* The TRUNCATE of the Drop in the core, the last thing that it does.
Truncate ==
  /\ owner \in Drops
  /\ rows' = EmptyTable
  /\ owner' = None
  /\ UNCHANGED <<xkcdLast, raced>>

\* An upsert or a TRUNCATE that was given up takes effect.
LateStatement ==
  /\ \/ rows' = EmptyTable
     \/ \E id \in IDs, row \in Rows :
          id <= xkcdLast /\ rows' = [rows EXCEPT ![id] = row]
  /\ raced' = TRUE
  /\ UNCHANGED <<xkcdLast, owner>>

\* xkcd.com publishes its next comic.
Publish ==
  /\ xkcdLast < MaxID
  /\ xkcdLast' = xkcdLast + 1
  /\ UNCHANGED <<rows, owner, raced>>

TableNext ==
  \/ \E r \in Updates \cup Drops : Acquire(r)
  \/ Release
  \/ \E id \in IDs, row \in Rows : AddRow(id, row)
  \/ Truncate
  \/ LateStatement
  \/ Publish

TableSpec == TableInit /\ [][TableNext]_tableVars
=============================================================================

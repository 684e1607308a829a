---------------------------- MODULE BookingTables ----------------------------
(***************************************************************************)
(* The rows of the booking database (app/models.py), as far as booking     *)
(* decisions depend on them, and the clock they are written in.            *)
(*                                                                         *)
(* A table is a sequence: rows are never deleted, so a row's index is its  *)
(* primary key and a smaller index is an older row.  An instant is a       *)
(* number of minutes since midnight of day 0.                              *)
(***************************************************************************)
EXTENDS Integers, Sequences

CONSTANTS
  Resource,        \* identities of the robots staff can put on the books
  ResponseId,      \* identities printed on the Teams form
  NoResource,      \* SQL NULL in assigned_resource_id
  NoResponseId     \* SQL NULL in response_id

ASSUME NullAssumption ==
  /\ NoResource \notin Resource
  /\ NoResponseId \notin ResponseId

RequestStatus == {"PENDING", "APPROVED", "REJECTED", "CANCELLED"}

\* Statuses that no longer hold a Response ID against a new entry.
ClosedStatus == {"CANCELLED", "REJECTED"}

SourceType == {"BOOKING", "LESSON", "MAINTENANCE", "BLOCK"}

ResourceStatus == {"Active", "Out of Service", "Retired"}

\* A robot that staff have not added yet has no row.
Missing == "Missing"

Session == {"AM", "PM"}

\* The dates and sessions a request asks for.
Period == [startDate : Int, endDate : Int, sessions : SUBSET Session]

RequestRow ==
  [status : RequestStatus, period : Period,
   responseId : ResponseId \union {NoResponseId},
   assigned : Resource \union {NoResource}]

\* booking_request_id is NULL for lessons and manual entries.
NoRequest == 0

ReservationRow ==
  [resource : Resource, source : SourceType, request : Nat,
   start : Int, end : Int,
   status : {"ACTIVE", "CANCELLED"},
   note : BOOLEAN]        \* is there a conflict_note?

LiveRequest(row) == row.status \notin ClosedStatus

ActiveRow(row) == row.status = "ACTIVE"

=============================================================================

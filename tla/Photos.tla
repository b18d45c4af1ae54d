------------------------------- MODULE Photos -------------------------------
(***************************************************************************)
(* Uploading, replacing and removing one picture: the photo of an owner's  *)
(* coin (services/collection_photos.py), the public photo of a catalogue   *)
(* record (services/catalog_photos.py) and the account's picture           *)
(* (services/avatars.py).  The rows are in the database, the files in an   *)
(* object store; a request puts its file, changes its rows, deletes the    *)
(* files the rows no longer name, and only then is its transaction         *)
(* committed (db/session.py).  A key is the digest of the source, so it is *)
(* the picture; the sizes of one picture are one key.                      *)
(*                                                                         *)
(* The database is read committed: a request sees what was committed when  *)
(* it reads, and deleting or updating a row waits for the transaction that *)
(* holds it.  Requests interleave at every await, a request may fail or    *)
(* the process may stop between any two steps.                             *)
(***************************************************************************)
EXTENDS Integers, FiniteSets

CONSTANTS Uploads,     \* pictures that are uploaded
          MaxRequests   \* how many requests are made

ASSUME PhotosAssumption == Uploads # {} /\ MaxRequests \in Nat

Services == {"collection", "catalog", "avatar"}

\* A row names a key; its id is that of the request that inserted it.  The
\* avatar is a column of the user's row, which has the id 0.
PhotoRows == [id : 0..MaxRequests, key : Uploads]

VARIABLES service,      \* which of the three services is asked
          slotRows,     \* the committed rows of the slot
          objects,      \* the keys in the object store
          requests,     \* the requests being handled
          made,         \* how many were made
          written,      \* every key ever put
          mishaps       \* what has gone out of the ordinary (not code)

photoVars == <<service, slotRows, objects, requests, made, written, mishaps>>

\* Requests overlapped; the picture on show was uploaded again; one failed.
Mishaps == {"overlap", "again", "upload failed", "removal failed"}

Keys(set) == {r.key : r \in set}

PhotosInit ==
    /\ service \in Services
    /\ slotRows = {} /\ objects = {}
    /\ requests = {} /\ made = 0
    /\ written = {}
    /\ mishaps = {}

\* An upload or a removal arrives.  The avatar's service has the user's row
\* from the start: it was read to authenticate the request.
Arrives(op, p) ==
    /\ made < MaxRequests
    /\ made' = made + 1
    /\ requests' = requests \cup
         {[id |-> made + 1, op |-> op, key |-> p, stage |-> "arrived",
           own |-> {}, gone |-> {},
           seen |-> IF service = "avatar" THEN slotRows ELSE {}]}
    /\ mishaps' = mishaps \cup {m \in {"overlap", "again"} :
                      IF m = "overlap" THEN requests # {}
                      ELSE op = "set" /\ service # "avatar" /\ p \in Keys(slotRows)}
    /\ UNCHANGED <<service, slotRows, objects, written>>

Becomes(q, changed) == requests' = (requests \ {q}) \cup {changed}

\* process_image or process_avatar refuses the file before anything is done.
Rejected(q) ==
    /\ q.op = "set" /\ q.stage = "arrived"
    /\ requests' = requests \ {q}
    /\ UNCHANGED <<service, slotRows, objects, made, written, mishaps>>

\* The new file is put first of all.
PutObject(q) ==
    /\ q.op = "set" /\ q.stage = "arrived"
    /\ objects' = objects \cup {q.key}
    /\ written' = written \cup {q.key}
    /\ Becomes(q, [q EXCEPT !.stage = "put"])
    /\ UNCHANGED <<service, slotRows, made, mishaps>>

\* _own_row and _rows: the rows committed by now.  A coin's photo is read
\* as the one row there may be.
ReadPrevious(q) ==
    /\ service # "avatar"
    /\ q.stage = IF q.op = "set" THEN "put" ELSE "arrived"
    /\ service = "collection" => Cardinality(slotRows) <= 1
    /\ Becomes(q, [q EXCEPT !.stage = "read", !.seen = slotRows])
    /\ UNCHANGED <<service, slotRows, objects, made, written, mishaps>>

\* scalar_one_or_none raises when there are two: the request fails.
ReadTwo(q) ==
    /\ service = "collection"
    /\ q.stage = IF q.op = "set" THEN "put" ELSE "arrived"
    /\ Cardinality(slotRows) > 1
    /\ requests' = requests \ {q}
    /\ UNCHANGED <<service, slotRows, objects, made, written, mishaps>>

\* The new row is flushed: inserted, not yet committed.
InsertRow(q) ==
    /\ service # "avatar"
    /\ q.stage = "read"
    /\ Becomes(q, [q EXCEPT !.stage = "inserted",
                            !.own = IF q.op = "set"
                                    THEN {[id |-> q.id, key |-> q.key]} ELSE {}])
    /\ UNCHANGED <<service, slotRows, objects, made, written, mishaps>>

\* Another transaction has deleted or updated the row and is not over.
Held(id, q) == \E o \in requests \ {q} : \E r \in o.gone : r.id = id

\* _retire, newest row first: the row, then its files.  Deleting a row that
\* another transaction has deleted meanwhile deletes nothing, and the files
\* are deleted all the same.
Retire(q, row) ==
    /\ service # "avatar"
    /\ q.stage = "inserted"
    /\ row \in q.seen \ q.gone
    /\ \A r \in q.seen \ q.gone : r.id <= row.id
    /\ ~Held(row.id, q)
    /\ objects' = objects \ {row.key}
    /\ Becomes(q, [q EXCEPT !.gone = @ \cup {row}])
    /\ UNCHANGED <<service, slotRows, made, written, mishaps>>

\* set_avatar and remove_avatar: the column is updated when it changes from
\* what was read, and the file it named is deleted unless it is the new one.
PointUser(q) ==
    /\ service = "avatar"
    /\ q.stage = IF q.op = "set" THEN "put" ELSE "arrived"
    /\ LET now == IF q.op = "set" THEN {[id |-> 0, key |-> q.key]} ELSE {}
       IN /\ Keys(q.seen) # Keys(now) => ~Held(0, q)
          /\ objects' = objects \ (Keys(q.seen) \ Keys(now))
          /\ Becomes(q, [q EXCEPT !.stage = "inserted", !.own = now,
                          !.gone = IF Keys(q.seen) = Keys(now) THEN {}
                                   ELSE {[id |-> 0, key |-> q.key]}])
    /\ UNCHANGED <<service, slotRows, made, written, mishaps>>

\* Everything is done that the request had to do.
Done(q) ==
    /\ q.stage = "inserted"
    /\ service # "avatar" => q.seen = q.gone

\* The session's commit, after the handler has returned.
CommitPhoto(q) ==
    /\ Done(q)
    /\ slotRows' = IF service = "avatar"
               THEN IF q.gone = {} THEN slotRows ELSE q.own
               ELSE {r \in slotRows : \A g \in q.gone : g.id # r.id} \cup q.own
    /\ requests' = requests \ {q}
    /\ UNCHANGED <<service, objects, made, written, mishaps>>

\* The request fails, or the process stops: the rows are as they were.
Fails(q) ==
    /\ q.stage # "arrived"
    /\ requests' = requests \ {q}
    /\ mishaps' = mishaps \cup {IF q.op = "set" THEN "upload failed" ELSE "removal failed"}
    /\ UNCHANGED <<service, slotRows, objects, made, written>>

PhotosNext ==
    \/ \E p \in Uploads : Arrives("set", p) \/ Arrives("remove", p)
    \/ \E q \in requests :
         \/ Rejected(q) \/ PutObject(q)
         \/ ReadPrevious(q) \/ ReadTwo(q) \/ InsertRow(q)
         \/ \E row \in PhotoRows : Retire(q, row)
         \/ PointUser(q)
         \/ CommitPhoto(q) \/ Fails(q)

PhotosSpec == PhotosInit /\ [][PhotosNext]_photoVars

-----------------------------------------------------------------------------
(* Properties.                                                              *)

Requests ==
    [id : 1..MaxRequests, op : {"set", "remove"}, key : Uploads,
     stage : {"arrived", "put", "read", "inserted"}, own : SUBSET PhotoRows,
     gone : SUBSET PhotoRows,
     seen : SUBSET PhotoRows]

\* The type of the state.
PhotosTypeOK ==
    /\ service \in Services
    /\ slotRows \subseteq PhotoRows
    /\ objects \subseteq Uploads /\ written \subseteq Uploads
    /\ requests \subseteq Requests
    /\ made \in 0..MaxRequests
    /\ mishaps \subseteq Mishaps

\* The docstring of set_photo: whatever interrupts it, a row never names a key
\* that was never written.
NeverUnwritten == Keys(slotRows) \subseteq written

\* Requests that come one at a time and do not fail leave one row at most and no
\* file that it does not name.  They leave its file too, unless the picture on
\* show was uploaded again: then _retire of the former row deletes the keys of
\* the new one (collection_photos.py:111-112, catalog_photos.py:71-72), and
\* nothing is promised here.  Overlapping and failing requests are left out.
KeepsOnePicture ==
    requests = {} /\ mishaps \subseteq {"again"} =>
        /\ Cardinality(slotRows) <= 1
        /\ objects \subseteq Keys(slotRows)
        /\ "again" \notin mishaps => objects = Keys(slotRows)

\* docs/media.md:122-124 of the photos of media_files: an upload that fails while it
\* replaces a photo by another, with nothing else going on, leaves the row with
\* a file.
FailedReplacementKeepsFile ==
    service # "avatar" /\ requests = {} /\ mishaps = {"upload failed"} =>
        Keys(slotRows) \subseteq objects

=============================================================================

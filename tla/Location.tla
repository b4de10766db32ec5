------------------------------- MODULE Location -------------------------------
(***************************************************************************)
(* The sensor's location: the table of status/models.py, of whose rows one *)
(* at most is to be active, and the copy of the active one that the sensor *)
(* object holds in memory.  Administrators edit the table, each in a       *)
(* transaction; an action that found its position saves it from the        *)
(* scheduler thread, statement by statement.  A statement sees the rows    *)
(* committed before it, waits for the rows others have locked, and looks   *)
(* at them again (READ COMMITTED of PostgreSQL).                           *)
(***************************************************************************)
EXTENDS Naturals

CONSTANTS
    None,
    Handler,       \* location_action_completed_callback
    Admins,        \* administrators' requests that may be in flight together
    Ids,           \* primary keys
    Places,        \* coordinates
    Definition,    \* the coordinates of the sensor definition file
    MaxSaves,      \* bound on saves and deletions
    MaxCrashes     \* bound on crashes

ASSUME LocationAssumption ==
    /\ None \notin Ids \cup Places \cup {Definition}
    /\ Handler \notin Admins
    /\ MaxSaves \in Nat /\ MaxCrashes \in Nat

VARIABLES
    locations,   \* the table, as committed: a Row or None for each key
    used,        \* keys the sequence has given out
    location,    \* sensor.location
    writer,      \* what each writer is doing: a Writing or None
    alone,       \* history: writers no other has overlapped
    raced,       \* history: an overlap no save has made good since
    saves,       \* saves and deletions so far
    crashes      \* crashes so far

table == <<locations, used>>
vars == <<table, location, writer, alone, raced, saves, crashes>>

Writers == Admins \cup {Handler}
Row == [active : BOOLEAN, place : Places]

(* An instance of Location on its way to the table.  `todo` are the rows   *)
(* the UPDATE of save() has still to reach, `off` those it has reached.    *)
Writing == [id : Ids, row : Row, todo : SUBSET Ids, off : SUBSET Ids,
            step : {"select", "deselect", "write", "commit", "delete"}]

ASSUME NoneIsNoRow == None \notin Row /\ None \notin Writing

TypeOK ==
    /\ locations \in [Ids -> Row \cup {None}]
    /\ used \in SUBSET Ids
    /\ location \in Places \cup {Definition, None}
    /\ writer \in [Writers -> Writing \cup {None}]
    /\ alone \in SUBSET Writers
    /\ raced \in BOOLEAN
    /\ saves \in 0 .. MaxSaves
    /\ crashes \in 0 .. MaxCrashes

Init ==
    /\ locations = [i \in Ids |-> None]
    /\ used = {}
    /\ location = Definition
    /\ writer = [w \in Writers |-> None]
    /\ alone = {}
    /\ raced = FALSE
    /\ saves = 0
    /\ crashes = 0
------------------------------------------------------------------------------
Rows == {i \in Ids : locations[i] # None}
Active == {i \in Rows : locations[i].active}    \* filter(active=True)

Busy(w) == writer[w] # None

(* A transaction keeps the rows it has changed locked until it commits.    *)
Locked(w, i) ==
    \E v \in Writers \ {w} :
        /\ Busy(v)
        /\ i \in writer[v].off \/ (writer[v].step = "commit" /\ writer[v].id = i)

(* A writer begins with a request or a signal: `i` is saved as `row`. *)
Begin(w, i, row, step) ==
    /\ ~Busy(w)
    /\ saves < MaxSaves
    /\ saves' = saves + 1
    /\ writer' = [writer EXCEPT ![w] = [id |-> i, row |-> row, todo |-> {}, off |-> {},
                                        step |-> step]]
    /\ IF \E v \in Writers : Busy(v)
       THEN alone' = {} /\ raced' = TRUE
       ELSE alone' = {w} /\ UNCHANGED raced
    /\ UNCHANGED <<location, crashes>>

(* Mutant: an active location is saved like any other. *)
FirstStepWrites(row) == "write"

(* save() deselects only on behalf of an active location. *)
FirstStep(row) == IF row.active THEN "select" ELSE "write"

(* The form of the admin site writes every field of a location. *)
Add(w, row) ==
    /\ \E i \in Ids \ used : Begin(w, i, row, FirstStep(row)) /\ used' = used \cup {i}
    /\ UNCHANGED locations

Change(w, i, row) ==
    /\ i \in Rows
    /\ Begin(w, i, row, FirstStep(row))
    /\ UNCHANGED table

Delete(w, i) ==
    /\ i \in Rows
    /\ Begin(w, i, locations[i], "delete")
    /\ UNCHANGED table

(* Location.objects.get(active=True), or a new Location; two active ones   *)
(* are an exception of the action.                                         *)
Locate(place) ==
    LET row == [active |-> TRUE, place |-> place] IN
    \/ /\ Active = {}
       /\ Add(Handler, row)
    \/ \E i \in Active : Active = {i} /\ Change(Handler, i, row)

(* A signal without coordinates changes other fields of the active one.    *)
Redescribe == \E i \in Active : Active = {i} /\ Change(Handler, i, locations[i])
------------------------------------------------------------------------------
(* save(), one statement after the other. *)

Goes(w, step) == writer' = [writer EXCEPT ![w].step = step]

(* Mutant: of the others only one is deselected. *)
SelectFirst(w) ==
    /\ Busy(w) /\ writer[w].step = "select"
    /\ \E rows \in SUBSET (Active \ {writer[w].id}) :
           /\ \E i \in Ids : Active \ {writer[w].id} # {} => rows = {i}
           /\ writer' = [writer EXCEPT ![w].step = "deselect", ![w].todo = rows]
    /\ UNCHANGED <<table, location, alone, raced, saves, crashes>>

(* filter(active=True).exclude(pk=self.pk), as of now *)
Select(w) ==
    /\ Busy(w) /\ writer[w].step = "select"
    /\ writer' = [writer EXCEPT ![w].step = "deselect",
                                ![w].todo = Active \ {writer[w].id}]
    /\ UNCHANGED <<table, location, alone, raced, saves, crashes>>

(* update(active=False) reaches a row, once nobody else holds it; one that *)
(* is not active any more is left alone.                                   *)
Deselect(w, i) ==
    /\ Busy(w) /\ writer[w].step = "deselect"
    /\ i \in writer[w].todo
    /\ ~Locked(w, i)
    /\ writer' = [writer EXCEPT ![w].todo = @ \ {i},
                                ![w].off = IF i \in Active THEN @ \cup {i} ELSE @]
    /\ UNCHANGED <<table, location, alone, raced, saves, crashes>>

Off(rows) == [i \in Ids |-> IF i \in rows /\ locations[i] # None
                            THEN [locations[i] EXCEPT !.active = FALSE] ELSE locations[i]]

(* The handler has no transaction: its statement is committed by itself.   *)
Deselected(w) ==
    /\ Busy(w) /\ writer[w].step = "deselect"
    /\ writer[w].todo = {}
    /\ IF w = Handler
       THEN /\ locations' = Off(writer[w].off)
            /\ writer' = [writer EXCEPT ![w].step = "write", ![w].off = {}]
       ELSE Goes(w, "write") /\ UNCHANGED locations
    /\ UNCHANGED <<used, location, alone, raced, saves, crashes>>

(* Mutants of Signal: the sensor is given the instance, not its            *)
(* coordinates; the saved location need not be active.                     *)
SignalInstance(w) ==
    location' = IF writer[w].row.active THEN writer[w].row ELSE location

SignalAny(w) == location' = writer[w].row.place

(* db_location_updated hears of the save before the transaction commits.   *)
Signal(w) ==
    location' = IF writer[w].row.active THEN writer[w].row.place ELSE location

Ends(w) == writer' = [writer EXCEPT ![w] = None] /\ alone' = alone \ {w}

(* What an undisturbed save of an active location has put right. *)
Repaired(w) ==
    raced' = IF w \in alone /\ writer[w].row.active /\ writer[w].step # "delete"
             THEN FALSE ELSE raced

(* super().save(): the row is updated, or inserted when there is none.     *)
Write(w) ==
    /\ Busy(w) /\ writer[w].step = "write"
    /\ ~Locked(w, writer[w].id)
    /\ Signal(w)
    /\ IF w = Handler
       THEN /\ locations' = [locations EXCEPT ![writer[w].id] = writer[w].row]
            /\ Ends(w)
            /\ Repaired(w)
       ELSE Goes(w, "commit") /\ UNCHANGED <<locations, alone, raced>>
    /\ UNCHANGED <<used, saves, crashes>>

Commit(w) ==
    /\ Busy(w) /\ writer[w].step = "commit"
    /\ locations' = [Off(writer[w].off) EXCEPT ![writer[w].id] = writer[w].row]
    /\ Ends(w)
    /\ Repaired(w)
    /\ UNCHANGED <<used, location, saves, crashes>>

(* The deletion, with db_location_deleted: it goes by what was loaded.     *)
DeleteRow(w) ==
    /\ Busy(w) /\ writer[w].step = "delete"
    /\ ~Locked(w, writer[w].id)
    /\ locations' = [locations EXCEPT ![writer[w].id] = None]
    /\ location' = IF writer[w].row.active THEN None ELSE location
    /\ Ends(w)
    /\ UNCHANGED <<used, raced, saves, crashes>>

(* Writers that wait for each other: PostgreSQL makes one of them fail.    *)
Abort(w) ==
    /\ Busy(w)
    /\ \/ writer[w].step = "deselect" /\ \E i \in writer[w].todo : Locked(w, i)
       \/ writer[w].step \in {"write", "delete"} /\ Locked(w, writer[w].id)
    /\ Ends(w)
    /\ UNCHANGED <<table, location, raced, saves, crashes>>
------------------------------------------------------------------------------
(* A new process: open transactions are rolled back, and StatusConfig.ready *)
(* copies the active location, if there is just one.                       *)
Reboot ==
    /\ writer' = [w \in Writers |-> None]
    /\ alone' = {}
    /\ \/ \E i \in Active : Active = {i} /\ location' = locations[i].place
       \/ (\A i \in Active : Active # {i}) /\ location' = Definition
    /\ UNCHANGED <<table, raced, saves>>

Restart == (\A w \in Writers : ~Busy(w)) /\ Reboot /\ UNCHANGED crashes

Crash ==
    /\ crashes < MaxCrashes
    /\ crashes' = crashes + 1
    /\ Reboot

Next ==
    \/ \E w \in Admins :
           \/ \E row \in Row : Add(w, row) \/ \E i \in Ids : Change(w, i, row)
           \/ \E i \in Ids : Delete(w, i)
    \/ \E p \in Places : Locate(p)
    \/ Redescribe
    \/ \E w \in Writers :
           \/ Select(w) \/ Deselected(w) \/ Write(w) \/ Commit(w) \/ DeleteRow(w)
           \/ Abort(w)
           \/ \E i \in Ids : Deselect(w, i)
    \/ Restart \/ Crash

Spec == Init /\ [][Next]_vars
------------------------------------------------------------------------------
(* "Deselect active on all other Locations if self is active": one         *)
(* location at most is active, whatever crashes come between the two       *)
(* statements of a save, unless two saves overlapped (models.py, save).    *)
OneActive == raced \/ \A i, j \in Active : i = j

(* What actions are given as the sensor's location is the active one of    *)
(* the table, from the moment a save is over, and again after a restart    *)
(* (location_handler.py; apps.py, ready).                                  *)
CopyIsActive ==
    raced \/ (\E w \in Writers : Busy(w))
          \/ \A i \in Active : location = locations[i].place

(* Whatever overlapping saves and crashes have left, two active locations  *)
(* or a copy of none, the next save of an active location that no other    *)
(* overlaps puts it right: the location saved is the active one and the    *)
(* sensor's (models.py, save; location_handler.py, db_location_updated).   *)
SaveRepairs ==
    [][\A w \in alone :
           /\ writer[w].row.active /\ writer[w].step \in {"write", "commit"}
           /\ writer'[w] = None /\ crashes' = crashes
           => /\ {i \in Ids : locations'[i] # None /\ locations'[i].active} = {writer[w].id}
              /\ location' = writer[w].row.place]_vars
==============================================================================

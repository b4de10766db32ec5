---------------------------- MODULE LocationProofs ----------------------------
(***************************************************************************)
(* For any number of administrators, locations and crashes: one location   *)
(* is active and the sensor's copy is of it, except after saves that       *)
(* overlapped, and the next save that is left alone repairs what they did. *)
(***************************************************************************)
EXTENDS Location, TLAPS

(* A writer that no other has overlapped is the only one. *)
Sole == \A w \in alone : Busy(w) /\ \A v \in Writers : Busy(v) => v = w

(* Writers overlap only where the race is on record. *)
Orderly == ~raced => \A w \in Writers : Busy(w) => w \in alone

(* How far the save of an active location has come: the others are to be   *)
(* reached, then reached, then the sensor has its copy.                    *)
Deselecting ==
    \A w \in alone :
        LET s == writer[w] IN
        s.row.active =>
            /\ s.step = "deselect" => Active \ {s.id} \subseteq s.todo \cup s.off
            /\ s.step \in {"write", "commit"} => Active \ {s.id} \subseteq s.off
            /\ s.step = "commit" => location = s.row.place

(* What a deletion has loaded is still what it deletes. *)
Deleting ==
    \A w \in alone : writer[w].step = "delete" => locations[writer[w].id] = writer[w].row

(* Each statement of the handler is committed at once. *)
HandlerCommits ==
    Busy(Handler) /\ writer[Handler].step = "write" => writer[Handler].off = {}

(* The copy is ahead of the table only between the signal and the commit.  *)
CopyTrue ==
    \/ raced
    \/ \E w \in Writers : Busy(w) /\ writer[w].row.active /\ writer[w].step = "commit"
    \/ \A i \in Active : location = locations[i].place

LocationInv ==
    /\ TypeOK
    /\ OneActive
    /\ Sole
    /\ Orderly
    /\ Deselecting
    /\ Deleting
    /\ HandlerCommits
    /\ CopyTrue
------------------------------------------------------------------------------
LEMMA InitLocation == Init => LocationInv
<1> SUFFICES ASSUME Init PROVE LocationInv
  OBVIOUS
<1> USE DEF Init
<1>1. TypeOK
  <2>1. saves \in 0 .. MaxSaves /\ crashes \in 0 .. MaxCrashes
    BY LocationAssumption
  <2> QED
    BY <2>1 DEF TypeOK
<1>2. Active = {} /\ \A w \in Writers : ~Busy(w)
  BY DEF Active, Rows, Busy
<1>3. /\ OneActive /\ Sole /\ Orderly /\ Deselecting /\ Deleting
      /\ HandlerCommits /\ CopyTrue
  BY <1>2 DEF OneActive, Sole, Orderly, Deselecting, Deleting, HandlerCommits, CopyTrue,
         Writers
<1> QED
  BY <1>1, <1>3 DEF LocationInv

LEMMA OffType ==
    ASSUME TypeOK, NEW rows \in SUBSET Ids
    PROVE  /\ Off(rows) \in [Ids -> Row \cup {None}]
           /\ \A i \in Ids :
                  /\ Off(rows)[i] = None <=> locations[i] = None
                  /\ i \in rows /\ Off(rows)[i] # None => ~Off(rows)[i].active
                  /\ i \notin rows => Off(rows)[i] = locations[i]
                  /\ Off(rows)[i] # None => Off(rows)[i].place = locations[i].place
<1> SUFFICES ASSUME NEW i \in Ids
             PROVE  /\ Off(rows)[i] \in Row \cup {None}
                    /\ Off(rows)[i] = None <=> locations[i] = None
                    /\ i \in rows /\ Off(rows)[i] # None => ~Off(rows)[i].active
                    /\ i \notin rows => Off(rows)[i] = locations[i]
                    /\ Off(rows)[i] # None => Off(rows)[i].place = locations[i].place
  BY DEF Off
<1>1. locations[i] \in Row \cup {None}
  BY DEF TypeOK
<1>2. CASE i \in rows /\ locations[i] # None
  <2>1. Off(rows)[i] = [locations[i] EXCEPT !.active = FALSE]
    BY <1>2 DEF Off
  <2>2. locations[i] \in Row
    BY <1>1, <1>2
  <2>3. /\ [locations[i] EXCEPT !.active = FALSE] \in Row
        /\ [locations[i] EXCEPT !.active = FALSE].active = FALSE
        /\ [locations[i] EXCEPT !.active = FALSE].place = locations[i].place
    BY <2>2 DEF Row
  <2>4. [locations[i] EXCEPT !.active = FALSE] # None
    BY <2>3, NoneIsNoRow
  <2> QED
    BY <1>2, <2>1, <2>3, <2>4
<1>3. CASE i \notin rows \/ locations[i] = None
  BY <1>1, <1>3 DEF Off
<1> QED
  BY <1>2, <1>3
------------------------------------------------------------------------------
(* Steps of a writer, by name. *)
Steps(w) ==
    \/ Select(w) \/ Deselected(w) \/ Write(w) \/ Commit(w) \/ DeleteRow(w) \/ Abort(w)
    \/ \E i \in Ids : Deselect(w, i)

Begins(w) ==
    \E i \in Ids, row \in Row :
        \/ Begin(w, i, row, FirstStep(row)) /\ UNCHANGED locations
        \/ locations[i] = row /\ Begin(w, i, row, "delete") /\ UNCHANGED locations

(* However a writer begins, it is with a row and its first step. *)
LEMMA NextCases ==
    ASSUME TypeOK, Next
    PROVE  \/ \E w \in Writers : Begins(w) /\ used' \in SUBSET Ids
           \/ \E w \in Writers : Steps(w)
           \/ Restart \/ Crash
<1>1. \A i \in Rows : i \in Ids /\ locations[i] \in Row
  BY DEF Rows, TypeOK
<1>2. ASSUME NEW w \in Writers, NEW row \in Row, Add(w, row)
      PROVE  Begins(w) /\ used' \in SUBSET Ids
  BY <1>2 DEF Add, Begins, TypeOK
<1>3. ASSUME NEW w \in Writers, NEW i \in Ids, NEW row \in Row, Change(w, i, row)
      PROVE  Begins(w) /\ used' \in SUBSET Ids
  BY <1>3 DEF Change, Begins, TypeOK, table
<1>4. ASSUME NEW w \in Writers, NEW i \in Ids, Delete(w, i)
      PROVE  Begins(w) /\ used' \in SUBSET Ids
  BY <1>1, <1>4 DEF Delete, Begins, TypeOK, table
<1>5. Handler \in Writers /\ Admins \subseteq Writers
  BY DEF Writers
<1>6. ASSUME NEW p \in Places, Locate(p)
      PROVE  \E w \in Writers : Begins(w) /\ used' \in SUBSET Ids
  <2>1. [active |-> TRUE, place |-> p] \in Row
    BY DEF Row
  <2> QED
    BY <1>1, <1>2, <1>3, <1>5, <1>6, <2>1 DEF Locate, Active
<1>7. Redescribe => \E w \in Writers : Begins(w) /\ used' \in SUBSET Ids
  BY <1>1, <1>3, <1>5 DEF Redescribe, Active
<1> QED
  BY <1>2, <1>3, <1>4, <1>5, <1>6, <1>7 DEF Next, Steps

LEMMA BeginsLocation ==
    ASSUME LocationInv, NEW w \in Writers, Begins(w), used' \in SUBSET Ids
    PROVE  LocationInv'
<1>1. PICK i \in Ids, row \in Row, step \in {"select", "write", "delete"} :
          /\ Begin(w, i, row, step)
          /\ step = "write" => ~row.active
          /\ step = "delete" => locations[i] = row
          /\ UNCHANGED locations
  BY DEF Begins, FirstStep
<1> DEFINE new == [id |-> i, row |-> row, todo |-> {}, off |-> {}, step |-> step]
<1>2. new \in Writing /\ new # None
  BY NoneIsNoRow DEF Writing
<1>3. /\ new.id = i /\ new.row = row /\ new.step = step /\ new.off = {}
      /\ writer' = [writer EXCEPT ![w] = new]
  BY <1>1 DEF Begin
<1> HIDE DEF new
<1>4. writer' \in [Writers -> Writing \cup {None}] /\ writer'[w] = new
  BY <1>2, <1>3 DEF LocationInv, TypeOK
<1>5. /\ ~Busy(w) /\ UNCHANGED <<location, crashes>>
      /\ saves < MaxSaves /\ saves' = saves + 1
      /\ \/ (\E v \in Writers : Busy(v)) /\ alone' = {} /\ raced' = TRUE
         \/ (\A v \in Writers : ~Busy(v)) /\ alone' = {w} /\ UNCHANGED raced
  BY <1>1 DEF Begin
<1>6. TypeOK'
  <2>1. saves' \in 0 .. MaxSaves
    BY <1>5, LocationAssumption DEF LocationInv, TypeOK
  <2> QED
    BY <1>1, <1>4, <1>5, <2>1 DEF LocationInv, TypeOK
<1>7. Active' = Active
  BY <1>1 DEF Active, Rows
<1>8. OneActive'
  BY <1>5, <1>7 DEF LocationInv, OneActive
<1>9. \A v \in Writers : v # w => writer'[v] = writer[v]
  BY <1>3 DEF LocationInv, TypeOK
<1>10. Sole' /\ Orderly'
  BY <1>2, <1>4, <1>5, <1>9 DEF Sole, Orderly, Busy
<1>11. Deselecting' /\ Deleting'
  BY <1>1, <1>3, <1>4, <1>5 DEF Deselecting, Deleting
<1>12. CopyTrue'
  BY <1>1, <1>5, <1>7 DEF LocationInv, CopyTrue
<1>13. HandlerCommits'
  BY <1>3, <1>4, <1>9 DEF LocationInv, HandlerCommits, Busy, Writers
<1> QED
  BY <1>6, <1>8, <1>10, <1>11, <1>12, <1>13 DEF LocationInv
------------------------------------------------------------------------------
(* The step of SaveRepairs. *)
Repairs ==
    \A w \in alone :
        /\ writer[w].row.active /\ writer[w].step \in {"write", "commit"}
        /\ writer'[w] = None /\ crashes' = crashes
        => /\ {i \in Ids : locations'[i] # None /\ locations'[i].active} = {writer[w].id}
           /\ location' = writer[w].row.place

LEMMA BeginsRepairs ==
    ASSUME LocationInv, NEW w \in Writers, Begins(w) PROVE Repairs
<1>1. /\ ~Busy(w)
      /\ \A v \in Writers : v # w => writer'[v] = writer[v]
  BY DEF Begins, Begin, LocationInv, TypeOK
<1> QED
  BY <1>1 DEF Repairs, LocationInv, Sole, Busy, TypeOK

(* A writer goes on: what it has come to decides. *)
LEMMA GoesOn ==
    ASSUME LocationInv, NEW w \in Writers, Busy(w), NEW s \in Writing,
           writer' = [writer EXCEPT ![w] = s],
           UNCHANGED <<used, alone, raced, saves, crashes>>,
           locations' \in [Ids -> Row \cup {None}],
           location' \in Places \cup {Definition, None},
           s.step # "delete",
           w = Handler /\ s.step = "write" => s.off = {},
           w \in alone => /\ s.row.active /\ s.step = "deselect" =>
                                 Active' \ {s.id} \subseteq s.todo \cup s.off
                          /\ s.row.active /\ s.step \in {"write", "commit"} =>
                                 Active' \ {s.id} \subseteq s.off
                          /\ s.row.active /\ s.step = "commit" => location' = s.row.place
                          /\ ~(s.row.active /\ s.step = "commit") =>
                                 raced \/ \A i \in Active' : location' = locations'[i].place,
           Active' \subseteq Active
    PROVE  LocationInv' /\ Repairs
<1>1. TypeOK'
  BY DEF LocationInv, TypeOK
<1>2. /\ writer'[w] = s /\ s # None
      /\ \A v \in Writers : v # w => writer'[v] = writer[v]
  BY NoneIsNoRow DEF LocationInv, TypeOK
<1>3. \A v \in Writers : Busy(v)' <=> Busy(v)
  BY <1>2 DEF Busy
<1>4. OneActive'
  BY DEF LocationInv, OneActive
<1>5. Sole' /\ Orderly'
  BY <1>3 DEF LocationInv, Sole, Orderly
<1>6. \A v \in alone : v = w
  BY DEF LocationInv, Sole
<1>7. Deselecting' /\ Deleting'
  BY <1>2, <1>6 DEF Deselecting, Deleting
<1>8. CopyTrue'
  BY <1>2, <1>3 DEF LocationInv, CopyTrue, Orderly
<1>9. Repairs
  BY <1>2, <1>6 DEF Repairs
<1>10. HandlerCommits'
  BY <1>2, <1>3 DEF LocationInv, HandlerCommits, Writers
<1> QED
  BY <1>1, <1>4, <1>5, <1>7, <1>8, <1>9, <1>10 DEF LocationInv

(* A writer that is not alone is one of several in a race. *)
LEMMA AloneOrRaced ==
    ASSUME LocationInv, NEW w \in Writers, Busy(w)
    PROVE  /\ w \in alone \/ (raced /\ alone = {})
           /\ w \in alone => alone = {w} /\ \A v \in Writers : Busy(v) => v = w
           /\ writer[w] \in Writing
  BY DEF LocationInv, Sole, Orderly, TypeOK, Busy

LEMMA SelectLocation ==
    ASSUME LocationInv, NEW w \in Writers, Select(w) PROVE LocationInv' /\ Repairs
<1> DEFINE s == [writer[w] EXCEPT !.step = "deselect", !.todo = Active \ {writer[w].id}]
<1>1. /\ Busy(w) /\ writer[w].step = "select"
      /\ UNCHANGED <<locations, used, location, alone, raced, saves, crashes>>
  BY DEF Select, table
<1>2. writer[w] \in Writing /\ Active \in SUBSET Ids
  BY <1>1, AloneOrRaced DEF Active, Rows
<1>3. writer' = [writer EXCEPT ![w] = s]
  BY <1>1 DEF Select, LocationInv, TypeOK
<1>4. /\ s \in Writing /\ s.step = "deselect" /\ s.todo = Active \ {s.id}
  BY <1>2 DEF Writing
<1> HIDE DEF s
<1>5. Active' = Active /\ \A i \in Active' : locations'[i].place = locations[i].place
  BY <1>1 DEF Active, Rows
<1>6. w \in alone => raced \/ \A i \in Active' : location' = locations'[i].place
  BY <1>1, <1>5, AloneOrRaced DEF LocationInv, CopyTrue
<1>7. locations' \in [Ids -> Row \cup {None}] /\ location' \in Places \cup {Definition, None}
  BY <1>1 DEF LocationInv, TypeOK
<1> QED
  BY <1>1, <1>3, <1>4, <1>5, <1>6, <1>7, GoesOn

LEMMA DeselectLocation ==
    ASSUME LocationInv, NEW w \in Writers, NEW i \in Ids, Deselect(w, i)
    PROVE  LocationInv' /\ Repairs
<1> DEFINE off == IF i \in Active THEN writer[w].off \cup {i} ELSE writer[w].off
           s == [writer[w] EXCEPT !.todo = writer[w].todo \ {i}, !.off = off]
<1>1. /\ Busy(w) /\ writer[w].step = "deselect"
      /\ UNCHANGED <<locations, used, location, alone, raced, saves, crashes>>
  BY DEF Deselect, table
<1>2. writer[w] \in Writing
  BY <1>1, AloneOrRaced
<1>3. writer' = [writer EXCEPT ![w] = s]
  BY <1>1, <1>2 DEF Deselect, LocationInv, TypeOK, Writing
<1>4. /\ s \in Writing /\ s.step = "deselect" /\ s.id = writer[w].id
      /\ s.row = writer[w].row
      /\ s.todo = writer[w].todo \ {i} /\ s.off = off
  BY <1>1, <1>2 DEF Writing
<1> HIDE DEF s
<1>5. Active' = Active /\ \A j \in Active' : locations'[j].place = locations[j].place
  BY <1>1 DEF Active, Rows
<1>6. w \in alone => raced \/ \A j \in Active' : location' = locations'[j].place
  BY <1>1, <1>5, AloneOrRaced DEF LocationInv, CopyTrue
<1>7. w \in alone /\ s.row.active => Active' \ {s.id} \subseteq s.todo \cup s.off
  BY <1>1, <1>4, <1>5 DEF LocationInv, Deselecting
<1>8. locations' \in [Ids -> Row \cup {None}] /\ location' \in Places \cup {Definition, None}
  BY <1>1 DEF LocationInv, TypeOK
<1> QED
  BY <1>1, <1>3, <1>4, <1>5, <1>6, <1>7, <1>8, GoesOn

LEMMA DeselectedLocation ==
    ASSUME LocationInv, NEW w \in Writers, Deselected(w) PROVE LocationInv' /\ Repairs
<1>1. /\ Busy(w) /\ writer[w].step = "deselect" /\ writer[w].todo = {}
      /\ UNCHANGED <<used, location, alone, raced, saves, crashes>>
  BY DEF Deselected
<1>2. writer[w] \in Writing
  BY <1>1, AloneOrRaced
<1>3. w \in alone => raced \/ \A i \in Active : location = locations[i].place
  BY <1>1, AloneOrRaced DEF LocationInv, CopyTrue
<1>4. w \in alone /\ writer[w].row.active => Active \ {writer[w].id} \subseteq writer[w].off
  BY <1>1 DEF LocationInv, Deselecting
<1>5. CASE w = Handler
  <2> DEFINE s == [writer[w] EXCEPT !.step = "write", !.off = {}]
  <2>1. writer' = [writer EXCEPT ![w] = s] /\ locations' = Off(writer[w].off)
    BY <1>5 DEF Deselected, LocationInv, TypeOK
  <2>2. /\ s \in Writing /\ s.step = "write" /\ s.id = writer[w].id
        /\ s.row = writer[w].row /\ s.off = {}
    BY <1>2 DEF Writing
  <2> HIDE DEF s
  <2>3. writer[w].off \in SUBSET Ids
    BY <1>2 DEF Writing
  <2>4. /\ locations' \in [Ids -> Row \cup {None}]
        /\ Active' \subseteq Active \ writer[w].off
        /\ \A i \in Active' : locations'[i].place = locations[i].place
    BY <2>1, <2>3, OffType DEF LocationInv, Active, Rows
  <2>5. location' \in Places \cup {Definition, None}
    BY <1>1 DEF LocationInv, TypeOK
  <2>6. w \in alone => raced \/ \A i \in Active' : location' = locations'[i].place
    BY <1>1, <1>3, <2>4
  <2> QED
    BY <1>1, <1>4, <2>1, <2>2, <2>4, <2>5, <2>6, GoesOn
<1>6. CASE w # Handler
  <2> DEFINE s == [writer[w] EXCEPT !.step = "write"]
  <2>1. writer' = [writer EXCEPT ![w] = s] /\ UNCHANGED locations
    BY <1>6 DEF Deselected, Goes, LocationInv, TypeOK
  <2>2. /\ s \in Writing /\ s.step = "write" /\ s.id = writer[w].id
        /\ s.row = writer[w].row /\ s.off = writer[w].off
    BY <1>2 DEF Writing
  <2> HIDE DEF s
  <2>3. Active' = Active /\ \A i \in Active' : locations'[i].place = locations[i].place
    BY <2>1 DEF Active, Rows
  <2>4. /\ locations' \in [Ids -> Row \cup {None}]
        /\ location' \in Places \cup {Definition, None}
    BY <1>1, <2>1 DEF LocationInv, TypeOK
  <2>5. w \in alone => raced \/ \A i \in Active' : location' = locations'[i].place
    BY <1>1, <1>3, <2>3
  <2> QED
    BY <1>1, <1>4, <1>6, <2>1, <2>2, <2>3, <2>4, <2>5, GoesOn
<1> QED
  BY <1>5, <1>6
------------------------------------------------------------------------------
(* A writer ends: with no race left on record, the table and the copy are  *)
(* in order.                                                               *)
LEMMA Finishes ==
    ASSUME LocationInv, NEW w \in Writers, Busy(w), Ends(w),
           UNCHANGED <<used, saves, crashes>>,
           locations' \in [Ids -> Row \cup {None}],
           location' \in Places \cup {Definition, None},
           raced' \in BOOLEAN,
           ~raced' => /\ w \in alone
                      /\ \A i, j \in Active' : i = j
                      /\ \A i \in Active' : location' = locations'[i].place
    PROVE  LocationInv'
<1>1. writer' = [writer EXCEPT ![w] = None] /\ alone' = alone \ {w}
  BY DEF Ends
<1>2. alone' = {}
  BY <1>1, AloneOrRaced
<1>3. TypeOK'
  BY <1>1 DEF LocationInv, TypeOK
<1>4. OneActive' /\ CopyTrue'
  BY DEF OneActive, CopyTrue
<1>5. w \in alone => \A v \in Writers : ~Busy(v)'
  <2>1. \A v \in Writers : Busy(v)' => v # w /\ Busy(v)
    BY <1>1 DEF Busy, LocationInv, TypeOK
  <2> QED
    BY <2>1, AloneOrRaced
<1>6. Sole' /\ Orderly' /\ Deselecting' /\ Deleting'
  BY <1>2, <1>5 DEF Sole, Orderly, Deselecting, Deleting
<1>7. HandlerCommits'
  BY <1>1 DEF LocationInv, HandlerCommits, Busy, TypeOK, Writers
<1> QED
  BY <1>3, <1>4, <1>6, <1>7 DEF LocationInv

(* A save that nobody disturbed leaves its location as the active one, if  *)
(* it is active, and otherwise no more active ones than before.            *)
LEMMA SavesAlone ==
    ASSUME LocationInv, NEW w \in alone, Busy(w), writer[w].step \in {"write", "commit"},
           locations' = [Off(writer[w].off) EXCEPT ![writer[w].id] = writer[w].row]
    PROVE  /\ writer[w].row.active => Active' = {writer[w].id}
           /\ ~writer[w].row.active => Active' \subseteq Active \ {writer[w].id}
           /\ \A i \in Active' : i # writer[w].id => locations'[i].place = locations[i].place
           /\ locations' \in [Ids -> Row \cup {None}]
           /\ locations'[writer[w].id] = writer[w].row
<1>1. w \in Writers /\ writer[w] \in Writing
  BY AloneOrRaced DEF LocationInv, TypeOK
<1> DEFINE s == writer[w]
<1>2. /\ s.id \in Ids /\ s.row \in Row /\ s.row # None /\ s.off \in SUBSET Ids
  BY <1>1, NoneIsNoRow DEF Writing
<1>3. /\ locations' \in [Ids -> Row \cup {None}]
      /\ locations'[s.id] = s.row
      /\ \A i \in Ids : i # s.id =>
             /\ locations'[i] = None <=> locations[i] = None
             /\ i \in s.off /\ locations'[i] # None => ~locations'[i].active
             /\ i \notin s.off => locations'[i] = locations[i]
             /\ locations'[i] # None => locations'[i].place = locations[i].place
  BY <1>2, OffType DEF LocationInv
<1>4. s.row.active => Active \ {s.id} \subseteq s.off
  BY DEF LocationInv, Deselecting
<1> HIDE DEF s
<1>5. Active' \ {s.id} \subseteq Active \ s.off
  BY <1>3 DEF Active, Rows
<1>6. s.id \in Active' <=> s.row.active
  BY <1>2, <1>3 DEF Active, Rows
<1>7. \A i \in Active' : i # s.id => locations'[i].place = locations[i].place
  BY <1>3 DEF Active, Rows
<1> QED
  BY <1>3, <1>4, <1>5, <1>6, <1>7 DEF s

(* What a save wrote is true of the copy, once its signal has been heard.  *)
LEMMA EndOfSave ==
    ASSUME LocationInv, NEW w \in Writers, Busy(w), writer[w].step \in {"write", "commit"},
           Ends(w), Repaired(w),
           UNCHANGED <<used, saves, crashes>>,
           locations' = [Off(writer[w].off) EXCEPT ![writer[w].id] = writer[w].row],
           location' = IF writer[w].row.active THEN writer[w].row.place ELSE location
    PROVE  LocationInv' /\ Repairs
<1>1. writer[w] \in Writing
  BY AloneOrRaced
<1>2. /\ locations' \in [Ids -> Row \cup {None}]
      /\ location' \in Places \cup {Definition, None}
      /\ raced' \in BOOLEAN
  <2>1. Off(writer[w].off) \in [Ids -> Row \cup {None}]
    BY <1>1, OffType DEF Writing, LocationInv
  <2> QED
    BY <1>1, <2>1 DEF Writing, Row, Repaired, LocationInv, TypeOK
<1>3. ASSUME w \in alone, writer[w].row.active
      PROVE  /\ Active' = {writer[w].id} /\ location' = writer[w].row.place
             /\ \A i \in Active' : location' = locations'[i].place
  BY <1>3, SavesAlone
<1>4. ASSUME ~raced'
      PROVE  /\ w \in alone
             /\ \A i, j \in Active' : i = j
             /\ \A i \in Active' : location' = locations'[i].place
  <2>1. w \in alone
    BY <1>4, AloneOrRaced DEF Repaired
  <2>2. CASE writer[w].row.active
    BY <1>3, <2>1, <2>2
  <2>3. CASE ~writer[w].row.active
    <3>1. ~raced
      BY <1>4, <2>3 DEF Repaired
    <3>2. \A i, j \in Active : i = j
      BY <3>1 DEF LocationInv, OneActive
    <3>3. \A i \in Active : location = locations[i].place
      BY <2>1, <2>3, <3>1, AloneOrRaced DEF LocationInv, CopyTrue
    <3> QED
      BY <2>1, <2>3, <3>2, <3>3, SavesAlone
  <2> QED
    BY <2>2, <2>3
<1>5. LocationInv'
  BY <1>2, <1>4, Finishes
<1>6. Repairs
  <2>1. \A v \in alone : v = w
    BY AloneOrRaced
  <2>2. {i \in Ids : locations'[i] # None /\ locations'[i].active} = Active'
    BY DEF Active, Rows
  <2> QED
    BY <1>3, <2>1, <2>2 DEF Repairs
<1> QED
  BY <1>5, <1>6

LEMMA WriteLocation ==
    ASSUME LocationInv, NEW w \in Writers, Write(w) PROVE LocationInv' /\ Repairs
<1>1. /\ Busy(w) /\ writer[w].step = "write"
      /\ UNCHANGED <<used, saves, crashes>>
      /\ location' = IF writer[w].row.active THEN writer[w].row.place ELSE location
  BY DEF Write, Signal
<1>2. writer[w] \in Writing
  BY <1>1, AloneOrRaced
<1>3. CASE w = Handler
  <2>1. writer[w].off = {}
    BY <1>1, <1>3 DEF LocationInv, HandlerCommits
  <2>2. Off(writer[w].off) = locations
    BY <2>1 DEF Off, LocationInv, TypeOK
  <2>3. /\ locations' = [Off(writer[w].off) EXCEPT ![writer[w].id] = writer[w].row]
        /\ Ends(w) /\ Repaired(w)
    BY <1>3, <2>2 DEF Write
  <2> QED
    BY <1>1, <2>3, EndOfSave
<1>4. CASE w # Handler
  <2> DEFINE s == [writer[w] EXCEPT !.step = "commit"]
  <2>1. /\ writer' = [writer EXCEPT ![w] = s]
        /\ UNCHANGED <<locations, alone, raced>>
    BY <1>4 DEF Write, Goes, LocationInv, TypeOK
  <2>2. /\ s \in Writing /\ s.step = "commit" /\ s.id = writer[w].id
        /\ s.row = writer[w].row /\ s.off = writer[w].off
    BY <1>2 DEF Writing
  <2> HIDE DEF s
  <2>3. Active' = Active /\ \A i \in Active' : locations'[i].place = locations[i].place
    BY <2>1 DEF Active, Rows
  <2>4. /\ locations' \in [Ids -> Row \cup {None}]
        /\ location' \in Places \cup {Definition, None}
    BY <1>1, <1>2, <2>1 DEF LocationInv, TypeOK, Writing, Row
  <2>5. w \in alone /\ ~s.row.active =>
            raced \/ \A i \in Active' : location' = locations'[i].place
    BY <1>1, <2>2, <2>3, AloneOrRaced DEF LocationInv, CopyTrue
  <2>6. w \in alone /\ s.row.active =>
            Active' \ {s.id} \subseteq s.off /\ location' = s.row.place
    BY <1>1, <2>2, <2>3 DEF LocationInv, Deselecting
  <2> QED
    BY <1>1, <2>1, <2>2, <2>3, <2>4, <2>5, <2>6, GoesOn
<1> QED
  BY <1>3, <1>4

LEMMA CommitLocation ==
    ASSUME LocationInv, NEW w \in Writers, Commit(w) PROVE LocationInv' /\ Repairs
<1>1. /\ Busy(w) /\ writer[w].step = "commit" /\ Ends(w) /\ Repaired(w)
      /\ UNCHANGED <<used, location, saves, crashes>>
      /\ locations' = [Off(writer[w].off) EXCEPT ![writer[w].id] = writer[w].row]
  BY DEF Commit
<1>2. CASE w \in alone
  <2>1. location' = IF writer[w].row.active THEN writer[w].row.place ELSE location
    BY <1>1, <1>2 DEF LocationInv, Deselecting
  <2> QED
    BY <1>1, <2>1, EndOfSave
<1>3. CASE w \notin alone
  <2>1. raced /\ alone = {}
    BY <1>1, <1>3, AloneOrRaced
  <2>2. raced' = raced
    BY <1>1, <1>3 DEF Repaired
  <2>3. writer[w] \in Writing
    BY <1>1, AloneOrRaced
  <2>4. locations' \in [Ids -> Row \cup {None}]
    <3>1. Off(writer[w].off) \in [Ids -> Row \cup {None}]
      BY <2>3, OffType DEF Writing, LocationInv
    <3> QED
      BY <1>1, <2>3, <3>1 DEF Writing
  <2>5. location' \in Places \cup {Definition, None} /\ raced' \in BOOLEAN
    BY <1>1, <2>2 DEF LocationInv, TypeOK
  <2>6. LocationInv'
    BY <1>1, <2>1, <2>2, <2>4, <2>5, Finishes
  <2>7. Repairs
    BY <2>1 DEF Repairs
  <2> QED
    BY <2>6, <2>7
<1> QED
  BY <1>2, <1>3

(* A deletion takes the copy with the active location. *)
LEMMA DeleteRowLocation ==
    ASSUME LocationInv, NEW w \in Writers, DeleteRow(w) PROVE LocationInv' /\ Repairs
<1> DEFINE s == writer[w]
<1>1. /\ Busy(w) /\ s.step = "delete" /\ Ends(w)
      /\ UNCHANGED <<used, raced, saves, crashes>>
      /\ locations' = [locations EXCEPT ![s.id] = None]
      /\ location' = IF s.row.active THEN None ELSE location
  BY DEF DeleteRow
<1>2. s.id \in Ids /\ s.row \in Row
  BY <1>1, AloneOrRaced DEF Writing
<1>3. /\ locations' \in [Ids -> Row \cup {None}]
      /\ location' \in Places \cup {Definition, None}
      /\ raced' \in BOOLEAN
  BY <1>1 DEF LocationInv, TypeOK
<1>4. /\ Active' = Active \ {s.id}
      /\ \A i \in Active' : locations'[i] = locations[i]
  BY <1>1, <1>2 DEF LocationInv, TypeOK, Active, Rows
<1>5. ASSUME ~raced
      PROVE  /\ w \in alone
             /\ \A i, j \in Active' : i = j
             /\ \A i \in Active' : location' = locations'[i].place
  <2>1. w \in alone
    BY <1>1, <1>5, AloneOrRaced
  <2>2. locations[s.id] = s.row
    BY <1>1, <2>1 DEF LocationInv, Deleting
  <2>3. \A i, j \in Active : i = j
    BY <1>5 DEF LocationInv, OneActive
  <2>4. s.row.active => Active' = {}
    BY <1>2, <1>4, <2>2, <2>3, NoneIsNoRow DEF Active, Rows
  <2>5. \A i \in Active : location = locations[i].place
    BY <1>1, <1>5, <2>1, AloneOrRaced DEF LocationInv, CopyTrue
  <2> QED
    BY <1>1, <1>4, <2>1, <2>3, <2>4, <2>5
<1>6. LocationInv'
  BY <1>1, <1>3, <1>5, Finishes
<1>7. Repairs
  BY <1>1, AloneOrRaced DEF Repairs
<1> QED
  BY <1>6, <1>7

(* PostgreSQL aborts only a writer that waits for another. *)
LEMMA AbortLocation ==
    ASSUME LocationInv, NEW w \in Writers, Abort(w) PROVE LocationInv' /\ Repairs
<1>1. /\ Busy(w) /\ Ends(w)
      /\ UNCHANGED <<locations, used, location, raced, saves, crashes>>
      /\ \E v \in Writers \ {w} : Busy(v)
  BY DEF Abort, Locked, table
<1>2. raced /\ alone = {}
  BY <1>1, AloneOrRaced
<1>3. /\ locations' \in [Ids -> Row \cup {None}]
      /\ location' \in Places \cup {Definition, None}
      /\ raced' \in BOOLEAN
  BY <1>1 DEF LocationInv, TypeOK
<1>4. LocationInv'
  BY <1>1, <1>2, <1>3, Finishes
<1>5. Repairs
  BY <1>2 DEF Repairs
<1> QED
  BY <1>4, <1>5

(* A new process copies the active location, if there is just one.         *)
LEMMA RebootLocation ==
    ASSUME LocationInv, Reboot, crashes' \in 0 .. MaxCrashes,
           crashes' = crashes => \A w \in Writers : ~Busy(w)
    PROVE  LocationInv' /\ Repairs
<1>1. /\ writer' = [w \in Writers |-> None] /\ alone' = {}
      /\ UNCHANGED <<locations, used, raced, saves>>
      /\ \/ \E i \in Active : Active = {i} /\ location' = locations[i].place
         \/ (\A i \in Active : Active # {i}) /\ location' = Definition
  BY DEF Reboot, table
<1>2. \A w \in Writers : ~Busy(w)'
  BY <1>1 DEF Busy
<1>3. Active' = Active /\ \A i \in Active : locations[i].place \in Places
  BY <1>1 DEF Active, Rows, LocationInv, TypeOK, Row
<1>4. TypeOK'
  BY <1>1, <1>3 DEF LocationInv, TypeOK
<1>5. OneActive'
  BY <1>1, <1>3 DEF LocationInv, OneActive
<1>6. CopyTrue'
  <2> SUFFICES ASSUME ~raced, NEW i \in Active PROVE location' = locations[i].place
    BY <1>1, <1>3 DEF CopyTrue
  <2>1. Active = {i}
    BY DEF LocationInv, OneActive
  <2> QED
    BY <1>1, <2>1
<1>7. Sole' /\ Orderly' /\ Deselecting' /\ Deleting' /\ HandlerCommits'
  BY <1>1, <1>2 DEF Sole, Orderly, Deselecting, Deleting, HandlerCommits, Writers
<1>8. Repairs
  BY DEF Repairs, LocationInv, Sole, TypeOK
<1> QED
  BY <1>4, <1>5, <1>6, <1>7, <1>8 DEF LocationInv
------------------------------------------------------------------------------
LEMMA NextLocation ==
    LocationInv /\ [Next]_vars => LocationInv' /\ (Next => Repairs)
<1> SUFFICES ASSUME LocationInv, [Next]_vars PROVE LocationInv' /\ (Next => Repairs)
  OBVIOUS
<1>1. ASSUME NEW w \in Writers, Begins(w), used' \in SUBSET Ids
      PROVE  LocationInv' /\ Repairs
  BY <1>1, BeginsLocation, BeginsRepairs
<1>2. ASSUME NEW w \in Writers, Steps(w) PROVE LocationInv' /\ Repairs
  BY <1>2, SelectLocation, DeselectLocation, DeselectedLocation, WriteLocation,
     CommitLocation, DeleteRowLocation, AbortLocation DEF Steps
<1>3. CASE Restart \/ Crash
  <2>1. Reboot /\ crashes' \in 0 .. MaxCrashes
    BY <1>3, LocationAssumption DEF Restart, Crash, LocationInv, TypeOK
  <2>2. crashes' = crashes => \A w \in Writers : ~Busy(w)
    BY <1>3 DEF Restart, Crash, LocationInv, TypeOK
  <2> QED
    BY <2>1, <2>2, RebootLocation
<1>4. CASE Next
  BY <1>1, <1>2, <1>3, <1>4, NextCases DEF LocationInv
<1>5. CASE UNCHANGED vars
  <2>1. LocationInv'
    BY <1>5 DEF vars, table, LocationInv, TypeOK, OneActive, Sole, Orderly, Deselecting,
           Deleting, HandlerCommits, CopyTrue, Active, Rows, Busy
  <2> QED
    BY <1>4, <2>1
<1> QED
  BY <1>4, <1>5

LEMMA LocationInvariant == Spec => []LocationInv
  BY InitLocation, NextLocation, PTL DEF Spec

(* Types, for any number of administrators and keys. *)
THEOREM LocationTypes == Spec => []TypeOK
<1>1. LocationInv => TypeOK
  BY DEF LocationInv
<1> QED
  BY <1>1, LocationInvariant, PTL

(* One location at most is active, whatever crashes come between the two   *)
(* statements of a save, unless two saves overlapped (models.py, save).    *)
THEOREM OneLocationActive == Spec => []OneActive
<1>1. LocationInv => OneActive
  BY DEF LocationInv
<1> QED
  BY <1>1, LocationInvariant, PTL

(* When no save is under way, the sensor's copy is of the active location, *)
(* and again after a restart (location_handler.py; apps.py, ready).        *)
THEOREM CopyOfActive == Spec => []CopyIsActive
<1>1. LocationInv => CopyIsActive
  BY DEF LocationInv, CopyTrue, CopyIsActive
<1> QED
  BY <1>1, LocationInvariant, PTL

(* The next save of an active location that no other overlaps repairs what *)
(* overlapping saves and crashes have left (models.py, save).              *)
THEOREM SavesRepair == Spec => SaveRepairs
<1>1. LocationInv /\ [Next]_vars =>
          [\A w \in alone :
               /\ writer[w].row.active /\ writer[w].step \in {"write", "commit"}
               /\ writer'[w] = None /\ crashes' = crashes
               => /\ {i \in Ids : locations'[i] # None /\ locations'[i].active}
                        = {writer[w].id}
                  /\ location' = writer[w].row.place]_vars
  BY NextLocation DEF Repairs
<1> QED
  BY <1>1, LocationInvariant, PTL DEF Spec, SaveRepairs
==============================================================================

---------------------------- MODULE IntakeScreen ----------------------------
(* The rules the intake form runs in the browser (farmer-intake-rules.js):  *)
(* the pair of dates, the size of a household, the photo and the names of   *)
(* the files in a dialog table.  An edit queues its rule behind the event   *)
(* that React handles first (a timer of 0 ms), what a rule writes is an     *)
(* edit again, and images are read and resized in the background.  The four *)
(* share no state: "part" says which of them is looked at.                  *)
EXTENDS Integers, Sequences, FiniteSets

CONSTANTS MaxTimers,  \* the edits that may wait for their rule
          MaxJobs,    \* the images being read at a time
          MaxRows     \* the rows of a dialog table

VARIABLES part,
          box,      \* what the inputs hold
          auto,     \* farAuto of the dates; hhAutoFilled, hhAutoValue
          timers,   \* the edits whose rule is still to run, in order
          flagged,  \* the messages of the household section
          jobs,     \* images being probed or shrunk
          photo,    \* [input, widget]: picked, and shown by the widget
          rows,     \* the file of every row of the table
          names,    \* rowFileNames: the name remembered for a row
          dialog,   \* [row, pick] of the open dialog, row 0 when closed
          pending,  \* pendingRowName: [row, name], row 0 when there is none
          last,     \* the file picked last, in any dialog
          shown,    \* what the cells of the table read
          removed   \* whether a row was removed since the page was loaded

dates == <<box, auto, timers>>
files == <<rows, names, dialog, pending, last, shown, removed>>
vars == <<part, dates, flagged, jobs, photo, files>>

Empty == -9
Partial == -8  \* still being typed
NoName == "none"  \* no file, and no name remembered for one
Unreal == -7   \* of the right shape, but no day of the calendar

----------------------------------------------------------------------------
\* The enumerator types; the rule of the field is queued.
Type(f, v) ==
    /\ Len(timers) < MaxTimers
    /\ box[f] # v
    /\ box' = [box EXCEPT ![f] = v]
    /\ timers' = Append(timers, f)
    /\ UNCHANGED <<auto, flagged>>

TypeDate == \E f \in {"gc", "ec"}, v \in {Empty, Partial, Unreal, 1, 2} : Type(f, v)

\* syncPair for the head of the queue.  A write of the rule is an event as
\* well, whose own rule takes the other direction later.
Fill(other, v, rest, by) ==
    /\ box' = [box EXCEPT ![other] = v]
    /\ auto' = [auto EXCEPT ![other] = by, ![Head(timers)] = FALSE]
    /\ timers' = Append(rest, other)
SyncPair ==
    /\ timers # <<>>
    /\ LET changed == Head(timers)
           other == IF changed = "gc" THEN "ec" ELSE "gc"
           v == box[changed]
           clears == v = Empty /\ box[other] # Empty /\ auto[other]
           derives == v > 0 /\ box[other] # v
       IN IF clears THEN Fill(other, Empty, Tail(timers), TRUE)
          ELSE IF derives THEN Fill(other, v, Tail(timers), TRUE)
          ELSE /\ auto' = [auto EXCEPT ![changed] = FALSE]
               /\ timers' = Tail(timers)
               /\ UNCHANGED box
    /\ UNCHANGED flagged

----------------------------------------------------------------------------
Counts == {"male", "female", "children", "size"}
TypeCount == \E f \in Counts, v \in {Empty, -1, 0, 1} : Type(f, v)

Or0(v) == IF v = Empty THEN 0 ELSE v
Problems(b) ==
    {p \in {"size", "children"} :
        \/ /\ p = "size" /\ Empty \notin {b.size, b.male, b.female}
           /\ b.size # b.male + b.female
        \/ p = "children" /\ Empty \notin {b.size, b.children} /\ b.children > b.size}

\* familySizeRule: fills the size while it is blank or of its own making, and
\* flags what the server will refuse.
FamilySizeRule ==
    /\ timers # <<>>
    /\ LET changed == Head(timers)
           counted == changed \in {"male", "female"} /\ {box.male, box.female} # {Empty}
           fills == counted /\ (box.size = Empty \/ auto.filled)
           sum == Or0(box.male) + Or0(box.female)
       IN /\ box' = IF fills THEN [box EXCEPT !.size = sum] ELSE box
          /\ auto' = IF fills THEN [filled |-> TRUE, value |-> sum]
                     ELSE IF changed = "size" /\ box.size # auto.value
                     THEN [auto EXCEPT !.filled = FALSE] ELSE auto
          /\ timers' = IF fills THEN Append(Tail(timers), "size") ELSE Tail(timers)
    /\ flagged' = Problems(box')

\* What the server accepts of the section.  Father Included and Mother Included
\* are boxes that no rule of the page looks at.
HouseholdSize(b, father, mother) ==
    /\ \A f \in Counts : b[f] = Empty \/ b[f] >= 0
    /\ Empty \in {b.size, b.male, b.female} \/ b.size = b.male + b.female
    /\ Empty \in {b.size, b.children} \/ b.children <= b.size
    /\ father => b.male = Empty \/ b.male >= 1
    /\ mother => b.female = Empty \/ b.female >= 1

\* Another record is opened in the same page: the fields are those of the
\* record, while the script's memory of what it filled in stays.
OpenRecord ==
    /\ timers = <<>>
    /\ \E b \in [Counts -> {Empty, 2}] : HouseholdSize(b, FALSE, FALSE) /\ box' = b
    /\ flagged' = {}
    /\ UNCHANGED <<auto, timers>>

----------------------------------------------------------------------------
\* A picked file: no image, one that cannot be read, a small one or a big one.
Files == {"document", "broken", "small", "big"}
Photos == {"small", "shrunk"}

\* photoChange: refuses what is no image, and keeps an image from the widget
\* until it has been read.
PickPhoto ==
    /\ Cardinality(jobs) < MaxJobs
    /\ \E f \in Files :
        IF f = "document"
        THEN photo' = [photo EXCEPT !.input = "none"] /\ UNCHANGED jobs
        ELSE /\ jobs' = jobs \cup {[file |-> f, at |-> "probe"]}
             /\ photo' = [photo EXCEPT !.input = f]

\* replaceFiles hands the checked file to the picker and so to the widget.
ReplaceFiles(f) == photo' = [input |-> f, widget |-> f]

Probed(j) ==
    /\ j.at = "probe"
    /\ IF j.file = "big"
       THEN jobs' = (jobs \ {j}) \cup {[j EXCEPT !.at = "shrink"]} /\ UNCHANGED photo
       ELSE /\ jobs' = jobs \ {j}
            /\ IF j.file = "broken" THEN photo' = [photo EXCEPT !.input = "none"]
               ELSE ReplaceFiles(j.file)

Shrunk(j) ==
    /\ j.at = "shrink"
    /\ jobs' = jobs \ {j}
    /\ ReplaceFiles("shrunk") \/ photo' = [photo EXCEPT !.input = "none"]

ReadImage == \E j \in jobs : Probed(j) \/ Shrunk(j)

----------------------------------------------------------------------------
Closed == [row |-> 0, pick |-> NoName]
Named == [row |-> 0, name |-> NoName]

\* A frame is drawn between the saving of one dialog and the next click.
OpenDialog ==
    /\ dialog = Closed /\ pending = Named
    /\ \E r \in 1..(Len(rows) + 1) : r <= MaxRows /\ dialog' = [row |-> r, pick |-> NoName]
    /\ UNCHANGED <<rows, names, pending, last, shown, removed>>

Choose ==
    /\ dialog # Closed
    /\ \E f \in {"a", "b"} : dialog' = [dialog EXCEPT !.pick = f] /\ last' = f
    /\ UNCHANGED <<rows, names, pending, shown, removed>>

CancelDialog ==
    /\ dialog # Closed /\ dialog' = Closed
    /\ UNCHANGED <<rows, names, pending, last, shown, removed>>

\* The library stores the row; the name waits for the row to be drawn.
SaveDialog ==
    /\ dialog # Closed /\ dialog' = Closed
    /\ LET r == dialog.row IN
       /\ rows' = IF r > Len(rows) THEN Append(rows, dialog.pick)
                  ELSE IF dialog.pick # NoName THEN [rows EXCEPT ![r] = dialog.pick] ELSE rows
       /\ names' = IF r > Len(rows) THEN Append(names, NoName) ELSE names
       /\ pending' = IF dialog.pick = NoName THEN pending ELSE [row |-> r, name |-> dialog.pick]
    /\ UNCHANGED <<last, shown, removed>>

\* Remove drops an unsaved row, and the script the names of all rows.
Remove ==
    /\ dialog = Closed /\ pending = Named
    /\ \E r \in DOMAIN rows :
        rows' = SubSeq(rows, 1, r - 1) \o SubSeq(rows, r + 1, Len(rows))
    /\ names' = [i \in 1..Len(rows') |-> NoName]
    /\ removed' = TRUE
    /\ UNCHANGED <<dialog, pending, last, shown>>

\* Mutant of FileCellNames: every cell reads the file that was picked last.
CellNamesLast ==
    /\ pending' = IF pending.row \in DOMAIN names THEN Named ELSE pending
    /\ shown' = [i \in DOMAIN rows |-> IF rows[i] = NoName THEN NoName ELSE last]
    /\ UNCHANGED <<rows, names, dialog, last, removed>>

\* fileCellNames, once the page was redrawn.
FileCellNames ==
    /\ names' = IF pending.row \in DOMAIN names
                THEN [names EXCEPT ![pending.row] = pending.name] ELSE names
    /\ pending' = IF pending.row \in DOMAIN names THEN Named ELSE pending
    /\ shown' = [i \in DOMAIN rows |->
                    IF rows[i] = NoName THEN NoName
                    ELSE IF names'[i] # NoName THEN names'[i] ELSE last]
    /\ UNCHANGED <<rows, dialog, last, removed>>

----------------------------------------------------------------------------
Init ==
    /\ part \in {"dates", "family", "photo", "rows"}
    /\ box = [f \in (IF part = "dates" THEN {"gc", "ec"} ELSE Counts) |-> Empty]
    /\ auto = IF part = "dates" THEN [f \in {"gc", "ec"} |-> FALSE]
              ELSE [filled |-> FALSE, value |-> Empty]
    /\ timers = <<>> /\ flagged = {} /\ jobs = {}
    /\ photo = [input |-> "none", widget |-> "none"]
    /\ rows = <<>> /\ names = <<>> /\ shown = <<>>
    /\ dialog = Closed /\ pending = Named /\ last = NoName /\ removed = FALSE

DateStep == TypeDate \/ SyncPair
FamilyStep == TypeCount \/ FamilySizeRule \/ OpenRecord
PhotoStep == PickPhoto \/ ReadImage
RowStep == OpenDialog \/ Choose \/ CancelDialog \/ SaveDialog \/ Remove \/ FileCellNames

Next ==
    /\ UNCHANGED part
    /\ \/ part = "dates" /\ DateStep /\ UNCHANGED <<jobs, photo, files>>
       \/ part = "family" /\ FamilyStep /\ UNCHANGED <<jobs, photo, files>>
       \/ part = "photo" /\ PhotoStep /\ UNCHANGED <<dates, flagged, files>>
       \/ part = "rows" /\ RowStep /\ UNCHANGED <<dates, flagged, jobs, photo>>

Spec == Init /\ [][Next]_vars

----------------------------------------------------------------------------
\* Every variable holds a value of its kind.
TypeOK ==
    /\ \A f \in DOMAIN box : box[f] \in -9..4
    /\ Len(timers) <= 2 * MaxTimers
    /\ flagged \subseteq {"size", "children"}
    /\ photo.widget \in Photos \cup {"none"}
    /\ Len(rows) <= MaxRows /\ Len(names) = Len(rows)

\* Once the rules of all edits have run, two whole dates name the same day,
\* in whatever order the edits and the rules they set off came.
PairAgrees ==
    part = "dates" /\ timers = <<>> /\ box.gc > 0 /\ box.ec > 0 => box.gc = box.ec

\* Until a row is removed, every row of a table shows the name of its own
\* file, however dialogs were opened, saved and cancelled before.
OwnName ==
    ~ removed /\ pending = Named /\ Len(shown) = Len(rows) =>
        \A i \in DOMAIN rows : shown[i] \in {rows[i], NoName}

\* Once the rules of all edits have run, a section with counts of people that
\* the server will refuse, for the size or the children, carries a message.
FamilyFlagged ==
    part = "family" /\ timers = <<>> /\ flagged = {}
        /\ (\A f \in Counts : box[f] = Empty \/ box[f] >= 0)
    => HouseholdSize(box, FALSE, FALSE)

=============================================================================

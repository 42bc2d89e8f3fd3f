--------------------------- MODULE ConfigManager ---------------------------
(***************************************************************************)
(* The configuration manager of btnx-config: the list of configurations    *)
(* (config_manager.c), the tree that shows it (tree_config.c), the editor  *)
(* that holds the values of the open configuration, and what lies on disk. *)
(*                                                                         *)
(* list      configs.name[0 .. count-1], in order                          *)
(* current   configs.current + 1; 0 stands for -1, "nothing is open"       *)
(* changed   configs.changed                                               *)
(* rows      the tree's rows; selecting one and pressing a button on it is *)
(*           one action, with the row r as its parameter                   *)
(* mem       whose values the editor's tables (buttons, mouse, revoco)     *)
(*           hold                                                          *)
(* looked    whether a button is selected (edit_rawcode # 0): "now", or    *)
(*           once "before", or "never" since Init                          *)
(* manager   /etc/btnx/btnx_manager (<<>>: no such file)                   *)
(* file      /etc/btnx/btnx_config_<name>, by whose values it holds        *)
(* legacy    whether the pre-0.4 file /etc/btnx/btnx_config is there       *)
(* archive   what the user's last backup holds of all that                 *)
(*                                                                         *)
(* The code knows a configuration by its name alone.  The model gives each *)
(* one an identity too (id), which no code reads: it says whose values a   *)
(* file or the editor holds, across renames.  "open" is the identity of    *)
(* the configuration the user opened or created last, and "dirty" says     *)
(* that the editor has edits no save or load has ended.  The values of a   *)
(* configuration are "stray" from the moment one of its buttons may have   *)
(* been given the settings another button was shown with.                  *)
(***************************************************************************)
EXTENDS Integers, Sequences, SequencesExt

CONSTANTS
  Names,      \* the configuration names in play
  Ids,        \* identities
  Fold,       \* Fold[n]: the name n with its case folded (strcasecmp)
  Suffixed,   \* Suffixed[b]: b, b1, b2, ... : what config_manager_new tries
  Typed,      \* the names the user may type
  Kills,      \* whether the process may be killed
  IOFails,    \* whether rename(), fopen(.., "w") and tar may fail
  Backups,    \* whether the user makes backups and restores them
  Looks,      \* whether the user selects buttons and detects new ones
  MaxConfigs, \* MAX_CONFIGS as the limit of g_strsplit; as the limit of the
              \* loop of config_manager_new it is the length of Suffixed[b]
  MaxRows,    \* a bound on the rows that stay when there is no manager file to restore
  NoId,       \* the identity of what is open when nothing is
  NoFile,     \* the contents of a file that does not exist
  Torn        \* the contents of a file whose writer was killed half way

Bases == {"New config", "Default", "old_config"}

ASSUME ConstantsOK ==
  /\ Fold \in [Names -> Names]
  /\ Typed \subseteq Names
  /\ \A b \in Bases : Suffixed[b] \in Seq(Names) /\ Len(Suffixed[b]) >= 2
  /\ Kills \in BOOLEAN /\ IOFails \in BOOLEAN /\ Backups \in BOOLEAN
  /\ Looks \in BOOLEAN
  /\ MaxConfigs \in Nat \ {0}
  /\ MaxRows \in Nat
  /\ {NoFile, Torn} \cap [of : Ids, stray : BOOLEAN] = {} /\ NoFile # Torn
  /\ NoId \notin Ids

VARIABLES status, x, list, current, changed, rows, mem, open, dirty, looked,
          manager, file, legacy, archive

editor == <<mem, open, dirty, changed, looked>>
disk   == <<manager, file, legacy>>
vars   == <<status, x, list, current, rows, editor, disk, archive>>

Config == [name : Names, id : Ids]
Row    == [name : Names, star : BOOLEAN, prio : Nat]
-----------------------------------------------------------------------------
(* The tree (tree_config.c). *)

ClearStars(rs) == [r \in 1..Len(rs) |-> [rs[r] EXCEPT !.star = FALSE]]

UpdatePrioritiesNot(rs) == rs
UpdatePriorities(rs) == [r \in 1..Len(rs) |-> [rs[r] EXCEPT !.prio = r]]

\* The first row whose name equals n but for case, 0 if none does.
FindRow(rs, n) == SelectInSeq(rs, LAMBDA row : Fold[row.name] = Fold[n])

StarredToo(rs, n) ==
  LET f == FindRow(rs, n)
  IN  [r \in 1..Len(rs) |-> [rs[r] EXCEPT !.star = (@ \/ r = f)]]
Starred(rs, n) ==
  LET f == FindRow(rs, n)
  IN  [r \in 1..Len(rs) |-> [rs[r] EXCEPT !.star = (r = f)]]

AddRow(rs, n, prio) ==
  Append(ClearStars(rs), [name |-> n, star |-> TRUE, prio |-> prio])

\* update_config: the row found under the old name gets the new name, the
\* star and the priority cur; nothing changes when no row is found.
RenameRow(rs, old, new, cur) ==
  LET f == FindRow(rs, old)
  IN  IF f = 0 THEN rs
      ELSE [ClearStars(rs) EXCEPT ![f] = [name |-> new, star |-> TRUE, prio |-> cur]]

\* A reordering moves configs.current with the configuration it is on.
FollowAlways(i, j) == j
Follow(i, j) == IF current = i THEN j ELSE current

Swap(s, i, j) == [s EXCEPT ![i] = s[j], ![j] = s[i]]
-----------------------------------------------------------------------------
(* The list (config_manager.c). *)

HasName(l, n) == \E i \in 1..Len(l) : l[i].name = n

\* config_manager_get_index, one-based; 0 if the name is not there.
GetIndex(l, n) == SelectInSeq(l, LAMBDA c : c.name = n)

InRange == current \in 1..Len(list)

\* The candidate config_manager_new ends with.  The last one is refused even
\* when it is free: the loop ends at MAX_CONFIGS and so does the check after it.
FreeNames(l, b) == {k \in 1..Len(Suffixed[b]) - 1 : ~HasName(l, Suffixed[b][k])}
FirstFree(l, b) ==
  Suffixed[b][CHOOSE k \in FreeNames(l, b) : \A j \in FreeNames(l, b) : k <= j]

\* The values of a configuration, as it was left by its user.
Pure(id) == [of |-> id, stray |-> FALSE]

Owners(vs) == {v.of : v \in vs \ {NoFile, Torn}}

\* An identity something refers to; of the others, what was known by them is gone.
UsedIds ==
  {list[i].id : i \in 1..Len(list)} \cup {manager[i].id : i \in 1..Len(manager)}
    \cup Owners({file[n] : n \in Names} \cup {mem}) \cup {open}
    \cup {archive.manager[i].id : i \in 1..Len(archive.manager)}
    \cup Owners({archive.file[n] : n \in Names})

\* config_file_delete: unlink().
DeleteFileNot(f, n) == f
DeleteFile(f, n) == [f EXCEPT ![n] = NoFile]

\* What config_file_parse leaves in the cleared tables.
Load(f, c) == IF f[c.name] = NoFile THEN Pure(c.id) ELSE f[c.name]

\* config_refresh_all_fields over the values v, without block_update: while a
\* button is selected, its callbacks may store what the fields still show into
\* the button of v that has the same raw code (see ButtonEditor).
Refreshed(v) ==
  {v} \cup IF looked = "now" /\ v \notin {NoFile, Torn}
           THEN {[v EXCEPT !.stray = TRUE]} ELSE {}

OpenConfigUnread(l, i, rs, f) ==
  /\ current' = i /\ rows' = Starred(rs, l[i].name) /\ open' = l[i].id
  /\ changed' = FALSE /\ dirty' = FALSE /\ UNCHANGED looked
  /\ mem' \in Refreshed(IF mem = NoFile THEN Pure(l[i].id) ELSE mem)
\* config_manager_open_config(l[i].name) on the tree rs and the files f.
OpenConfig(l, i, rs, f) ==
  /\ current' = i
  /\ rows'    = Starred(rs, l[i].name)
  /\ mem'     \in Refreshed(Load(f, l[i]))
  /\ open'    = l[i].id
  /\ changed' = FALSE
  /\ dirty'   = FALSE
  /\ UNCHANGED looked

\* The tables are left as they are, for the configuration id.
Copied(v, id) == IF v \in {NoFile, Torn} THEN Pure(id) ELSE [v EXCEPT !.of = id]

\* config_manager_new(b, copy) on the list l and the tree rs.
NewConfig(l, rs, b, copy) ==
  /\ FreeNames(l, b) # {}
  /\ \E id \in Ids \ UsedIds :
       /\ list' = Append(l, [name |-> FirstFree(l, b), id |-> id])
       /\ mem'  = IF copy THEN Copied(mem, id) ELSE Pure(id)
       /\ open' = id
  /\ current' = Len(l) + 1
  /\ rows'    = AddRow(rs, FirstFree(l, b), Len(l) + 1)
  /\ dirty'   = (copy /\ dirty)
  /\ changed' = TRUE
  /\ UNCHANGED looked

\* The process is gone: what it had in memory means nothing any more.
Forget(st) ==
  /\ status' = st
  /\ x' = 1 /\ list' = <<>> /\ current' = 0 /\ rows' = <<>>
  /\ mem' = NoFile /\ open' = NoId /\ changed' = FALSE /\ dirty' = FALSE
  /\ looked' = IF looked = "now" THEN "before" ELSE looked
-----------------------------------------------------------------------------
(* Start-up: config_manager_init. *)

Init ==
  /\ status = "off"
  /\ x = 1 /\ list = <<>> /\ current = 0 /\ rows = <<>>
  /\ mem = NoFile /\ open = NoId /\ changed = FALSE /\ dirty = FALSE
  /\ looked = "never"
  /\ manager = <<>>
  /\ file = [n \in Names |-> NoFile]
  /\ legacy \in BOOLEAN
  /\ archive = [manager |-> <<>>, file |-> [n \in Names |-> NoFile], legacy |-> FALSE]

\* What g_strsplit makes of the manager file: the names of a longer list than
\* MaxConfigs are left in one last piece, from the MaxConfigs-th on, and no file
\* has a name of several lines.  That piece is dropped by the checks.
ReadNamesAll(m) == m
ReadNames(m) == IF Len(m) <= MaxConfigs THEN m ELSE SubSeq(m, 1, MaxConfigs - 1)

\* config_manager_read_file up to check_files; an absent or empty file leaves
\* the list empty.
ReadFile ==
  /\ status \in {"off", "aborted"}
  /\ list' = ReadNames(manager)
  /\ x' = 1
  /\ status' = IF manager = <<>> THEN "loading" ELSE "checking"
  /\ UNCHANGED <<current, rows, editor, disk>>

\* One turn of the loop of config_manager_check_files.
CheckPresent ==
  /\ status = "checking" /\ x <= Len(list)
  /\ file[list[x].name] # NoFile
  /\ x' = x + 1
  /\ UNCHANGED <<status, list, current, rows, editor, disk>>

\* The file is missing: config_manager_delete(name[x]) drops the entry, with
\* configs.current still -1.  It compares name[-1] with the name first: that
\* read is outside the array, and ends the program or finds a difference.
CheckMissingSkips ==
  /\ status = "checking" /\ x <= Len(list)
  /\ file[list[x].name] = NoFile
  /\ list' = RemoveAt(list, x)
  /\ x' = x + 1
  /\ UNCHANGED <<status, current, rows, editor, disk>>
CheckMissing ==
  /\ status = "checking" /\ x <= Len(list)
  /\ file[list[x].name] = NoFile
  /\ list' = RemoveAt(list, x)
  /\ UNCHANGED <<status, x, current, rows, editor, disk>>

CheckMissingAborts ==
  /\ status = "checking"
  /\ \/ x <= Len(list) /\ file[list[x].name] = NoFile
     \/ x > Len(list) /\ Len(manager) > MaxConfigs
  /\ Forget("aborted")
  /\ UNCHANGED disk

\* The rest of config_manager_read_file: the first configuration becomes the
\* current one and the tree is rebuilt, without a star.
CheckDone ==
  /\ status = "checking" /\ x > Len(list)
  /\ status' = "loading"
  /\ x' = 1
  /\ current' = IF list = <<>> THEN 0 ELSE 1
  /\ rows' = [i \in 1..Len(list) |-> [name |-> list[i].name, star |-> FALSE, prio |-> i]]
  /\ UNCHANGED <<list, editor, disk>>

\* The end of config_manager_init, after config_manager_open_old left the list
\* l with its i-th entry current, the tree rs and the files f.
FinishInit(l, i, rs, f) ==
  /\ status' = "on"
  /\ file' = f
  /\ IF l # <<>> THEN list' = l /\ OpenConfig(l, i, rs, f)
                 ELSE NewConfig(l, rs, "Default", FALSE)
  /\ UNCHANGED x

InitPlain ==
  /\ status = "loading"
  /\ ~legacy \/ FreeNames(list, "old_config") = {}
  /\ FinishInit(list, current, rows, file)
  /\ UNCHANGED <<manager, legacy>>

\* config_manager_open_old creates old_config for the pre-0.4 file ...
OldName == FirstFree(list, "old_config")
OldList(id) == Append(list, [name |-> OldName, id |-> id])
LoadingOld ==
  /\ status = "loading"
  /\ legacy
  /\ FreeNames(list, "old_config") # {}

\* ... and moves the file to that configuration's name,
InitOld(id) ==
  /\ LoadingOld
  /\ file[OldName] = NoFile
  /\ legacy' = FALSE
  /\ manager' = OldList(id)
  /\ FinishInit(OldList(id), Len(list) + 1, AddRow(rows, OldName, Len(list) + 1),
                [file EXCEPT ![OldName] = Pure(id)])

\* unless a file of that name is there already: the entry stays,
InitOldClash(id) ==
  /\ LoadingOld
  /\ file[OldName] # NoFile
  /\ FinishInit(OldList(id), Len(list) + 1, AddRow(rows, OldName, Len(list) + 1), file)
  /\ UNCHANGED <<manager, legacy>>

\* or rename() fails: the entry is deleted again, but its row is not the
\* selected one and stays.
InitOldFails ==
  /\ LoadingOld /\ IOFails
  /\ file[OldName] = NoFile
  /\ FinishInit(list, Len(list), AddRow(rows, OldName, Len(list) + 1), file)
  /\ UNCHANGED <<manager, legacy>>
-----------------------------------------------------------------------------
(* What the user does in the window. *)

\* A field of the editor is changed.
Edit ==
  /\ status = "on"
  /\ dirty' = TRUE
  /\ UNCHANGED <<status, x, list, current, rows, mem, open, changed, looked, disk>>

\* A button is selected: its fields are shown, with block_update set.
Look ==
  /\ Looks
  /\ status = "on"
  /\ looked' = "now"
  /\ UNCHANGED <<status, x, list, current, rows, mem, open, dirty, changed, disk>>

\* btn_ok_btnd_clicked: the buttons detected are the configuration's, and all
\* fields are refreshed.
Detect ==
  /\ Looks
  /\ status = "on" /\ current # 0
  /\ dirty' = TRUE
  /\ mem' \in Refreshed(mem)
  /\ UNCHANGED <<status, x, list, current, rows, open, changed, looked, disk>>

\* config_delete_selected_button is the one edit that reports itself.  Another
\* button may be selected then.
DeleteButton ==
  /\ status = "on" /\ looked = "now"
  /\ dirty' = TRUE
  /\ changed' = (current # 0 \/ changed)
  /\ looked' \in {"now", "before"}
  /\ UNCHANGED <<status, x, list, current, rows, mem, open, disk>>

\* btn_new_config_clicked: without an open configuration nothing is copied.
New(copy) ==
  /\ status = "on"
  /\ copy => current # 0
  /\ NewConfig(list, rows, "New config", copy)
  /\ UNCHANGED <<status, x, disk>>

\* The buttons below the tree act on the selected row r, and are insensitive
\* while nothing is open.
Chosen(r) == status = "on" /\ r \in 1..Len(rows) /\ current # 0

\* config_manager_delete: of the row, the file and the entry.
Delete(r) ==
  LET n == rows[r].name
      i == GetIndex(list, n)
      l == RemoveAt(list, i)
      f == DeleteFile(file, n)
      rs == UpdatePriorities(RemoveAt(rows, r))
  IN  /\ Chosen(r) /\ HasName(list, n) /\ InRange
      /\ list' = l
      /\ file' = f
      /\ \/ /\ l = <<>>
            /\ current' = 0 /\ rows' = rs /\ open' = NoId /\ changed' = FALSE
            /\ UNCHANGED <<mem, dirty, looked>>
         \/ /\ l # <<>> /\ i = current
            /\ OpenConfig(l, IF i > Len(l) THEN Len(l) ELSE i, rs, f)
         \/ /\ l # <<>> /\ i # current
            /\ rows' = rs
            /\ UNCHANGED <<current, editor>>
      /\ UNCHANGED <<status, x, manager, legacy>>

\* configs.current is one past the end: name[current] is the NULL there, which
\* config_manager_delete and tree_config_find_iter hand to strcmp.
NullName == status = "on" /\ current > Len(list)

DeleteAborts(r) ==
  /\ Chosen(r) /\ HasName(list, rows[r].name) /\ NullName
  /\ Forget("aborted")
  /\ UNCHANGED disk

\* config_manager_priority_higher and tree_config_move_selected_up, which goes
\* by the first row that has the selected name.
Up(r) ==
  LET i == GetIndex(list, rows[r].name)
      to == SelectInSeq(rows, LAMBDA row : row.name = rows[r].name) - 1
  IN  /\ Chosen(r) /\ i > 1 /\ to > 0
      /\ list' = Swap(list, i - 1, i)
      /\ current' = Follow(i, i - 1)
      /\ rows' = UpdatePriorities(InsertAt(RemoveAt(rows, r), to, rows[r]))
      /\ UNCHANGED <<status, x, editor, disk>>

\* config_manager_priority_lower and tree_config_move_selected_down.
Down(r) ==
  LET i == GetIndex(list, rows[r].name)
  IN  /\ Chosen(r) /\ i \in 1..Len(list) - 1 /\ r < Len(rows)
      /\ list' = Swap(list, i, i + 1)
      /\ current' = Follow(i, i + 1)
      /\ rows' = UpdatePriorities(Swap(rows, r, r + 1))
      /\ UNCHANGED <<status, x, editor, disk>>

\* A row the list does not have gives the index -1: name[-1] and name[0] trade
\* places, which overwrites the bookkeeping of the allocator.
DownAborts(r) ==
  /\ Chosen(r) /\ ~HasName(list, rows[r].name) /\ r < Len(rows)
  /\ Forget("aborted")
  /\ UNCHANGED disk

NameTakenBelow(n) == \E i \in 1..Len(list) : i > current /\ list[i].name = n
\* config_name_changed: config_manager_set_current_name moves the file, if
\* there is one, over whatever has the new name.
NameTaken(n) == \E i \in 1..Len(list) : i # current /\ list[i].name = n

Rename(n) ==
  LET old == list[current].name
  IN  /\ status = "on" /\ InRange /\ ~NameTaken(n)
      /\ rows' = RenameRow(rows, old, n, current)
      /\ list' = [list EXCEPT ![current].name = n]
      /\ \/ /\ n # old /\ file[old] # NoFile
            /\ file' = [file EXCEPT ![n] = file[old], ![old] = NoFile]
         \/ /\ n = old \/ file[old] = NoFile \/ IOFails
            /\ UNCHANGED file
      /\ UNCHANGED <<status, x, current, editor, manager, legacy>>

RenameAborts(n) ==
  /\ NullName /\ list # <<>> /\ ~HasName(list, n)
  /\ Forget("aborted")
  /\ UNCHANGED disk

\* config_save: the editor's values go to the file named by configs.current,
\* then the list goes to the manager file.
SavedFileNot == file
SavedFile == [file EXCEPT ![list[current].name] = mem]

Save ==
  /\ status = "on" /\ InRange
  /\ file' = SavedFile
  /\ manager' = list
  /\ changed' = FALSE /\ dirty' = FALSE
  /\ UNCHANGED <<status, x, list, current, rows, mem, open, looked, legacy>>

\* tree_configs_row_activated: config_save, then open the row unless it has
\* the star.  A name that is not in the list opens nothing.
Opens(r) == ~rows[r].star /\ HasName(list, rows[r].name)

Activate(r) ==
  /\ status = "on" /\ r \in 1..Len(rows)
  /\ \/ /\ InRange
        /\ file' = SavedFile /\ manager' = list
        /\ Opens(r) \/ (changed' = FALSE /\ dirty' = FALSE)
     \/ /\ ~InRange \/ IOFails
        /\ UNCHANGED <<file, manager>>
        /\ Opens(r) \/ UNCHANGED <<changed, dirty>>
  /\ \/ Opens(r) /\ OpenConfig(list, GetIndex(list, rows[r].name), rows, file')
     \/ ~Opens(r) /\ UNCHANGED <<current, rows, mem, open, looked>>
  /\ UNCHANGED <<status, x, list, legacy>>

\* win_config_destroy: config_manager_save_file (which removes the file when
\* the list is empty), config_save, and the process ends.
Quit ==
  /\ status = "on"
  /\ manager' = list
  /\ file' = IF InRange THEN SavedFile ELSE file
  /\ UNCHANGED legacy
  /\ Forget("off")

\* SIGTERM or SIGKILL, or the machine stops, between two handlers ...
Kill ==
  /\ Kills
  /\ status \in {"checking", "loading", "on"}
  /\ Forget("off")
  /\ UNCHANGED disk

\* ... or inside config_save, whose fopen truncates the file it rewrites; Quit
\* has written the manager file before that.
WriterKilledUnlinking == [file EXCEPT ![list[current].name] = NoFile]
WriterKilled == [file EXCEPT ![list[current].name] = Torn]

KillInSave ==
  /\ Kills
  /\ status = "on" /\ InRange
  /\ file' \in {WriterKilled, SavedFile}
  /\ manager' \in {manager, list}
  /\ UNCHANGED legacy
  /\ Forget("off")

KillInQuit ==
  /\ Kills
  /\ status = "on"
  /\ manager' = list
  /\ UNCHANGED <<file, legacy>>
  /\ Forget("off")

\* config_manager_open_old has moved the file, and config_manager_save_file does
\* not get to add its name to the list.
KillInOpenOld(id) ==
  /\ Kills
  /\ LoadingOld
  /\ file[OldName] = NoFile
  /\ legacy' = FALSE
  /\ file' = [file EXCEPT ![OldName] = Pure(id)]
  /\ UNCHANGED manager
  /\ Forget("off")
-----------------------------------------------------------------------------
(* Backup and restore (backup.c), from the buttons of the main window. *)

\* What is on disk goes into the archive; the open configuration is not saved
\* first.  tar's exit status is never negative, so a failure is not noticed: the
\* archive then has none of it.
Backup ==
  /\ Backups
  /\ status = "on" /\ current # 0
  /\ \/ archive' = [manager |-> manager, file |-> file, legacy |-> legacy]
     \/ /\ IOFails
        /\ archive' = [manager |-> <<>>, file |-> [n \in Names |-> NoFile], legacy |-> FALSE]
  /\ UNCHANGED <<status, x, list, current, rows, editor, disk>>

\* The archive is unpacked over what is there, or some of it where tar fails:
\* the members ms and, if withList, the manager file.  Files it does not have
\* stay.  Everything is cleared and config_manager_init runs again; where there
\* is no manager file the rows of before stay, and it adds to them.
Restore(ms, withList) ==
  /\ Backups
  /\ status = "on"
  /\ manager' = IF withList /\ archive.manager # <<>> THEN archive.manager ELSE manager
  /\ manager' # <<>> \/ Len(rows) <= MaxRows
  /\ file' = [n \in Names |-> IF n \in ms THEN archive.file[n] ELSE file[n]]
  /\ legacy' = (legacy \/ archive.legacy)
  /\ status' = IF manager' = <<>> THEN "loading" ELSE "checking"
  /\ list' = ReadNames(manager')
  /\ x' = 1 /\ current' = 0
  /\ mem' = NoFile /\ open' = NoId /\ changed' = FALSE /\ dirty' = FALSE
  /\ UNCHANGED <<rows, looked, archive>>

Members == {n \in Names : archive.file[n] # NoFile}
Restores ==
  \/ Restore(Members, TRUE)
  \/ IOFails /\ \E ms \in SUBSET Members, withList \in BOOLEAN : Restore(ms, withList)
-----------------------------------------------------------------------------
Startup == \/ ReadFile \/ CheckPresent \/ CheckMissing \/ CheckMissingAborts
           \/ CheckDone \/ InitPlain \/ InitOldFails
           \/ \E id \in Ids \ UsedIds : InitOld(id) \/ InitOldClash(id)

User == \/ Edit \/ Look \/ Detect \/ DeleteButton \/ Save \/ Quit
        \/ \E copy \in BOOLEAN : New(copy)
        \/ \E n \in Typed : Rename(n) \/ RenameAborts(n)
        \/ \E r \in 1..Len(rows) : \/ Delete(r) \/ DeleteAborts(r) \/ Activate(r)
                                  \/ Up(r) \/ Down(r) \/ DownAborts(r)

Killed == \/ Kill \/ KillInSave \/ KillInQuit
          \/ \E id \in Ids \ UsedIds : KillInOpenOld(id)

Next == \/ (Startup \/ User \/ Killed) /\ UNCHANGED archive
        \/ Backup \/ Restores

Spec == Init /\ [][Next]_vars
-----------------------------------------------------------------------------
(* Properties. *)

NoTwins(l) ==
  \A i, j \in 1..Len(l) : l[i].name = l[j].name \/ l[i].id = l[j].id => i = j

\* No two configurations share a name, in memory or in the manager file: every
\* lookup and every file name of the program goes by the name alone.
NamesUnique == NoTwins(list) /\ NoTwins(manager)

\* configs.current is the configuration the user opened or created last.
Agree == IF list = <<>> THEN current = 0 /\ open = NoId
                        ELSE InRange /\ list[current].id = open

\* The two ways a button of the tree leaves configs.current behind: deleting a
\* configuration above the open one, and moving one past it.
DeletesAbove(r) == Delete(r) /\ GetIndex(list, rows[r].name) < current
MovesPast(r) ==
  \/ Up(r) /\ GetIndex(list, rows[r].name) = current + 1
  \/ Down(r) /\ GetIndex(list, rows[r].name) = current - 1
Drifts == \E r \in 1..Len(rows) : DeletesAbove(r) \/ MovesPast(r)

\* Whatever else the program does, from its start on, configs.current stays on
\* the configuration that is being edited.
AgreeUnlessDrifts ==
  [][(status = "on" => Agree) /\ status' = "on" /\ ~Drifts => Agree']_vars

\* A user who keeps off those two, and has no more configurations than
\* config_manager_read_file reads.
CarefulNext == Next /\ ~Drifts /\ Len(list') <= MaxConfigs
CarefulSpec == Init /\ [][CarefulNext]_vars

\* Any two entries of l are entries of s, in the same order.
InOrder(l, s) ==
  \A a, b \in 1..Len(l) : a < b =>
    \E i, j \in 1..Len(s) : i < j /\ l[a] = s[i] /\ l[b] = s[j]

\* Of more than MaxConfigs names in the manager file the first MaxConfigs - 1
\* are read as they were written, of fewer all of them.
ReadAlone(k) ==
  k \in 1..Len(manager) /\ (k < MaxConfigs \/ (k = MaxConfigs /\ k = Len(manager)))

\* The loop of config_manager_check_files, which deletes from the array it
\* walks, ends with exactly the entries that could be read and whose file
\* exists, in their order.  From the MAX_CONFIGS-th name on (100), a longer list
\* is not read, whether its files exist or not.
LoadsWhatIsOnDisk ==
  status = "loading" =>
    /\ ToSet(list) = {manager[k] : k \in {k \in 1..Len(manager) :
                                            ReadAlone(k) /\ file[manager[k].name] # NoFile}}
    /\ InOrder(list, manager)

\* The tree shows the list: one row per configuration, in order, numbered by
\* priority (config_manager.c and tree_config.c keep two copies of it).
TreeShowsList ==
  status = "on" =>
    /\ Len(rows) = Len(list)
    /\ \A i \in 1..Len(rows) : rows[i].name = list[i].name /\ rows[i].prio = i

\* The '*' is on the open configuration and nowhere else.
StarOnOpen ==
  status = "on" =>
    {rows[r].name : r \in {k \in 1..Len(rows) : rows[k].star}}
      = {list[i].name : i \in {k \in 1..Len(list) : list[k].id = open}}

\* The values v are those of the configuration id.
IsOf(v, id) ==
  /\ v \notin {NoFile, Torn}
  /\ v.of = id
  /\ looked = "never" => ~v.stray

\* A configuration's file holds that configuration's values or is not there,
\* and so does the editor.  "Values" leaves out one thing: while a button is
\* selected, opening a configuration that has a button of the same raw code may
\* give that button the settings of the other (ButtonEditor's OpenShowsFile
\* says that it is that button only).  Whoever has never selected a button
\* is rid of that too.
ValuesStayHome ==
  status = "on" =>
    /\ \A i \in 1..Len(list) :
         file[list[i].name] # NoFile => IsOf(file[list[i].name], list[i].id)
    /\ open # NoId => IsOf(mem, open)

\* No configuration file is left behind under a name the list does not have.
NoOrphanFile ==
  status \in {"loading", "on"} =>
    \A n \in Names : file[n] # NoFile => HasName(list, n)

\* However and whenever the process ends, a configuration that has a file and is
\* in the manager file under its present name keeps both.
EndingKeepsSaved ==
  [][status = "on" /\ status' \in {"off", "aborted"} =>
       \A i \in 1..Len(list) :
         file[list[i].name] # NoFile /\ Contains(manager, list[i]) =>
           file'[list[i].name] # NoFile /\ Contains(manager', list[i])]_vars

\* Edits that are not saved go away with a configuration that is created or
\* deleted, and in no other way while the program runs: opening another one
\* and saving write them to the open one's file first.
EditsAreWritten ==
  [][status = "on" /\ status' = "on" /\ Agree /\ dirty /\ ~dirty'
       /\ Len(list') = Len(list)
     => file'[list[current].name] = mem]_vars
-----------------------------------------------------------------------------
(* A careful user's program implements ConfigBook. *)

Shown == IF status = "on" THEN list ELSE manager
IdsOf(l) == [i \in 1..Len(l) |-> l[i].id]
KeptOf(l, f) == {l[i].id : i \in {k \in 1..Len(l) : f[l[k].name] # NoFile}}

Shelf  == IdsOf(Shown)
Kept   == KeptOf(Shown, file)
Edited == IF status = "on" /\ InRange THEN list[current].id ELSE NoId

Book == INSTANCE ConfigBook WITH
  shelf <- Shelf, edited <- Edited, kept <- Kept, up <- status = "on"

\* The program does to the list of configurations, the open one and the saved
\* ones what ConfigBook says, and nothing else.
ImplementsBook == Book!BSpec
-----------------------------------------------------------------------------
(* What the manual and the comments say and the code does not do. *)

\* Manual: "The '*' in the Open column specifies which configuration is
\* currently open and being edited"; config_manager.h: "Currently open config".
\* Deleting another configuration leaves the open one open.
DeletingKeepsOpen ==
  [][status = "on" /\ status' = "on" /\ Agree
       /\ Len(list') < Len(list) /\ open' = open => Agree']_vars
=============================================================================

# TLA+ models of btnx-config

btnx-config is the GTK program that configures btnx, a daemon that turns mouse
buttons into key presses. It keeps a list of named configurations under
`/etc/btnx`, edits the one that is open, and has a wizard that finds out which
mouse is plugged in and which code each of its buttons sends. The wizard forks a
child that reads the input devices and talks to it over a pair of pipes, which
GLib timers poll.

The program's own code is under `src/src/` (C, one process with one thread, plus
the children it forks). What is hard in it is not any single function but what the
user, the timers, the children and the SIGCHLD handler do to each other's state, and
what GTK's callbacks do to each other when one sets another's field. `src/src/intl/`
is GNU libintl, built into the program where the system has no gettext; it is modelled
too, with the threads its locks promise to serve.

## 1. Inventory

| part | code | state | operations | promise |
|---|---|---|---|---|
| configuration manager | `config_manager.c`, `tree_config.c` | `configs.name[]`, `count`, `current`, `changed`; the rows of the tree; the manager file and one file per configuration | start-up (read, check files, adopt the file of an old version, open the first), new, copy, open, delete, rename, move up and down, save, quit | unique names; `current`, the star and the editor mean one configuration; the tree shows the list; nothing saved is lost |
| backup | `backup.c`, `callbacks_config.c` | archives (tar) | back up, restore | what was backed up is loaded again |
| configuration files | `config_file.c`, `mouse.c`, `buttons.c` | the files | save, parse, delete | what is saved is what is read back |
| button editor | `config.c`, `tree_buttons.c`, `callbacks_config.c`, `keycodes_entry.c` | `buttons[]`, `edit_rawcode`, `block_update`, the widgets | select, edit any field, delete, detect, open, save, rename | the widgets show the button they write to; looking changes nothing |
| revoco | `revoco.c`, `mouse.c` | mode and its values, `revoco_prev_mode`, the widgets | choose, enable, open, detect, save | the page shows the one mode that is saved |
| button detection | `btnd.c`, `callbacks_btnd.c`, `dialog_btnd.c`, `rawcodes.c` | `cur_rawcode`, `num_pressed`, `total_num_pressed`, `detecting`, `pid_btnd`, the table of raw codes; Add's sensitivity, the control label; "new" flags in the button table | start, stop, count a press, add, OK, cancel, choose from the dialog | the code announced is the one pressed most; the dialog lists what was pressed; Add adds it; Cancel undoes |
| its processes | `btnd.c`, `ip_pipe.c`, `timers.c`, `threads.c` | the child's phase, what is in its pipes, the two timers | fork, link (`IP_ACK`), start (`IP_START_BTND`), report, stop | one child listens; presses lead to an answer; who is told to stop stops |
| mouse detection | `moused.c`, `callbacks_moused.c`, `handlers.c`, `timers.c` | `handlers[]`, `detecting`, `pid_moused`; Forward's sensitivity | start, stop, report a device, check IDs, forward, undo, cancel | the list is one mouse; all of its devices get on it; nothing else does |
| pipe table | `ip_pipe.c`, `threads.c` | `ip_pipes[]`, `pids_unhandled[]`, the SIGCHLD handler | init, link, flag as old (in the handler), clean up (in a timer), free | no access outside the arrays; pipes are paired; only the dead lose theirs, and they do |
| libintl: locks | `intl/lock.c`, `intl/lock.h` | `runcount`, `waiting_writers_count`, queues of events | read lock, write lock, unlock | readers together, a writer alone, nobody forgotten |
| libintl: message lookup | `intl/dcigettext.c`, `finddomain.c`, `loadmsgcat.c`, `l10nflist.c`, `explodename.c`, `localealias.c`, `bindtextdom.c`, `textdomain.c`, `plural-exp.c` | bindings, catalogs, the tree of known translations, `_nl_msg_cat_cntr` | look up, load, set directory, codeset, domain, locale | the answer is what the present settings lead to |
| the rest | `udev.c`, `keycodes.c`, `widgets.c`, `help.c`, `status_bar.c` | a rules file; a table read once; the look of the windows | | |

How they interact: the main window calls the configuration manager, which loads
the tables of buttons, mouse and revoco from a file or clears them, and has the
button editor and the revoco page show them. "Detect" opens the first wizard window
if the mouse is not known and the second one otherwise. Each wizard window starts a
child (`threads_fork_with_pipe`) and two timers one after the other: one waits for
the child's start message, one takes its reports. A stop message goes the other way.
Children that end are noted by the SIGCHLD handler, and a third timer frees their
pipes. tar runs with the handler off. Everything that is shown goes through
`gettext()`.

What is hard: two copies of the list (array and tree) found by index, by name, by
name without case and by selection; files that follow a rename at once while the
manager file follows at the next save; callbacks that run inside the call that sets a
widget; a vote decided by one counter; timers that are tied to no detection in
particular; a `read()` that takes several messages and looks at one; a signal handler
that appends to an array another function is removing from; caches that threads fill
for each other. `PROJECT.json` lists each hazard with its line.

## 2. Modules

| module | models | instance |
|---|---|---|
| `ConfigManager` | `config_manager.c`, `tree_config.c`, `backup.c`, the callbacks that use them, `config_file.c` as far as which file holds whose values | `MCConfigManager` |
| `ConfigBook` | what the configuration manager promises: a shelf of configurations, one being edited, some kept | through `Book` in `ConfigManager` |
| `ConfigFile` | the lines of a configuration file: what saving writes and parsing reads | under the next two |
| `ButtonEditor` | the button table, its tree, the fields, and the files | `MCButtonEditor` |
| `Revoco` | the mouse's record and the revoco page | `MCRevoco` |
| `RawCodes` | the table of raw codes and the order of the dialog | under the next |
| `BtnDetection` | the parent's and the window's side of button detection | `MCBtnDetection` |
| `BtnSession` | `BtnDetection` composed with children, pipes and timers | `MCBtnSession` |
| `MouseDetection` | mouse detection, all sides | `MCMouseDetection` |
| `IpPipes` | the table of pipes, the list of the dead and the signal handler | itself |
| `RwLock` | libintl's own read-write lock, for POSIX threads and for Windows | `MCRwLock` |
| `ReadWriteLock` | what its callers are promised | through `Lock` in `RwLock` |
| `LocaleNames`, `MessageCatalog` | from a locale's name to files; what is in a catalog, how it is searched | under the next |
| `MessageLookup` | `gettext()` in several threads, and its settings | `MCMessageLookup` |
| `ConfigManagerProofs`, `BtnDetectionProofs` (with `BtnSession`), `MouseDetectionProofs`, `IpPipesProofs`, `RevocoProofs`, `RwLockProofs`, `MessageLookupProofs`, `ButtonEditorProofs` (with `ConfigFile`) | theorems | |

### ConfigManager

`list`, `current` (one more than `configs.current`), `changed` and `rows` are
the C variables. A name is a member of a small set; `Fold` says which names
`strcasecmp` takes for equal, `Suffixed` which candidates `config_manager_new`
tries for a base. Each configuration also has an identity no code reads, so that
the model can say whose values a file or the editor holds after renames: `file`
maps a name to the values in it, `NoFile`, or `Torn` for a file whose writer was killed.
Values are those `of` an identity, and `stray` once one of its buttons may have been
given what the fields showed of another.

Each callback is one action: `New`, `Delete`, `Up`, `Down`, `Rename`, `Save`, `Activate` (double
click: save, then open), `Look` (a button is selected), `Detect` (the OK of the button
detection), `Quit`. Whatever refreshes all fields does so without `block_update`: while a button
is selected (`looked`), the callbacks may store what the fields show into the table that has just
been read (`Refreshed`). Which button that is, and when it happens, is for `ButtonEditor` to say;
here the values may or may not go astray. Start-up is taken apart at the loop of
`config_manager_check_files` (`CheckPresent`, `CheckMissing`), for it deletes from the array it
walks. Reads outside an array are a choice over what the build may do: `config_manager_delete`
with `current = -1` compares `name[-1]`, and either finds a difference (`CheckMissing`) or ends
the program (`CheckMissingAborts`); `name[current]` one past the end is the NULL there, and
`strcmp` on it ends the program (`DeleteAborts`, `RenameAborts`). `Kill`, `KillInSave` and
`KillInQuit` end it anywhere, also with a truncated file, and `KillInOpenOld` between the move of
an old version's file and the write of its entry.

`ReadNames` is `g_strsplit` with its limit, `MaxConfigs` (100 in the program): of a longer
manager file the first 99 names are read, and the rest is one piece, which the check of the files
drops. Nothing keeps the user from having more configurations.

`Backup` copies what is on disk to `archive`; `Restore` unpacks it over what is
there and starts again. With `IOFails`, tar leaves any part of it, and nobody
notices. Where there is no manager file after a restore, the rows of before stay in
the tree; `MaxRows` bounds how often.

Deleting a configuration above the open one, and moving one past it, leave
`current` behind. The model does what the code does. The properties name this:
`Drifts` is a step that is one of the two, `AgreeUnlessDrifts` says no other step
loses the agreement, and `CarefulSpec` is the program in the hands of somebody
who avoids them and has no more than `MaxConfigs` configurations, of which more is true.
He does look at buttons: `ValuesStayHome` says that a file holds its own configuration, except
that a button's settings may be stray, and that they are not if he has never selected a button.

### ConfigFile, ButtonEditor, Revoco

`ConfigFile` is functions only: `Format` and `Parse` over lines, where a text is
pieces, the blank and `#`, so that comments, empty values and block words do to a
value what the parser does.

`ButtonEditor` has the page (`page.table`, `rows`, `w`, ...) and `edit`, which is
`edit_rawcode`. GTK runs a callback inside the call that changes a field: setting a
check box, radio button or list to another value stores the fields into the button
edited at once, unless `block_update` is set. The operators follow that chain and
give the set of pages it may end with, for a value may be what is left in freed
memory (`Junk`).

The code has three traps (section 6): opening a configuration, or adding a detected button,
while a button is edited that the new table has with other settings (not `OpensQuietly`, not
`Quiet`); deleting a button while no row is selected; choosing another event type while a field
holds a value that is refused (`Refused`). `Next` has the user walk into them (`Trapped`), which
ends `careful`, and `CarefulSpec` is any user up to and including the first such step. The
invariants speak of him while he is `careful`. `OpenShowsFile` speaks of every opening, a
trapped one too: only the button of the raw code that is edited may have other settings than its
file.
`ConstantsOK` has raw codes larger than their number, as they are in the program (the event
type is in the upper byte), because the reader of a file numbers its blocks from 0 with codes
of the same table. `InputsOK` has the lists offer what the program knows, and new
configurations begin with what it has stored (`Sound`).

`Revoco` does the same for the revoco page, whose callbacks set each other's
fields: `Radio` and `RevocoInit` are functions from page to page in the order of the calls.
The check box and the refresh call one another; the model follows them three deep, and
`CallsEnd` (section 5) shows that no page goes deeper. `Few`, in `MCRevoco`, bounds the
numbers that may be entered, and `ConstantsOK` has the files hold what the program writes
into them and no MX Revolution with the ids 0.

### BtnDetection, RawCodes, BtnSession

In `BtnDetection` there is one action per callback, and `Report` for
`btnd_handle_button_report` with its three ways out: `Exhaust` (press limit, dialog),
`Ignore` (a code some button has), `Count`. Any code may be reported at any time while
a detection runs; that is all this module needs to know of the child. `votes`,
`presses`, `settled` and `before` are history variables. `RawCodes` has the table the dialog is
filled from, and `DialogRows` the order it ends up in.

`BtnSession` adds the children (`phase`), the pipes (`up`, what a child wrote and the
parent has not read; `stopped`, a stop message in the other one) and the timers
(`waiting`, `polling`). `Linked` is the parent that gets its `IP_ACK`, `NotLinked`
the one that gives up after 2 s or when a SIGCHLD interrupts it; the child goes
on in both. A read empties the pipe and looks at its head.

`calm` is chosen once and never changes. In a calm behaviour links are fast
enough, children die only when told to, the child's 1 ms pause is enough for the
parent to read `IP_ACK` apart from `IP_START_BTND`, and the user is not `Hasty`: he
does not start again before the last detection has wound down or before he has
added what it found, nor press OK while one runs. Properties that need this begin
with `calm`; the others hold for all behaviours.

### MouseDetection

Like `BtnSession` for the first window. A child reports a device when it first
moves and then does not watch it any more (`fresh`). A member of `Casts` says which
devices there are, which is `first` (the device `event0`, whose path arrives damaged)
and whether the behaviour is `calm`: then a message is read before the next is
written, and the user starts again only when the timers of the last detection have
ended. `Exits` is the program's end, by a closed window or a failed fork.

### IpPipes

`ip_pipe_handle_old_pids` runs one statement at a time (`pc`), because
`threads_sigchld` may come between any two (`Reap`). New entries of a
reallocated array hold anything: `Unset`. `quiet` is rigid like `calm`: then no signal
falls between the removal's statements and tar is not run.

### RwLock, MessageLookup

`RwLock` has both bodies of `gl_rwlock_t` that `lock.c` has for systems without one:
`pthread` (a mutex, two conditions, a count of waiting writers) and `win32` (two
queues of events, each a ring that grows). What runs inside the mutex is one step;
waking for nothing, an allocation that fails (`Unlucky`), of the ring or of the event after the
ring has grown, and the initialisation that
several threads race for are steps. `ReadWriteLock` is the lock without any of it.

`MessageLookup` runs `dcigettext()` in steps: look in the tree of known translations, go
through the languages, make the entries for a name and what it inherits from, load a
catalog under the recursive lock, find the message, open a conversion, convert, and
write the tree. Settings happen between calls, as the write lock has them. What the
steps look at (names, masks, files, hash tables, revisions, plural forms) is in
`LocaleNames` and `MessageCatalog`, which have no state. A plural expression is the sequence
of its nodes, operands first, and a result is a sequence with no or one answer in it.
`Right` is the search from nothing that an answer is compared with. `NamesOK` says that
`LANGUAGE` is a list, `ThreadsOK` that no thread is the value for "nobody". `OutputCharset` is a
constant: `OUTPUT_CHARSET` is read once, and where it is not set `LC_CTYPE` keeps its charset while
`LC_MESSAGES` changes.

## 3. Runs

| run | instance | properties | distinct states |
|---|---|---|---|
| `cm_any_user` | 3 names, 6 identities, any user; 2 names are read | `NamesUnique`, `TreeShowsList`, `LoadsWhatIsOnDisk`, `AgreeUnlessDrifts`, `EditsAreWritten` | 230 000 |
| `cm_careful` | 4 names, 3 configurations, no drift; buttons are selected | `StarOnOpen`, `ValuesStayHome`, `NoOrphanFile`, `ImplementsBook` | 300 000 |
| `cm_killed` | 2 names, any user; kills, failing calls, backups | `LoadsWhatIsOnDisk`, `EndingKeepsSaved` | 870 000 |
| `bd_vote` | 3 codes, limits 2 and 6 | `VoteIsClear`, `DialogShowsPresses` | 4 860 000 |
| `bs_session` | 2 children, 1 code, limits 2 and 3, pipes of 2 messages | `DetectionHasChild`, `OneListener`, `AddIsForDetected`, `StoppedEnds`, `PressesCount`, `CancelDiscards` | 330 000 |
| `ip_pipes` | 4 forks, 2 failing | `InBounds`, `DeadAreListed`, `FreesItsOwn`, `DeadAreFreed` | 100 000 |
| `md_wizard` | 2 children, 3 machines | `OneMouse`, `ListedIsReported`, `MovedIsListed` | 580 000 |
| `be_careful` | 2 buttons, 2 configurations, 2 edits | `TreeShowsTable`, `FieldsShowButton`, `TableReadsBack`, `SelectKeepsValues`, `OpenShowsFile` | 340 000 |
| `rv_page` | 2 configurations, 3 mice | `PageShowsMouse`, `OpenGivesFile` | 2 300 000 |
| `rw_lock` | 2 readers and 2 writers in both builds; 5 writers on win32 | `RuncountIsTrue`, `NoWakeUpLost`, `ImplementsLock`, `WritersGetIn` | 490 000 |
| `ml_lookup` | 2 threads, 3 calls, 1 setting | `AnswersRight`, `UsesOnlyLoaded`, `EveryCallReturns` | 370 000 |
| `cm_delete_drift` | as `cm_any_user` | `DeletingKeepsOpen`, which the code violates (section 6) | |

What they show, beyond what the properties' comments say:

- `bs_session`, for all behaviours: a running detection has a child nobody told to stop,
  and a child that was told does end. For calm ones: one process listens, presses lead to
  an answer, Add adds what was announced, and Cancel restores the table.
- `ip_pipes`, for all behaviours: no access outside the array of the dead, the table is
  a row of pairs, only the dead lose their pipes. Where no signal falls into a removal:
  who was reaped is on the list until his pipes are freed, and they are.
- `md_wizard`, for all behaviours: what Forward offers is one mouse. For calm ones: what
  moves before the start is not listed, and what moves after it is.
- `cm_killed`: after any series of kills, failing calls and restores, start-up ends
  with the entries whose files are there. That the tree shows them is checked without
  failing calls and restores, because these leave stale rows.
- `ml_lookup`: an answer is right for a locale that held since the last setting, for the
  library is not told of `setlocale()`. Two threads that open one catalog's first
  conversion at once, and one that reads a node while another changes it, are excepted:
  there the code promises nothing (section 6).

**Bounds.** `ConfigManager`: three names are enough for a configuration above, at and below the
open one. With `MaxConfigs = 2` a manager file of three names is not read to its end; six
identities are enough for the files and entries that outlive one another. The careful instance
has a fourth name so that two of one base exist at once. It alone has `Looks`, for the properties
of the others do not tell stray values from others. The killed instance needs two names: a
renamed file, one without entry, one half written; `MaxRows = 1` lets a restore without a manager
file add to a row that stays. `bd_vote`: three codes are leader, challenger and another; limits
of 2 and 6 let the vote be won, lost, taken back and end in the dialog with further detections
after it (the program's 5 and 12, and all others, are in the proof). `BtnSession` and
`MouseDetection` have two children because all their hazards are between one detection and the
next. Limits of 2 and 3 presses let a count be won, lost to the limit, and interrupted. A pipe of
two messages is what lets one be read with another. `IpPipes` with four children lets two be on
the list while a third is linked to the pipes a failed fork left and a fourth is reaped.
`ButtonEditor`: `MaxEdits` counts changes of fields and tables, not selecting, opening, saving or
renaming; one edit before and one after an opening are there, so that an opening finds fields
that do not show what it has read (the same properties also hold of a reduced instance with 3,
and section 5 proves them for any number), and each field has a value that is refused or read
back differently where it has one. `RwLock`: five writers are one that has the lock and four in a
ring of three, which is full, wrapped or not, and grows. They come `Once`; the readers and
writers of the other casts come again and again. `MessageLookup`: one of three calls can find a
node fresh, one stale after the setting, and two can race.

Configurations and identities are symmetric in `ConfigManager`; only safety is
checked there.

**Fairness.** GLib runs a timer that is due, the kernel runs a child that can
run, delivers a pending signal, and tar ends: weak fairness of those actions.
`PressesCount` also assumes that the user goes on pressing mouse buttons; nothing
is assumed of his clicks. A `BtnSession` timer action may be disabled while the
parent waits for an `IP_ACK`; that wait ends (`Linked` is fair, and in a calm
behaviour the child answers). In `RwLock` a thread that can go on does, and one that
has the lock gives it back (libintl never keeps it over a call); nobody has to ask for it. In
`MessageLookup` a thread in a call goes on.

**Deadlock** is checked except where the system may really stop: in `md_wizard` the
program may exit while no child is left; in `be_careful` a behaviour ends with the step into a trap,
and a careful user may find nothing left to do once `MaxEdits` is used up; in `ml_lookup` the calls are used up.

## 4. Refinement

`ConfigBook` has no names, indices, trees or files. `ImplementsBook` maps the
shelf to the identities of the list (and, while the program is down, of the manager
file's entries that have a file), what is edited to `list[current]`, and what is
kept to the entries with a file. Every step of a careful user's program is a step of
the book or leaves it alone. The drifts are exactly where a program used
carelessly is not: a delete or a move then changes which configuration is edited.

`ReadWriteLock` has who reads, who writes and a line of writers. `ImplementsLock` maps
them to who is inside or, on win32, has been handed the lock and not noticed yet, and
the line to the contents of the ring of writers, so that the order in which the ring
gives them out is part of what is shown.

Both refinements are proved as well (section 5), and so is that of `BtnDetection` by
`BtnSession`.

## 5. Proofs

`BtnDetectionProofs`, for every set of integer codes without 0 and all limits with
`DetectionPresses >= 1` and `DetectionPresses < MaxPresses <= 3 * DetectionPresses`:

- `TypeCorrect`: `Spec => []TypeOK`;
- `VoteInvariant`: `Spec => []VoteInv`;
- `VoteClear`: `Spec => []VoteIsClear`: the announced code was pressed at least
  `DetectionPresses` times, and more often than any other code no button had;
- `TableIsCount`: `Spec => []TableCounts`: the table of raw codes has what was pressed in
  this detection, each code once;
- `DialogRight`: `Spec => []DialogShowsPresses`: the dialog lists every code with its presses,
  the most pressed first.

`dialog_btnd_populate` fills the dialog by a recursive function over what is left of the
table. `InductOn` is induction for a set of numbers, and serves twice:
once that this function exists, for TLA+ gives a recursive definition a meaning only then,
and once that its rows are the codes, each once, in falling order (`PopulateLists`).
`rawcodes_get_most_pressed` starts from -1 and so finds a row whenever one is left
(`MostPressedIs`).

`btnd.c` keeps one leading code and its lead: a press of another code takes one
off. `VoteIsClear` says nothing of the total, so it is not inductive.
`LeadBounds` is the bound it needs: with `total` presses, twice the leader's count is
at most `total + num`, and twice anybody else's plus `num` is at most `total`. `Count`
keeps it in each of its three cases (`CountKeepsBounds`), and `VoteInv` adds when it
applies (`VoteStep`). At the moment of the announcement `num = DetectionPresses` and
`total < MaxPresses`, so another code has at most
`(total - DetectionPresses) / 2 < DetectionPresses` presses (`ClearWinner`). The
assumption on the limits is what this takes; with 5 and 12 it holds, and a press limit
above three times the lead could announce the wrong button.

Its second part, about `BtnSession`, for any codes, limits, number of children and length of
the pipes:

- `SessionDetects`: `SSpec => Spec`: the session with its processes implements
  `BtnDetection`, and so `VoteIsClear` holds of it (`SessionVoteClear`);
- `HasChild` (`DetectionHasChild`), `ListensAlone` (`OneListener`),
  `AddsWhatWasAnnounced` (`AddIsForDetected`) and `CancelPutsBack` (`CancelDiscards`).

`StepDetects` maps each step of the session to one of `BtnDetection` or to none; a report
does because what is in a pipe is a message (`HeadReports`). `ChildOK` says that
who is linked, or serves the running detection, was not told to stop. `CalmOK` has
what a patient user adds: while one child is linked all the others are gone, hence no
SIGCHLD interrupts the wait and `NotLinked` cannot happen. `WindowOK` says that what is
marked new was added in this window where there was nothing: this needs
`AddIsForDetected`, for `Add` marks whatever button has the code, and that needs the leading
code to stay free while a detection runs.

`MouseDetectionProofs`, for any finite set of devices, any makes, machines and number of
detections:

- `OffersOneMouse` (`OneMouse`), `ListsWhatIsReported` (`ListedIsReported`) and
  `WatchesAlone` (`OneWatcher`: every child but the running detection's is told to stop).

`ListOK` adds that the list is empty in the main window, where `Detect` appends the devices it
finds to whatever is there. `WatchOK` adds that a detection runs in its own window only
and that its child was not told to stop. `ReportedOK` has what `ListedIsReported` needs of the
pipe: an unread report names a device that is watched no more and not listed yet
(`UnreadOK`), and with a patient user a pipe holds one message and one timer runs, so that
when reports are looked for the early ones have been read and dropped (`CalmOK`).

`IpPipesProofs`, for every number of children and of failing forks:

- `TypeCorrect`: `Spec => []TypeOK`;
- `StaysInBounds`: `Spec => []InBounds`: however SIGCHLD falls between the
  statements of `ip_pipe_handle_old_pids`, no access leaves `pids_unhandled`.

The two are inductive only together (`Step`): an overwritten entry keeps the
array's type because it is inside, and the bounds need the types. The strengthening
is that between `realloc()` and `num_unhandled--` the count is one more than the
length (a signal there makes both grow by one again), and that a removal under
way has an entry to remove (`num >= 1`).

- `NobodyIsLost`: `Spec => []DeadAreListed`;
- `OnlyTheDead`: `Spec => FreesItsOwn`: a removal closes the pipes of the child it is for and
  of no other.

`Rows` carries it. `TableOK` writes the table as pairs, the p-th at 2p-1 and 2p, each free or
of one child and no child of two: that the first free places are the two of one pair
(`FreeIndices`) is why a child that gets the pipes of a failed fork gets a matching pair,
and that a child's second index is the smaller (`FreedIsPaired`) is why
`ip_pipe_free_bypid` may keep it over the first removal. `ListOK` says where the
list counts in the middle of a removal (`Places`): not at the hole, and not at the
end once all have moved down. Neither `realloc()` nor the clearing of the last entry
then takes a child that is still owed its freeing (`RemovalRows`). `OnlyTheDead` adds
`Ended`: nobody who runs, nor anybody yet to be forked, is on the list. A removal closes what
it finds by the indices of one child (`FreedCloses`), and those are his pair.

`ConfigManagerProofs` has three layers, each for any names, identities and files:

- `Inv`, for any user, kills, failing calls and restores: types, what `current` can be before the
  window is open (`StartOK`), and unique names and identities in list, manager file and archive
  (`Unique`; a restore brings the archive's list back, so its uniqueness has to be carried
  along). From its step lemma (`Step`) follow `UniqueNames`, `OnlyDrifts` (`AgreeUnlessDrifts`),
  `EditsGoToTheirFile` (`EditsAreWritten`; assumes that no call fails, for an `Activate` whose
  save fails opens the next configuration all the same) and `SavedSurvives` (`EndingKeepsSaved`).
- `TreeInv` adds that the rows are the list's names in its order. `TreeIsList` is
  `TreeShowsList`. Its assumptions are where the code really loses it: names
  equal but for case (a rename may change another row), a `rename()` that fails at start-up
  and a restore without manager file (both leave rows). Kills and drifts are allowed.
- `HomeInv` adds, for a careful user, that a file holds its own configuration's values and
  there is no other file (`Homely`), the editor holds the open one's, and the
  star is on `current`. It gives `ValuesAreHome`, `NoFileIsOrphan` and `StarIsOnOpen`. It also
  assumes no kills: one between a rename and the next save leaves an orphan. That values
  are nowhere stray before a button was selected is part of it (`looked`), for the values of
  the editor go to the files and those of the files to the editor.

Two more rest on these:

- `LoadsTheDisk` (`LoadsWhatIsOnDisk`), for any user and wherever the program was killed:
  the list becomes the entries of the manager file that could be read and have a file, in its
  order, whatever `MaxConfigs` is and however long the file.
  `LoadInv` is the invariant of the loop: the entries it has passed have a file, none with
  a file has gone, and what is left is in order (`RemovedInOrder`).
- `BookIsImplemented` (`CarefulSpec => ImplementsBook`), under the assumptions of `HomeInv`.
  The `Ids...` and `Kept...` lemmas say what each operation on the list does to the
  sequence of identities and to the set of those with a file. The hard part is start-up
  (`BookStarts`): while it runs nothing of the book changes, although entries are dropped one
  by one, for the mapping looks at the manager file until the window is open; and then
  the list is what the manager file keeps, in its order (`KeptLoaded`).

The hard steps are the ones that shift: `TreeDelete` (a row goes by selection,
the entry by index, and both by the same place), `TreeSwap` and `TreeUpDown`,
`HomeRename` (the file moves with its entry; nothing lies under the new name), and
`HomeAtStart`, where entries are dropped while the manager file keeps them.

`RwLockProofs`, for any finite set of threads in either build:

- `CountIsTrue` (`RuncountIsTrue`), `NobodyForgotten` (`NoWakeUpLost`) and
  `LockImplemented` (`Spec => ImplementsLock`).

`Inv` has the two properties, the types, `StartOK` (the lock is initialised once, by
the thread that found `started` at 0, and nobody is inside before), and `PthreadOK` and
`Win32OK`: each ring holds exactly the threads of its kind that wait and have not been
woken, each once, and a lock that is free has empty queues. `RuncountIsTrue` alone is not inductive,
because handing the lock to whoever is first in the ring needs that he is a waiting writer. The
ring lemmas (`GrownKeeps`, `AddedAppends`, `FirstOffTail`) say that growing at any offset
keeps the queue and that adding and taking are `Append` and `Tail` of it.

`RevocoProofs`, for any names, ids, mice and files (`ConstantsOK`):

- `PageIsMouse` (`PageShowsMouse`), `OpenedAsWritten` (`Spec => OpenGivesFile`), and
  `CallsEnd`: on every page with `OwnMode` the unrolled operators satisfy the equations of
  the code, so that calls deeper than three would change nothing.

`OwnMode` ties the mode that is remembered to the mouse's, and `Shown` the widgets to the
mouse. The refresh breaks both on its way, for the callbacks it causes store fields that are not set
yet. One lemma for each call of the chain (`RadioIs`, `NestedIs`, `InsideIs`, `RefreshIs`,
`CheckIs`) therefore says what it makes of a page whose fields need not show its mouse, and the
invariant is of pages on which all calls have returned.

`MessageLookupProofs`, for any threads, calls, locales, aliases, files, hash functions and conversions:

- `LooksAtLoaded` (`UsesOnlyLoaded`);
- `SearchedAnew` (`AnswersRight`).

Three invariants, each resting on the ones before it. `Shape` has what threads hold, and that the
list of catalogs is closed: with a file, all that it inherits from. `make` needs this, because an
entry that is there already is taken as it is, with its successors (`DescendingIs` is the order
of the masks they are made in). `Loading` is the lock's part: a catalog marked as being loaded
has exactly the holder of the lock as its loader, and one that is decided has the contents of its
file (`Settled`). `LooksAtLoaded` follows from it. `Answering` follows a call: what it may still
answer (`Rest`) is right at every step (`OnTheWay`), for languages there were since the last
setting; and so is what a node of the tree with the present counter says (`Remembered`), unless
it is being changed. A thread in a call keeps the settings off, so that both speak of the present
bindings. The two exceptions of `AnswersRight` are where the code makes no promise (section 6):
`raced` for `Hits`, which reads a node that is being changed, `broken` for `Finds`, where two
threads open one encoding.

`ButtonEditorProofs`, for any buttons, texts, lists, configurations and number of changes
(`ConstantsOK`, `InputsOK`):

- `RoundTrip`: what is written of a table is read back, whatever the other buttons and the
  values hold, for any table whose raw codes are none of the reader's place-holders
  (`CanBeRead`) and whose buttons have a key code and a modifier;
- `EditorInvariant`: `CarefulSpec => [](careful => EditorInv)`; from it `TreeIsTable`
  (`TreeShowsTable`), `FieldsAreButton` (`FieldsShowButton`), `SavedIsRead` (`TableReadsBack`),
  `LookingKeeps` (`SelectKeepsValues`) and `OpeningGivesFile` (`OpenShowsFile`).

`RoundTrip` follows the reader from line to line. `Runs(x, ls, y)` says that reading the lines
`ls` takes it from `x` to `y`, wherever they are in a file; one lemma for each kind of line,
`RunsBoth` to put them together, and `InductOn` over the blocks. A value with a comment
sign in it is cut off, or eats its line, so that what comes back is `Back(b)`: the button
itself where its texts are plain.

`EditorInv` is of a page all of whose callbacks have returned: the types, the rows are the
table's (`TreeOK`), and the fields show the button edited (`Faithful`). The last cannot say less
while a field is refused than that the event type is still the button's: this is where the proof
failed at first and showed the third trap of section 6, which takes three changes. Three lemmas
carry the chain of calls: `UpdatedRight` (storing makes the page right if only the event type was
before), `RefreshedRight` (showing a button under `block_update` does, whatever was shown) and
`ShownQuietly` (without `block_update` it is the same where no field changes on the way).
`OpenKeepsOthers` is about the openings where some do: each callback stores into the button
edited and no other (`OnlyEdited`, `RefreshNear`). `SavedIsSound` rests on `RoundTrip`: what is
in the files is again a table the program can have stored.

Only model-checked: the liveness properties (`StoppedEnds`, `PressesCount`, `DeadAreFreed`,
`MovedIsListed`, `WritersGetIn`, `EveryCallReturns`), since fairness is out of the prover's
reach. That `plural_eval` and the search of a hash table compute what a reference definition says
is not stated: `SearchedAnew` holds whatever they compute, because both sides use them.
`SelectSeq` and functions written with `@@` are opaque to the prover; the models the theorems are
about use neither.

## 6. Where code and texts disagree

With a run that shows it: `cm_delete_drift`. Deleting a configuration above the open
one leaves `configs.current` one too high (`config_manager.c:198`); the next save writes
the editor's values into another configuration's file.

The rest was met while modelling. The models do what the code does; the properties
above are stated so that they hold all the same.

Configurations:

- Moving a configuration past the open one leaves `current` behind as well
  (`config_manager.c:222` and `242`; `MovesPast`).
- A manager file that names a configuration without a file leads at start-up to
  `name[-1]` (`config_manager.c:174`; `CheckMissingAborts`), which the comment at
  `config_manager.c:75` takes for a matter of course. A configuration created and never
  saved, followed by a save of another one, is enough.
- `configs.changed` is documented as "changed since saving" and is not raised by
  edits (`callbacks_config.c:194`; `Edit`).
- With `Work` and `WORK` both in the list, the star goes to the first of them, and a
  rename changes the first one's row (`tree_config.c:228`; `FindRow`).
- A file whose entry was lost (a rename, then a kill) is taken over by a new
  configuration of that name, which the manual calls "a new empty configuration"
  (`config_manager.c:99`).
- When `rename()` fails for the old version's file, its row stays in the tree
  (`config_manager.c:548`; `InitOldFails`), and moving it down swaps `name[-1]`
  (`DownAborts`).
- Of a manager file with more than 100 names the first 99 are read, and the next save writes
  these only: the files of the others stay, their entries are gone (`config_manager.c:428`;
  `ReadNames`).
- A kill between the move of an old version's file and the write of its entry leaves the file
  without one (`config_manager.c:548`; `KillInOpenOld`).
- Restoring does not remove the configurations that are there (manual, 516), and
  where it leaves no manager file it adds "Default" below the old rows. tar's exit status is compared
  with less than 0, which it never is, so a failure is not noticed (`Backup`, `Restore`).

Button editor:

- Opening a configuration refreshes the fields without `block_update` while `edit_rawcode` still
  names a button of the old one (`config_manager.c:374`, `config.c:94`): if the new configuration
  has that button too, the first callback stores the old values into it. `OpensQuietly` is when
  it does not, `OpenShowsFile` says that no other button is touched, and `ValuesStayHome` that
  nothing else leads from one configuration to another. OK in the detection window may do the
  same to a button detected while its raw code is edited (`callbacks_btnd.c:58`; `Detect`).
- Delete with no row selected removes the button edited and leaves its row.
- While one field is refused nothing is stored, but the others can be changed. An event type
  chosen then is stored by the callback of the field that is corrected, which makes no other
  fields sensitive (`callbacks_config.c:211`): the button is a command and the fields of a key
  can be edited. `FieldsShowButton` is about users who correct the field first.
- A copy loses the target of a configuration switch (manual, 482; `config.c:414`), and a
  rename leaves the target list with the old name until it is next filled.
- A negative or too large delay that is stored makes every later edit of that button
  silently refused (`config.c:263`); a button without a target shows the one before (`config.c:372`).
- A raw code that is one of the parser's place-holders is not read back (`config_file.c:126`).

Revoco:

- After a detection that found another mouse and was cancelled, a mouse that is no MX
  Revolution keeps its mode until the page is refreshed (manual, 624).
- A mode that is loaded when its radio button is on already leaves
  `revoco_prev_mode` at 0, so that disabling and enabling gives free mode (`revoco.c:163`).

Detection, children and pipes:

- A second start leaves Add sensitive while `cur_rawcode` moves on, so that Add
  may store a code nobody announced, 0 included (`btnd.c:127`; `Start`).
- OK does not stop a running detection (`callbacks_btnd.c:54`; `Ok`).
- After a failed fork the control button says stop (`callbacks_btnd.c:43`;
  `StartFails`).
- A stop and a start within a timer's period leave the old start timer running,
  which may end the new announcement (`timers.c:63`; excluded by `Hasty`).
- A late `IP_ACK` leaves a child nobody stops (`threads.c:103`; `NotLinked`).
- `IP_START_BTND` read together with `IP_ACK` is lost, and with it the detection
  (`ip_pipe.c:453`; `Linked`). So is a second device reported before the parent
  has read the first (`Writes` when not calm).
- The device `event0` is never listed (`moused.c:277`; `AddFirst`): the manual (345) has
  every device of the mouse in the list.
- A second start of mouse detection leaves Forward sensitive with no handler
  (`moused.c:188`; `Start`, `Forward`).
- Cancel in the second window keeps the mouse IDs the first one set
  (`callbacks_btnd.c:64`; `BtndCancel`).
- Closing a wizard window ends the program and leaves its child (`Exits`).
- A `fork()` for tar that fails returns with SIGCHLD still at its default
  (`threads.c:121`; `Archive`), though the comment at `threads.c:132` has it restored; and when tar is
  killed by a signal the loop on `WIFEXITED` never ends.

libintl:

- Once a message has been found, `de_DE.UTF-8` is looked for as it is written only, not
  as `de_DE.utf8` nor by its alias (`finddomain.c:85`; `Written`).
- The conversions of a catalog are reallocated under the read lock alone
  (`dcigettext.c:1029`), although the comment near line 1151 says why only one thread
  does such things (`broken`).
- A known translation's counter is written before the translation
  (`dcigettext.c:832`; `Stores`, `Updates`): a second thread may take the old one for fresh.
- If `iconv_open()` fails the text is returned as it is in the file (`Converted`).
- The comment at `l10nflist.c:311` has a name's modifier dropped first, then the territory;
  the masks are gone through from the highest, so that the normalised codeset goes first and
  the modifier last (`Chain`): for `de_DE@euro`, `de@euro` comes before `de_DE`.
- A hash table with no free place is searched for ever when the message is not in it, and a
  plural expression `n % 0` ends the program; the catalogs of the instance have neither.
- The Windows lock lets readers in before writers that wait (`lock.c`, `May`), and a
  destroyed lock keeps `guard.started`.

## 7. Not modelled

- The look of the windows, help and status bar, key code completion, `widgets.c`;
  `udev.c` (writes one file from the mouse IDs); restarting the daemon; `detect_button.c` (not
  built); translations and build files.
- Bytes and partial reads of messages (a message is far below `PIPE_BUF`), pid reuse, a
  child's SIGINT, `abort()`, and what may happen inside the C library when the signal
  handler calls it.
- libintl's `vasnprintf.c` and `printf-parse.c` (unused where `printf` has positions), the
  grammar of plural expressions (a catalog's header is given parsed), the tables of
  system locale names and charsets, per-thread locales, more than one category, an `LC_CTYPE`
  that changes, relative
  directories, SUID checks, and memory exhaustion. Of `lock.c`, once-controls and
  thin wrappers. btnx-config itself has one thread; the threads are there because
  the library's locks are.

What was assumed of libraries is that of GTK 2.10: a call that changes a
toggle, radio button or combo box runs its callback before it returns, one that sets it to what
it is does not, and setting an entry's text runs none of this program's callbacks.

------------------------------ MODULE RuleWatch -------------------------------
(***************************************************************************)
(* The hot reload of the scanner's rules                                   *)
(* (services/scanner/internal/rulewatch): a ticker compares the mtime of   *)
(* the rule pack with the last one recorded, and on a change loads,        *)
(* validates and swaps the pack, and then asks for the mtime again to      *)
(* record it.  An operator edits the file at any of these moments.         *)
(***************************************************************************)
EXTENDS Detection

CONSTANTS
  Version,     \* what the file may hold: see Loadable; readable = FALSE: no file
  NoPack,      \* nothing loaded
  MaxEdits     \* bound: edits of the file

ASSUME WatchAssumption ==
  /\ NoPack \notin Version /\ MaxEdits \in Nat
  /\ \A v \in Version : \A i \in DOMAIN v.pack : RuleType(v.pack[i])

VARIABLES
  file,        \* the file's contents
  mtime,       \* its modification time; every edit has one of its own
  read,        \* what LoadFile read, until the pack is swapped in
  watch,       \* Watcher: "new", "idle", "load", "swap", "stat", "gone"
  lastMtime,   \* Watcher.lastMtime, 0 before the first load
  current,     \* the pack of Watcher.current
  unseen       \* history: the last edit fell between LoadFile and the second stat

watchVars == <<file, mtime, read, watch, lastMtime, current, unseen>>

\* The version NewWatcher finds, before its first load.
WatchInit(first) ==
  /\ file = first /\ mtime = 1
  /\ read = NoPack /\ watch = "new" /\ lastMtime = 0
  /\ current = NoPack /\ unseen = FALSE

Usable(version) == Loadable(version) /\ Validate(version.pack)

-----------------------------------------------------------------------------

\* The operator writes the file, or removes it.
Edit ==
  /\ mtime <= MaxEdits
  /\ \E v \in Version \ {file} : file' = v
  /\ mtime' = mtime + 1
  /\ unseen' = (watch \in {"swap", "stat"})
  /\ UNCHANGED <<read, watch, lastMtime, current>>

\* checkAndReload: a changed mtime starts a reload.
CheckMtime ==
  /\ watch = "idle"
  /\ file.readable
  /\ mtime # lastMtime
  /\ watch' = "load"
  /\ UNCHANGED <<file, mtime, read, lastMtime, current, unseen>>

\* reload: LoadFile and Validate, in NewWatcher and on a tick.
Load ==
  /\ watch \in {"new", "load"}
  /\ Usable(file)
  /\ read' = file /\ watch' = "swap"
  /\ unseen' = FALSE
  /\ UNCHANGED <<file, mtime, lastMtime, current>>

\* Mutant: a reload that fails ends the ticker's loop.
StopOnBadPack ==
  /\ watch = "load"
  /\ ~Usable(file)
  /\ watch' = "off"
  /\ UNCHANGED <<file, mtime, read, lastMtime, current, unseen>>

\* A pack that does not load: the previous one keeps serving, lastMtime stays, and
\* the next tick tries again.
LoadFails ==
  /\ watch = "load"
  /\ ~Usable(file)
  /\ watch' = "idle"
  /\ UNCHANGED <<file, mtime, read, lastMtime, current, unseen>>

\* NewWatcher's error ends the process.
FirstLoadFails ==
  /\ watch = "new"
  /\ ~Usable(file)
  /\ watch' = "gone"
  /\ UNCHANGED <<file, mtime, read, lastMtime, current, unseen>>

\* w.current.Store.
Swap ==
  /\ watch = "swap"
  /\ current' = read /\ read' = NoPack
  /\ watch' = "stat"
  /\ UNCHANGED <<file, mtime, lastMtime, unseen>>

\* The mtime recorded is that of the second stat; without a file, none is.
Stat ==
  /\ watch = "stat"
  /\ lastMtime' = IF file.readable THEN mtime ELSE lastMtime
  /\ watch' = "idle"
  /\ UNCHANGED <<file, mtime, read, current, unseen>>

Watch == CheckMtime \/ Load \/ LoadFails \/ FirstLoadFails \/ Swap \/ Stat

===============================================================================

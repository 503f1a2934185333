-------------------------- MODULE GestureSuppressor --------------------------
(***************************************************************************)
(* hardware/gesture_suppressor_darwin.go: the system's trackpad gestures   *)
(* are turned off while the program runs, by overwriting the user's        *)
(* preferences with the `defaults' command.                                *)
(*                                                                         *)
(* Start exports each domain to a temporary file before it overwrites the  *)
(* domain's gesture keys; Stop imports the files again, last domain first, *)
(* removes them and then deletes the Dock's gesture keys.  A domain that   *)
(* does not exist has no file: Stop deletes the keys.  When a step of      *)
(* Start fails, Start restores what it has backed up so far.               *)
(*                                                                         *)
(* Each command is a process of its own that may fail, and the program may *)
(* die between two of them (SIGKILL, a crash, a power cut) and be started  *)
(* again.  The files and the preferences survive; g does not.              *)
(***************************************************************************)
EXTENDS Integers, Sequences, SequencesExt

CONSTANTS
  Domains,         \* the domains of dockGestureDomains, in order
  Dock,            \* "com.apple.dock"
  GestureKeys,     \* gestureKeys
  DockKeys,        \* dockGestureDefaults
  OtherKeys,       \* keys of these domains that are not about gestures
  MaxStarts        \* bound: times the program is started

ASSUME DomainsAssumption ==
  /\ Domains \in Seq(ToSet(Domains))
  /\ \A i, j \in DOMAIN Domains : Domains[i] = Domains[j] => i = j
ASSUME StartsAssumption == MaxStarts \in Nat
ASSUME DockAssumption == Dock \in ToSet(Domains)
ASSUME KeysAssumption == DockKeys \subseteq GestureKeys /\ OtherKeys \cap GestureKeys = {}

VARIABLES
  prefs,           \* the preferences, per domain and key
  files,           \* backup files: the start and domain they were made for,
                   \* and the exported values
  pc, at,          \* what the program does, and with which domain
  backups,         \* Start's backups, g.backups from the end of Start
  imported,        \* restore has tried to import the last backup
  starts,          \* history: times the program was started
  before,          \* history: the preferences before the latest Start
  initial,         \* history: the user's own preferences
  failed,          \* history: a command failed that the code does not check
  dockRemoved      \* history: a Stop has deleted the Dock's gesture keys

vars == <<prefs, files, pc, at, backups, imported, starts, before, initial, failed,
          dockRemoved>>

Keys == GestureKeys \cup OtherKeys
Values == {"absent", "users", "off"}

Exists(p, d) == \E k \in Keys : p[d][k] # "absent"

\* The values of domain d once the keys K have been set to v.
With(p, d, K, v) ==
  [p EXCEPT ![d] = [k \in Keys |-> IF k \in K THEN v ELSE @[k]]]

Init ==
  /\ prefs \in [ToSet(Domains) -> [Keys -> {"absent", "users"}]]
  /\ files = {}
  /\ pc = "new" /\ at = 0 /\ backups = << >> /\ imported = FALSE
  /\ starts = 0 /\ before = prefs /\ initial = prefs /\ failed = FALSE
  /\ dockRemoved = FALSE

Start ==
  /\ pc \in {"new", "stopped", "refused", "dead"}
  /\ starts < MaxStarts
  /\ starts' = starts + 1
  /\ before' = prefs
  /\ pc' = "backup" /\ at' = 1 /\ backups' = << >>
  /\ UNCHANGED <<prefs, files, imported, initial, failed, dockRemoved>>

-----------------------------------------------------------------------------

\* defaultsDomainExists fails: the domain is taken not to exist.
BackupAbsent ==
  /\ pc = "backup"
  /\ backups' = Append(backups, [domain |-> Domains[at], exists |-> FALSE])
  /\ failed' = (failed \/ Exists(prefs, Domains[at]))
  /\ pc' = "write"
  /\ UNCHANGED <<prefs, files, imported, at, starts, before, initial,
                 dockRemoved>>

\* Mutant: only the gesture keys are exported.
BackupExported_GesturesOnly ==
  /\ pc = "backup" /\ Exists(prefs, Domains[at])
  /\ backups' = Append(backups, [domain |-> Domains[at], exists |-> TRUE])
  /\ files' = files \cup {[start |-> starts, domain |-> Domains[at],
       values |-> With(prefs, Domains[at], OtherKeys, "absent")[Domains[at]]]}
  /\ pc' = "write"
  /\ UNCHANGED <<prefs, imported, at, starts, before, initial, failed,
                 dockRemoved>>

\* The domain exists and is exported to a temporary file.
BackupExported ==
  /\ pc = "backup" /\ Exists(prefs, Domains[at])
  /\ backups' = Append(backups, [domain |-> Domains[at], exists |-> TRUE])
  /\ files' = files \cup {[start |-> starts, domain |-> Domains[at],
                           values |-> prefs[Domains[at]]]}
  /\ pc' = "write"
  /\ UNCHANGED <<prefs, imported, at, starts, before, initial, failed,
                 dockRemoved>>

\* The temporary file cannot be made, or the export fails.
BackupFails ==
  /\ pc = "backup" /\ Exists(prefs, Domains[at])
  /\ pc' = "undo"
  /\ UNCHANGED <<prefs, files, imported, at, backups, starts, before,
                 initial, failed, dockRemoved>>

\* The loop over gestureKeys: it ends with the first write that fails, so
\* some keys are off then.
WriteGestureKeys(K) ==
  /\ pc = "write"
  /\ prefs' = With(prefs, Domains[at], K, "off")
  /\ IF K # GestureKeys THEN pc' = "undo" /\ UNCHANGED at
     ELSE IF at < Len(Domains) THEN pc' = "backup" /\ at' = at + 1
     ELSE pc' = "dock" /\ UNCHANGED at
  /\ UNCHANGED <<files, imported, backups, starts, before, initial, failed,
                 dockRemoved>>

\* writeDockGestureOverrides; Start has succeeded if all its writes have.
WriteDockOverrides(K) ==
  /\ pc = "dock"
  /\ prefs' = With(prefs, Dock, K, "off")
  /\ pc' = IF K = DockKeys THEN "active" ELSE "undo"
  /\ UNCHANGED <<files, imported, at, backups, starts, before, initial,
                 failed, dockRemoved>>

Stop ==
  /\ pc = "active"
  /\ pc' = "restore"
  /\ UNCHANGED <<prefs, files, imported, at, backups, starts, before,
                 initial, failed, dockRemoved>>

-----------------------------------------------------------------------------

Restoring == pc \in {"undo", "restore"} /\ backups # << >>

Backup == Last(backups)

OwnFile(file) == file.start = starts /\ file.domain = Backup.domain

\* The values that `defaults import' may leave: the keys of the file are
\* set; whether the others are removed is not documented.
Imported(file) ==
  {file.values,
   [k \in Keys |-> IF file.values[k] = "absent" THEN prefs[file.domain][k]
                   ELSE file.values[k]]}

\* One iteration of restore for an exported domain, up to the import.
ImportDomain ==
  /\ Restoring /\ Backup.exists /\ ~imported
  /\ imported' = TRUE
  /\ \/ \E file \in files : \E values \in Imported(file) :
          /\ OwnFile(file)
          /\ prefs' = [prefs EXCEPT ![Backup.domain] = values]
          /\ UNCHANGED failed
     \/ failed' = TRUE /\ UNCHANGED prefs
  /\ UNCHANGED <<files, pc, at, backups, starts, before, initial, dockRemoved>>

\* Mutant: the file is kept when it has been imported.
RemoveBackup_Keep ==
  /\ Restoring /\ imported
  /\ UNCHANGED <<files, failed, dockRemoved>>
  /\ backups' = Front(backups)
  /\ imported' = FALSE
  /\ UNCHANGED <<prefs, pc, at, starts, before, initial, dockRemoved>>

\* Mutant: the next iteration believes that it has imported its file.
RemoveBackup_StillImported ==
  /\ Restoring /\ imported
  /\ \/ files' = {file \in files : ~OwnFile(file)} /\ UNCHANGED failed
     \/ failed' = TRUE /\ UNCHANGED files
  /\ backups' = Front(backups)
  /\ UNCHANGED <<prefs, imported, pc, at, starts, before, initial, dockRemoved>>

\* The rest of the iteration: os.Remove, whether the import worked or not.
RemoveBackup ==
  /\ Restoring /\ imported
  /\ \/ files' = {file \in files : ~OwnFile(file)} /\ UNCHANGED failed
     \/ failed' = TRUE /\ UNCHANGED files
  /\ backups' = Front(backups)
  /\ imported' = FALSE
  /\ UNCHANGED <<prefs, pc, at, starts, before, initial, dockRemoved>>

\* An iteration for a domain that was not exported: the deletes that work.
DeleteGestureKeys(K) ==
  /\ Restoring /\ ~Backup.exists
  /\ prefs' = With(prefs, Backup.domain, K, "absent")
  /\ failed' = (failed \/ K # GestureKeys)
  /\ backups' = Front(backups)
  /\ UNCHANGED <<files, imported, pc, at, starts, before, initial, dockRemoved>>

\* Start returns its error.
Refuse ==
  /\ pc = "undo" /\ backups = << >>
  /\ pc' = "refused"
  /\ UNCHANGED <<prefs, files, imported, at, backups, starts, before, initial,
                 failed, dockRemoved>>

\* removeDockGestureOverrides, the end of Stop: the deletes that work.
RemoveDockOverrides(K) ==
  /\ pc = "restore" /\ backups = << >>
  /\ prefs' = With(prefs, Dock, K, "absent")
  /\ failed' = (failed \/ K # DockKeys)
  /\ dockRemoved' = TRUE
  /\ pc' = "stopped"
  /\ UNCHANGED <<files, imported, at, backups, starts, before, initial>>

\* The program dies.
Crash ==
  /\ pc \notin {"new", "stopped", "refused", "dead"}
  /\ pc' = "dead"
  /\ backups' = << >> /\ imported' = FALSE
  /\ UNCHANGED <<prefs, files, at, starts, before, initial, failed,
                 dockRemoved>>

Next ==
  \/ Start \/ Stop \/ Refuse \/ Crash
  \/ BackupAbsent \/ BackupExported \/ BackupFails
  \/ \E K \in SUBSET GestureKeys : WriteGestureKeys(K) \/ DeleteGestureKeys(K)
  \/ \E K \in SUBSET DockKeys : WriteDockOverrides(K) \/ RemoveDockOverrides(K)
  \/ ImportDomain \/ RemoveBackup

Spec == Init /\ [][Next]_vars

-----------------------------------------------------------------------------

TypeOK ==
  /\ prefs \in [ToSet(Domains) -> [Keys -> Values]]
  /\ \A file \in files : /\ file.start \in 1..starts
                         /\ file.domain \in ToSet(Domains)
                         /\ file.values \in [Keys -> Values]
  /\ pc \in {"new", "backup", "write", "dock", "active", "undo", "restore",
             "stopped", "refused", "dead"}
  /\ at \in 0..Len(Domains)
  /\ Len(backups) <= Len(Domains)
  /\ imported => Restoring
  /\ starts \in 0..MaxStarts
  /\ failed \in BOOLEAN /\ dockRemoved \in BOOLEAN

\* The preferences p give back what the user had set in q, the keys of the
\* Dock excepted when `dock' says so; and a domain that did not exist in q
\* has no gesture keys.
GivesBack(p, q, dock) ==
  \A d \in ToSet(Domains), k \in Keys :
    \/ q[d][k] # "absent" /\ p[d][k] = q[d][k]
    \/ q[d][k] = "absent" /\ (~Exists(q, d) => p[d][k] = "absent")
    \/ dock /\ d = Dock /\ k \in DockKeys

(***************************************************************************)
(* A start that is refused, and a stop, give the user's preferences back   *)
(* and leave no backup file, wherever in its sequence of commands the      *)
(* start failed and whatever earlier runs of the program left behind, as   *)
(* long as no command failed whose error the code ignores.  After a stop   *)
(* this excludes the Dock's gesture keys, which Stop deletes.              *)
(***************************************************************************)
GivenBack ==
  pc \in {"stopped", "refused"} /\ ~failed =>
    /\ GivesBack(prefs, before, pc = "stopped")
    /\ \A file \in files : file.start # starts

(***************************************************************************)
(* What the user had set is never lost, not even when the program dies     *)
(* halfway and is started again over preferences it had overwritten: each  *)
(* value is still in force or in a backup file, as long as no command      *)
(* failed whose error the code ignores.  The Dock's gesture keys are       *)
(* excepted once a Stop has deleted them.                                  *)
(***************************************************************************)
NeverLost ==
  ~failed =>
    \A d \in ToSet(Domains), k \in Keys :
      initial[d][k] = "users" =>
        \/ prefs[d][k] = "users"
        \/ \E file \in files : file.domain = d /\ file.values[k] = "users"
        \/ d = Dock /\ k \in DockKeys /\ dockRemoved

(***************************************************************************)
(* The log says that the gestures are turned off "temporarily": after a    *)
(* stop without any failure, each preference the user had set is set       *)
(* again.  The code breaks this for the Dock: Stop imports its backup and  *)
(* then deletes the four gesture keys just restored.                       *)
(***************************************************************************)
OnlyTemporarily ==
  pc = "stopped" /\ ~failed => GivesBack(prefs, before, FALSE)
=============================================================================

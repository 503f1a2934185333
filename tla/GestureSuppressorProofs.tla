----------------------- MODULE GestureSuppressorProofs -----------------------
(***************************************************************************)
(* What holds of the suppressor for any number of domains and keys, any    *)
(* number of starts, and wherever its commands fail or the program dies.   *)
(* The argument follows one start: what it has not come to is as it was,   *)
(* what it has overwritten is in a file of its own, and what it has        *)
(* restored is as it was again.  The files of earlier starts only matter   *)
(* as the places where the user's values may still be.                     *)
(***************************************************************************)
EXTENDS GestureSuppressor, SequenceTheorems, TLAPS

All == 1 .. Len(Domains)
Held == Len(backups)

\* The variables' types, beyond those that TypeOK states.
TypeInv ==
  /\ TypeOK
  /\ before \in [ToSet(Domains) -> [Keys -> Values]]
  /\ backups \in Seq([domain : ToSet(Domains), exists : BOOLEAN])
  /\ pc # "new" => starts >= 1

\* How many domains are backed up, wherever the program is.
CountInv ==
  /\ pc = "backup" => at \in All /\ Held = at - 1
  /\ pc = "write" => at \in All /\ Held = at
  /\ pc \in {"dock", "active"} => Held = Len(Domains)
  /\ pc \in {"new", "stopped", "refused", "dead"} => Held = 0
  /\ imported => Restoring /\ Backup.exists

\* The backups are those of the first domains: one that existed is in a file,
\* and one that did not has nothing to be kept.
BackupInv ==
  \A j \in 1 .. Held :
    /\ backups[j].domain = Domains[j]
    /\ backups[j].exists => /\ Exists(before, Domains[j])
                            /\ \E file \in files : file.start = starts /\ file.domain = Domains[j]
    /\ ~backups[j].exists /\ ~failed => ~Exists(before, Domains[j])

\* A start's own files hold what was set before it, and none is left of a
\* domain that it has restored.
FileInv ==
  \A file \in files :
    file.start = starts =>
      /\ file.values = before[file.domain]
      /\ ~failed /\ pc # "dead" =>
           \E j \in 1 .. Held : file.domain = Domains[j] /\ backups[j].exists

\* What Start has not come to is as it was; where it has been, all is off.
StartInv ==
  /\ pc \in {"backup", "write"} =>
       \A j \in All :
         /\ j >= at => prefs[Domains[j]] = before[Domains[j]]
         /\ j < at => \A k \in GestureKeys : prefs[Domains[j]][k] = "off"
  /\ pc = "dock" => \A j \in All, k \in GestureKeys : prefs[Domains[j]][k] = "off"

\* Domain d is as it was before, or as close to it as an import can make it.
Restored(d) ==
  \A k \in Keys :
    \/ before[d][k] # "absent" /\ prefs[d][k] = before[d][k]
    \/ before[d][k] = "absent" /\ (~Exists(before, d) => prefs[d][k] = "absent")

\* Of the domains that are backed up the last comes first.
RestoreInv ==
  pc \in {"undo", "restore"} /\ ~failed =>
    \A j \in All : j > Held \/ (imported /\ j = Held) => Restored(Domains[j])

\* Only gesture keys change, and nothing is made the user's that was not.
KeysInv ==
  \A d \in ToSet(Domains), k \in Keys :
    /\ k \in OtherKeys => prefs[d][k] = before[d][k]
    /\ prefs[d][k] = "users" => before[d][k] = "users"

GestureInv ==
  /\ TypeInv /\ CountInv /\ BackupInv /\ FileInv
  /\ StartInv /\ RestoreInv /\ KeysInv /\ GivenBack /\ NeverLost

-----------------------------------------------------------------------------
\* Sequences and domains.

\* The last element of a sequence, and the others.
LEMMA LastFront ==
  ASSUME NEW S, NEW s \in Seq(S), s # << >>
  PROVE  /\ Len(s) \in Nat /\ Len(s) >= 1 /\ Last(s) = s[Len(s)] /\ Last(s) \in S
         /\ Front(s) \in Seq(S) /\ Len(Front(s)) = Len(s) - 1
         /\ \A i \in 1 .. Len(s) - 1 : Front(s)[i] = s[i]
<1>1. Len(s) \in Nat /\ Len(s) >= 1 /\ \A i \in 1 .. Len(s) : s[i] \in S
  BY EmptySeq, LenProperties
<1>2. \A i \in 1 .. Len(s) - 1 : s[i] \in S
  BY <1>1
<1>3. /\ SubSeq(s, 1, Len(s) - 1) \in Seq(S) /\ Len(SubSeq(s, 1, Len(s) - 1)) = Len(s) - 1
      /\ \A i \in 1 .. Len(s) - 1 : SubSeq(s, 1, Len(s) - 1)[i] = s[i]
  <2> DEFINE n == Len(s) - 1
  <2>1. n \in Int /\ 1 \in Int /\ \A i \in 1 .. n : s[i] \in S
    BY <1>1, <1>2
  <2> HIDE DEF n
  <2>2. /\ SubSeq(s, 1, n) \in Seq(S) /\ Len(SubSeq(s, 1, n)) = IF 1 <= n THEN n - 1 + 1 ELSE 0
        /\ \A i \in 1 .. n - 1 + 1 : SubSeq(s, 1, n)[i] = s[1 + i - 1]
    BY <2>1, SubSeqProperties
  <2>3. n = Len(s) - 1
    BY DEF n
  <2> QED  BY <1>1, <2>2, <2>3
<1> QED  BY <1>1, <1>3 DEF Last, Front

\* The domains and their places.
LEMMA DomainsAre ==
  /\ Len(Domains) \in Nat /\ DOMAIN Domains = All
  /\ \A j \in All : Domains[j] \in ToSet(Domains)
  /\ \A d \in ToSet(Domains) : \E j \in All : Domains[j] = d
  /\ \A i, j \in All : Domains[i] = Domains[j] => i = j
<1>1. Len(Domains) \in Nat /\ DOMAIN Domains = All
  BY DomainsAssumption, LenProperties DEF All
<1> QED  BY <1>1, DomainsAssumption DEF ToSet

\* What a command does to the values of a domain.
LEMMA WithIs ==
  ASSUME NEW p \in [ToSet(Domains) -> [Keys -> Values]], NEW e \in ToSet(Domains),
         NEW K \in SUBSET Keys, NEW v \in Values
  PROVE  /\ With(p, e, K, v) \in [ToSet(Domains) -> [Keys -> Values]]
         /\ \A d \in ToSet(Domains), k \in Keys :
              With(p, e, K, v)[d][k] = IF d = e /\ k \in K THEN v ELSE p[d][k]
         /\ \A d \in ToSet(Domains) : d # e => With(p, e, K, v)[d] = p[d]
  BY DEF With

\* What is written, and to which keys.
LEMMA KeysAre ==
  /\ "off" \in Values /\ "absent" \in Values
  /\ \A K : K \subseteq GestureKeys \/ K \subseteq DockKeys => K \in SUBSET Keys
  BY KeysAssumption DEF Keys, Values

\* The backup that restore is at.
LEMMA BackupIs ==
  ASSUME TypeInv, CountInv, BackupInv, Restoring
  PROVE  /\ Held \in All /\ Backup = backups[Held]
         /\ Backup.domain = Domains[Held] /\ Backup.domain \in ToSet(Domains)
         /\ Backup.exists \in BOOLEAN
         /\ Front(backups) \in Seq([domain : ToSet(Domains), exists : BOOLEAN])
         /\ Len(Front(backups)) = Held - 1
         /\ \A j \in 1 .. Held - 1 : Front(backups)[j] = backups[j]
<1>1. backups # << >> /\ backups \in Seq([domain : ToSet(Domains), exists : BOOLEAN])
  BY DEF Restoring, TypeInv
<1>2. Held \in Nat /\ Held >= 1 /\ Held <= Len(Domains)
  BY <1>1, LastFront DEF Held, TypeInv, TypeOK
<1>3. Held \in All /\ Held \in 1 .. Held
  BY <1>2, DomainsAre DEF All
<1>4. Backup = backups[Held] /\ Backup \in [domain : ToSet(Domains), exists : BOOLEAN]
  BY <1>1, LastFront DEF Backup, Held
<1>5. Backup.domain = Domains[Held]
  BY <1>3, <1>4 DEF BackupInv
<1> QED  BY <1>1, <1>3, <1>4, <1>5, LastFront DEF Held

-----------------------------------------------------------------------------
\* The invariant, one part after the other.

\* It holds before the first start.
LEMMA GestureInvInit == Init => GestureInv
<1> SUFFICES ASSUME Init PROVE GestureInv
  OBVIOUS
<1> USE DEF Init, Held
<1>1. Len(backups) = 0 /\ Len(Domains) \in Nat
  BY EmptySeq, DomainsAre
<1>2. prefs \in [ToSet(Domains) -> [Keys -> Values]]
  BY DEF Values
<1>3. TypeInv
  <2>1. backups \in Seq([domain : ToSet(Domains), exists : BOOLEAN])
    BY EmptySeq
  <2>2. at \in 0 .. Len(Domains) /\ Len(backups) <= Len(Domains) /\ starts \in 0 .. MaxStarts
    BY <1>1, StartsAssumption
  <2>3. before \in [ToSet(Domains) -> [Keys -> Values]]
    BY <1>2
  <2>4. (imported => Restoring) /\ (pc # "new" => starts >= 1)
    OBVIOUS
  <2>5. TypeOK
    BY <1>2, <2>2, <2>4 DEF TypeOK
  <2> QED  BY <2>1, <2>3, <2>4, <2>5 DEF TypeInv
<1>4. CountInv /\ BackupInv /\ FileInv /\ StartInv /\ RestoreInv /\ GivenBack
  BY <1>1 DEF CountInv, BackupInv, FileInv, StartInv, RestoreInv, GivenBack, Restoring
<1>5. KeysInv /\ NeverLost
  BY DEF KeysInv, NeverLost
<1> QED  BY <1>3, <1>4, <1>5 DEF GestureInv

\* A start has a domain that it is at, and one more backup after it.
LEMMA AppendedIs ==
  ASSUME TypeInv, CountInv, pc = "backup", NEW e \in BOOLEAN,
         backups' = Append(backups, [domain |-> Domains[at], exists |-> e])
  PROVE  /\ at \in All /\ Domains[at] \in ToSet(Domains)
         /\ backups' \in Seq([domain : ToSet(Domains), exists : BOOLEAN])
         /\ Held' = at /\ Held = at - 1
         /\ \A j \in 1 .. Held : backups'[j] = backups[j]
         /\ backups'[at] = [domain |-> Domains[at], exists |-> e]
<1>1. at \in All /\ Held = at - 1 /\ Domains[at] \in ToSet(Domains)
  BY DomainsAre DEF CountInv
<1>2. /\ backups \in Seq([domain : ToSet(Domains), exists : BOOLEAN])
      /\ [domain |-> Domains[at], exists |-> e] \in [domain : ToSet(Domains), exists : BOOLEAN]
  BY <1>1 DEF TypeInv
<1>3. Held' = Held + 1 /\ at \in Nat /\ Held \in Nat
  BY <1>1, <1>2, AppendProperties, DomainsAre DEF Held, All
<1> QED  BY <1>1, <1>2, <1>3, AppendProperties DEF Held

\* Every step keeps the types.
LEMMA TypeStep ==
  ASSUME TypeInv, CountInv, BackupInv, [Next]_vars
  PROVE  TypeInv'
<1> USE DEF TypeInv, TypeOK
<1>0. imported => Restoring /\ Backup.exists
  BY DEF CountInv
<1>1. CASE UNCHANGED vars
  BY <1>1 DEF vars, Restoring
<1>2. CASE Start
  <2>1. backups' = << >> /\ starts' = starts + 1 /\ starts' \in 1 .. MaxStarts /\ at' = 1
    BY <1>2, StartsAssumption DEF Start
  <2>2. 1 \in 0 .. Len(Domains)
    BY DockAssumption, DomainsAre DEF All
  <2>3. Len(backups') = 0 /\ backups' \in Seq([domain : ToSet(Domains), exists : BOOLEAN])
    BY <2>1, EmptySeq
  <2>4. ~imported
    BY <1>0, <1>2 DEF Start, Restoring
  <2> QED  BY <1>2, <2>1, <2>2, <2>3, <2>4, DomainsAre DEF Start
<1>3. CASE BackupAbsent
  <2>1. at \in All /\ Held' = at /\ backups' \in Seq([domain : ToSet(Domains), exists : BOOLEAN])
    BY <1>3, AppendedIs DEF BackupAbsent
  <2> QED  BY <1>0, <1>3, <2>1, DomainsAre DEF BackupAbsent, Held, All, Restoring
<1>4. CASE BackupExported
  <2>1. /\ at \in All /\ Held' = at /\ Domains[at] \in ToSet(Domains)
        /\ backups' \in Seq([domain : ToSet(Domains), exists : BOOLEAN])
    BY <1>4, AppendedIs DEF BackupExported
  <2>2. starts \in 1 .. starts /\ prefs[Domains[at]] \in [Keys -> Values]
    BY <1>4, <2>1 DEF BackupExported
  <2> QED  BY <1>0, <1>4, <2>1, <2>2, DomainsAre DEF BackupExported, Held, All, Restoring
<1>5. CASE BackupFails \/ Stop \/ Refuse
  BY <1>0, <1>5 DEF BackupFails, Stop, Refuse, Restoring
<1>6. CASE Crash
  <2>1. Len(<< >>) = 0 /\ << >> \in Seq([domain : ToSet(Domains), exists : BOOLEAN])
    BY EmptySeq
  <2> QED  BY <1>6, <2>1, DomainsAre DEF Crash
<1>7. ASSUME NEW K \in SUBSET GestureKeys, WriteGestureKeys(K) PROVE TypeInv'
  <2>1. at \in All /\ Domains[at] \in ToSet(Domains)
    BY <1>7, DomainsAre DEF WriteGestureKeys, CountInv
  <2>2. prefs' \in [ToSet(Domains) -> [Keys -> Values]]
    <3>1. K \in SUBSET Keys /\ "off" \in Values
      BY KeysAre
    <3>2. With(prefs, Domains[at], K, "off") \in [ToSet(Domains) -> [Keys -> Values]]
      BY <2>1, <3>1 DEF With
    <3> QED  BY <1>7, <3>2 DEF WriteGestureKeys
  <2> QED  BY <1>0, <1>7, <2>1, <2>2, DomainsAre DEF WriteGestureKeys, All, Restoring
<1>8. ASSUME NEW K \in SUBSET DockKeys, WriteDockOverrides(K) \/ RemoveDockOverrides(K)
      PROVE  TypeInv'
  <2>1. prefs' \in [ToSet(Domains) -> [Keys -> Values]]
    <3>1. K \in SUBSET Keys /\ "off" \in Values /\ "absent" \in Values
      BY KeysAre
    <3>2. /\ With(prefs, Dock, K, "off") \in [ToSet(Domains) -> [Keys -> Values]]
          /\ With(prefs, Dock, K, "absent") \in [ToSet(Domains) -> [Keys -> Values]]
      BY <3>1, DockAssumption DEF With
    <3> QED  BY <1>8, <3>2 DEF WriteDockOverrides, RemoveDockOverrides
  <2>2. pc' \in {"active", "undo", "stopped"} /\ (pc = "dock" => pc' \in {"active", "undo"})
    BY <1>8 DEF WriteDockOverrides, RemoveDockOverrides
  <2>3. failed' \in BOOLEAN /\ dockRemoved' \in BOOLEAN
    BY <1>8 DEF WriteDockOverrides, RemoveDockOverrides
  <2>4. ~imported /\ UNCHANGED <<files, imported, at, backups, starts, before>> /\ pc # "new"
    BY <1>0, <1>8 DEF WriteDockOverrides, RemoveDockOverrides, Restoring
  <2> QED  BY <2>1, <2>2, <2>3, <2>4
<1>9. CASE ImportDomain
  <2>1. prefs' \in [ToSet(Domains) -> [Keys -> Values]]
    <3>1. ASSUME NEW file \in files, NEW values \in Imported(file), OwnFile(file)
          PROVE  values \in [Keys -> Values]
      BY <3>1 DEF Imported
    <3> QED  BY <1>9, <3>1 DEF ImportDomain
  <2> QED  BY <1>9, <2>1 DEF ImportDomain, Restoring
<1>10. CASE RemoveBackup
  <2>1. /\ Held \in All /\ Len(Front(backups)) = Held - 1
        /\ Front(backups) \in Seq([domain : ToSet(Domains), exists : BOOLEAN])
    BY <1>10, BackupIs DEF RemoveBackup
  <2>2. failed' \in BOOLEAN
    BY <1>10 DEF RemoveBackup
  <2>3. files' \subseteq files
    BY <1>10 DEF RemoveBackup
  <2> QED  BY <1>10, <2>1, <2>2, <2>3, DomainsAre DEF RemoveBackup, Held, All
<1>11. ASSUME NEW K \in SUBSET GestureKeys, DeleteGestureKeys(K) PROVE TypeInv'
  <2>1. /\ Held \in All /\ Len(Front(backups)) = Held - 1
        /\ Front(backups) \in Seq([domain : ToSet(Domains), exists : BOOLEAN])
        /\ Backup.domain \in ToSet(Domains)
    BY <1>11, BackupIs DEF DeleteGestureKeys
  <2>2. prefs' \in [ToSet(Domains) -> [Keys -> Values]]
    <3>1. K \in SUBSET Keys /\ "absent" \in Values
      BY KeysAre
    <3>2. With(prefs, Backup.domain, K, "absent") \in [ToSet(Domains) -> [Keys -> Values]]
      BY <2>1, <3>1 DEF With
    <3> QED  BY <1>11, <3>2 DEF DeleteGestureKeys
  <2>3. ~imported
    BY <1>0, <1>11 DEF DeleteGestureKeys
  <2> QED  BY <1>11, <2>1, <2>2, <2>3, DomainsAre DEF DeleteGestureKeys, Held, All
<1> QED
  BY <1>1, <1>2, <1>3, <1>4, <1>5, <1>6, <1>7, <1>8, <1>9, <1>10, <1>11 DEF Next

-----------------------------------------------------------------------------
\* What the commands change.

\* What the loop over the gesture keys changes.
LEMMA WriteChanges ==
  ASSUME TypeInv, CountInv, NEW K \in SUBSET GestureKeys, WriteGestureKeys(K)
  PROVE  /\ at \in All /\ Held = at
         /\ \A d \in ToSet(Domains), k \in Keys :
              prefs'[d][k] = IF d = Domains[at] /\ k \in K THEN "off" ELSE prefs[d][k]
         /\ \A d \in ToSet(Domains) : d # Domains[at] => prefs'[d] = prefs[d]
<1>1. at \in All /\ Held = at /\ Domains[at] \in ToSet(Domains)
  BY DomainsAre DEF WriteGestureKeys, CountInv
<1>2. K \in SUBSET Keys /\ "off" \in Values /\ prefs \in [ToSet(Domains) -> [Keys -> Values]]
  BY KeysAre DEF TypeInv, TypeOK
<1>3. prefs' = With(prefs, Domains[at], K, "off")
  BY DEF WriteGestureKeys
<1>4. \A e, d \in ToSet(Domains), k \in Keys :
        With(prefs, e, K, "off")[d][k] = IF d = e /\ k \in K THEN "off" ELSE prefs[d][k]
  BY <1>2 DEF With
<1>5. \A e, d \in ToSet(Domains) : d # e => With(prefs, e, K, "off")[d] = prefs[d]
  BY <1>2 DEF With
<1> QED  BY <1>1, <1>3, <1>4, <1>5

\* What the Dock's overrides and their removal change.
LEMMA DockChanges ==
  ASSUME TypeInv, NEW K \in SUBSET DockKeys, NEW v \in {"off", "absent"},
         prefs' = With(prefs, Dock, K, v)
  PROVE  /\ Dock \in ToSet(Domains)
         /\ \A d \in ToSet(Domains), k \in Keys :
              prefs'[d][k] = IF d = Dock /\ k \in K THEN v ELSE prefs[d][k]
<1>1. K \in SUBSET Keys /\ v \in Values /\ prefs \in [ToSet(Domains) -> [Keys -> Values]]
  BY KeysAre DEF TypeInv, TypeOK
<1>2. \A d \in ToSet(Domains), k \in Keys :
        With(prefs, Dock, K, v)[d][k] = IF d = Dock /\ k \in K THEN v ELSE prefs[d][k]
  BY <1>1, DockAssumption, WithIs
<1> QED  BY <1>2, DockAssumption

\* What an iteration of restore changes for a domain without a file.
LEMMA DeleteChanges ==
  ASSUME TypeInv, CountInv, BackupInv, NEW K \in SUBSET GestureKeys, DeleteGestureKeys(K)
  PROVE  /\ Held \in All /\ ~backups[Held].exists /\ ~imported
         /\ Held' = Held - 1 /\ \A j \in 1 .. Held - 1 : backups'[j] = backups[j]
         /\ \A d \in ToSet(Domains), k \in Keys :
              prefs'[d][k] = IF d = Domains[Held] /\ k \in K THEN "absent" ELSE prefs[d][k]
         /\ \A d \in ToSet(Domains) : d # Domains[Held] => prefs'[d] = prefs[d]
<1>1. /\ Held \in All /\ Backup = backups[Held] /\ Backup.domain = Domains[Held]
      /\ Domains[Held] \in ToSet(Domains)
      /\ Len(Front(backups)) = Held - 1
      /\ \A j \in 1 .. Held - 1 : Front(backups)[j] = backups[j]
  BY BackupIs DEF DeleteGestureKeys
<1>2. K \in SUBSET Keys /\ "absent" \in Values
      /\ prefs \in [ToSet(Domains) -> [Keys -> Values]]
  BY KeysAre DEF TypeInv, TypeOK
<1>3. prefs' = With(prefs, Domains[Held], K, "absent")
  BY <1>1 DEF DeleteGestureKeys
<1>4. \A e, d \in ToSet(Domains), k \in Keys :
        With(prefs, e, K, "absent")[d][k] = IF d = e /\ k \in K THEN "absent" ELSE prefs[d][k]
  BY <1>2 DEF With
<1>7. \A e, d \in ToSet(Domains) : d # e => With(prefs, e, K, "absent")[d] = prefs[d]
  BY <1>2 DEF With
<1>5. backups' = Front(backups) /\ ~Backup.exists /\ ~imported
  BY DEF DeleteGestureKeys, CountInv
<1>6. Held' = Held - 1
  BY <1>1, <1>5 DEF Held
<1> QED  BY <1>1, <1>3, <1>4, <1>5, <1>6, <1>7

\* An import sets each key to what it was before, or leaves it alone if it
\* was absent.
LEMMA ImportChanges ==
  ASSUME TypeInv, CountInv, BackupInv, FileInv, ImportDomain
  PROVE  /\ Held \in All /\ backups[Held].exists /\ Domains[Held] \in ToSet(Domains)
         /\ \/ prefs' = prefs /\ failed' = TRUE
            \/ /\ failed' = failed
               /\ \A d \in ToSet(Domains) : d # Domains[Held] => prefs'[d] = prefs[d]
               /\ \A k \in Keys :
                    \/ prefs'[Domains[Held]][k] = before[Domains[Held]][k]
                    \/ /\ before[Domains[Held]][k] = "absent"
                       /\ prefs'[Domains[Held]][k] = prefs[Domains[Held]][k]
<1>1. /\ Held \in All /\ Backup = backups[Held] /\ Backup.domain = Domains[Held]
      /\ Domains[Held] \in ToSet(Domains) /\ backups[Held].exists
  BY BackupIs DEF ImportDomain
<1>2. ASSUME NEW file \in files, NEW values \in Imported(file), OwnFile(file),
             prefs' = [prefs EXCEPT ![Backup.domain] = values], failed' = failed
      PROVE  /\ \A d \in ToSet(Domains) : d # Domains[Held] => prefs'[d] = prefs[d]
             /\ \A k \in Keys :
                  \/ prefs'[Domains[Held]][k] = before[Domains[Held]][k]
                  \/ /\ before[Domains[Held]][k] = "absent"
                     /\ prefs'[Domains[Held]][k] = prefs[Domains[Held]][k]
  <2>1. file.domain = Domains[Held] /\ file.values = before[Domains[Held]]
    BY <1>1, <1>2 DEF OwnFile, FileInv
  <2>2. \A k \in Keys : \/ values[k] = before[Domains[Held]][k]
                        \/ /\ before[Domains[Held]][k] = "absent"
                           /\ values[k] = prefs[Domains[Held]][k]
    BY <2>1 DEF Imported
  <2>3. prefs \in [ToSet(Domains) -> [Keys -> Values]]
    BY DEF TypeInv, TypeOK
  <2> QED  BY <1>1, <1>2, <2>2, <2>3
<1>3. \/ \E file \in files : \E values \in Imported(file) :
            /\ OwnFile(file)
            /\ prefs' = [prefs EXCEPT ![Backup.domain] = values]
            /\ failed' = failed
      \/ failed' = TRUE /\ prefs' = prefs
  BY DEF ImportDomain
<1> QED  BY <1>1, <1>2, <1>3

\* A restored domain's file is removed.
LEMMA RemoveChanges ==
  ASSUME TypeInv, CountInv, BackupInv, RemoveBackup
  PROVE  /\ Held \in All /\ backups[Held].exists
         /\ Held' = Held - 1 /\ \A j \in 1 .. Held - 1 : backups'[j] = backups[j]
         /\ \/ files' = files /\ failed' = TRUE
            \/ /\ failed' = failed
               /\ files' = {file \in files :
                             ~(file.start = starts /\ file.domain = Domains[Held])}
<1>1. /\ Held \in All /\ Backup = backups[Held] /\ Backup.domain = Domains[Held]
      /\ Len(Front(backups)) = Held - 1
      /\ \A j \in 1 .. Held - 1 : Front(backups)[j] = backups[j]
  BY BackupIs DEF RemoveBackup
<1>2. backups' = Front(backups) /\ Backup.exists
  BY DEF RemoveBackup, CountInv
<1>3. Held' = Held - 1
  BY <1>1, <1>2 DEF Held
<1> QED  BY <1>1, <1>2, <1>3 DEF RemoveBackup, OwnFile

\* Steps that neither back up nor restore a domain.
Other ==
  \/ BackupFails \/ Stop \/ Refuse
  \/ \E K \in SUBSET DockKeys : WriteDockOverrides(K) \/ RemoveDockOverrides(K)

\* The steps, the rarer ones as one.
LEMMA NextIs ==
  ASSUME [Next]_vars
  PROVE  \/ UNCHANGED vars \/ Start \/ Crash \/ BackupAbsent \/ BackupExported
         \/ ImportDomain \/ RemoveBackup \/ Other
         \/ \E K \in SUBSET GestureKeys : WriteGestureKeys(K) \/ DeleteGestureKeys(K)
  BY DEF Next, Other

-----------------------------------------------------------------------------
\* How many backups there are, and what is in them.

\* Every step keeps the number of backups.
LEMMA CountStep ==
  ASSUME TypeInv, CountInv, BackupInv, FileInv, [Next]_vars
  PROVE  CountInv'
<1>1. CASE UNCHANGED vars
  BY <1>1 DEF vars, CountInv, Restoring, Backup, Held
<1>2. CASE Start
  <2>1. backups' = << >> /\ pc' = "backup" /\ at' = 1 /\ imported' = imported /\ ~imported
    BY <1>2 DEF Start, CountInv, Restoring
  <2>2. Held' = 0 /\ 1 \in All
    BY <2>1, EmptySeq, DockAssumption, DomainsAre DEF Held, All
  <2> QED  BY <2>1, <2>2 DEF CountInv
<1>3. CASE Crash
  <2>1. Held' = 0
    BY <1>3, EmptySeq DEF Crash, Held
  <2> QED  BY <1>3, <2>1 DEF Crash, CountInv
<1>4. CASE BackupAbsent \/ BackupExported
  <2>1. at \in All /\ Held' = at
    BY <1>4, AppendedIs DEF BackupAbsent, BackupExported
  <2>2. pc' = "write" /\ at' = at /\ imported' = imported /\ ~imported
    BY <1>4 DEF BackupAbsent, BackupExported, CountInv, Restoring
  <2> QED  BY <2>1, <2>2 DEF CountInv
<1>5. CASE ImportDomain
  <2>1. UNCHANGED <<pc, at, backups>> /\ Restoring /\ Backup.exists
    BY <1>5 DEF ImportDomain
  <2> QED  BY <2>1 DEF CountInv, Restoring, Backup, Held
<1>6. CASE RemoveBackup
  BY <1>6 DEF RemoveBackup, CountInv, Restoring
<1>7. CASE Other
  <2>1. ~imported \/ pc = "undo" \/ pc = "restore"
    BY DEF CountInv, Restoring
  <2>2. imported' = imported /\ backups' = backups /\ at' = at /\ Held' = Held
    BY <1>7 DEF Other, BackupFails, Stop, Refuse, WriteDockOverrides, RemoveDockOverrides, Held
  <2>3. ~imported
    BY <1>7 DEF Other, BackupFails, Stop, Refuse, WriteDockOverrides, RemoveDockOverrides,
         CountInv, Restoring
  <2>4. backups = << >> => Held = 0
    BY EmptySeq DEF Held
  <2> QED
    BY <1>7, <2>2, <2>3, <2>4
       DEF Other, BackupFails, Stop, Refuse, WriteDockOverrides, RemoveDockOverrides, CountInv
<1>8. ASSUME NEW K \in SUBSET GestureKeys, WriteGestureKeys(K) PROVE CountInv'
  <2>1. at \in All /\ Held = at /\ Len(Domains) \in Nat
    BY <1>8, WriteChanges, DomainsAre
  <2>2. imported' = imported /\ ~imported /\ Held' = Held
    BY <1>8 DEF WriteGestureKeys, CountInv, Restoring, Held
  <2>3. \/ pc' = "undo"
        \/ pc' = "backup" /\ at' = at + 1 /\ at < Len(Domains)
        \/ pc' = "dock" /\ ~(at < Len(Domains))
    BY <1>8 DEF WriteGestureKeys
  <2> QED  BY <2>1, <2>2, <2>3 DEF CountInv, All
<1>9. ASSUME NEW K \in SUBSET GestureKeys, DeleteGestureKeys(K) PROVE CountInv'
  BY <1>9 DEF DeleteGestureKeys, CountInv, Restoring
<1> QED  BY <1>1, <1>2, <1>3, <1>4, <1>5, <1>6, <1>7, <1>8, <1>9, NextIs

\* Every step keeps what is known of the backups.
LEMMA BackupStep ==
  ASSUME TypeInv, CountInv, BackupInv, StartInv, [Next]_vars
  PROVE  BackupInv'
<1> USE DEF BackupInv
<1>1. CASE UNCHANGED vars
  BY <1>1 DEF vars, Held, Exists
<1>2. CASE Start \/ Crash
  <2>1. Held' = 0
    BY <1>2, EmptySeq DEF Start, Crash, Held
  <2> QED  BY <2>1
<1>3. CASE BackupAbsent \/ BackupExported
  <2>1. PICK e \in BOOLEAN :
          /\ backups' = Append(backups, [domain |-> Domains[at], exists |-> e])
          /\ e => BackupExported
          /\ ~e => BackupAbsent
    BY <1>3 DEF BackupAbsent, BackupExported
  <2>2. /\ at \in All /\ Held' = at /\ Held = at - 1
        /\ \A j \in 1 .. Held : backups'[j] = backups[j]
        /\ backups'[at] = [domain |-> Domains[at], exists |-> e]
    BY <1>3, <2>1, AppendedIs DEF BackupAbsent, BackupExported
  <2>3. starts' = starts /\ before' = before /\ files \subseteq files' /\ prefs' = prefs
    BY <1>3 DEF BackupAbsent, BackupExported
  <2>5. failed => failed'
    BY <1>3, Zenon DEF BackupAbsent, BackupExported
  <2>4. ASSUME NEW j \in 1 .. Held'
        PROVE  /\ backups'[j].domain = Domains[j]
               /\ backups'[j].exists =>
                    /\ Exists(before, Domains[j])
                    /\ \E file \in files' : file.start = starts /\ file.domain = Domains[j]
               /\ ~backups'[j].exists /\ ~failed' => ~Exists(before, Domains[j])
    <3>1. CASE j # at
      <4>1. j \in 1 .. Held
        BY <2>2, <3>1, DomainsAre DEF All
      <4> QED  BY <2>2, <2>3, <2>5, <4>1
    <3>2. CASE j = at
      <4>1. prefs[Domains[at]] = before[Domains[at]]
        BY <1>3, <2>2, DomainsAre DEF BackupAbsent, BackupExported, StartInv, All
      <4>2. Exists(prefs, Domains[at]) <=> Exists(before, Domains[at])
        BY <4>1 DEF Exists
      <4>3. CASE e
        <5>1. /\ Exists(prefs, Domains[at])
              /\ [start |-> starts, domain |-> Domains[at],
                  values |-> prefs[Domains[at]]] \in files'
          BY <2>1, <4>3 DEF BackupExported
        <5> QED  BY <2>2, <3>2, <4>2, <4>3, <5>1
      <4>4. CASE ~e
        <5>1. ~failed' => ~Exists(prefs, Domains[at])
          BY <2>1, <4>4, Zenon DEF BackupAbsent
        <5> QED  BY <2>2, <3>2, <4>2, <4>4, <5>1
      <4> QED  BY <4>3, <4>4
    <3> QED  BY <3>1, <3>2
  <2> QED  BY <2>3, <2>4 DEF Exists
<1>4. CASE ImportDomain
  <2>1. UNCHANGED <<backups, files, starts, before>> /\ (failed => failed')
    BY <1>4 DEF ImportDomain
  <2> QED  BY <2>1 DEF Held, Exists
<1>5. CASE RemoveBackup
  <2>1. /\ Held \in All /\ Held' = Held - 1 /\ \A j \in 1 .. Held - 1 : backups'[j] = backups[j]
    BY <1>5, RemoveChanges
  <2>4. \A file \in files : file.domain # Domains[Held] => file \in files'
    BY <1>5, RemoveChanges
  <2>5. failed => failed'
    BY <1>5, RemoveChanges, Zenon
  <2>2. UNCHANGED <<starts, before>>
    BY <1>5 DEF RemoveBackup
  <2>3. \A j \in 1 .. Held - 1 : j \in 1 .. Held /\ Domains[j] # Domains[Held]
    BY <2>1, DomainsAre DEF All
  <2> QED  BY <2>1, <2>2, <2>3, <2>4, <2>5 DEF Exists
<1>6. CASE Other
  <2>1. UNCHANGED <<backups, files, starts, before>>
    BY <1>6 DEF Other, BackupFails, Stop, Refuse, WriteDockOverrides, RemoveDockOverrides
  <2>2. failed => failed'
    BY <1>6, Zenon
       DEF Other, BackupFails, Stop, Refuse, WriteDockOverrides, RemoveDockOverrides
  <2> QED  BY <2>1, <2>2 DEF Held, Exists
<1>7. ASSUME NEW K \in SUBSET GestureKeys, WriteGestureKeys(K) PROVE BackupInv'
  <2>1. UNCHANGED <<backups, files, starts, before, failed>>
    BY <1>7 DEF WriteGestureKeys
  <2> QED  BY <2>1 DEF Held, Exists
<1>8. ASSUME NEW K \in SUBSET GestureKeys, DeleteGestureKeys(K) PROVE BackupInv'
  <2>1. /\ Held \in All /\ Held' = Held - 1 /\ \A j \in 1 .. Held - 1 : backups'[j] = backups[j]
    BY <1>8, DeleteChanges
  <2>2. UNCHANGED <<files, starts, before>> /\ (failed => failed')
    BY <1>8 DEF DeleteGestureKeys
  <2>3. \A j \in 1 .. Held - 1 : j \in 1 .. Held
    BY <2>1, DomainsAre DEF All
  <2> QED  BY <2>1, <2>2, <2>3 DEF Exists
<1> QED  BY <1>1, <1>2, <1>3, <1>4, <1>5, <1>6, <1>7, <1>8, NextIs

\* Every step keeps what is known of a start's own files.
LEMMA FileStep ==
  ASSUME TypeInv, CountInv, BackupInv, FileInv, StartInv, [Next]_vars
  PROVE  FileInv'
<1> USE DEF FileInv
<1>1. CASE UNCHANGED vars
  BY <1>1 DEF vars, Held
<1>2. CASE Start
  <2>1. \A file \in files' : file.start <= starts /\ file.start \in Int /\ starts' = starts + 1
    BY <1>2 DEF Start, TypeInv, TypeOK
  <2> QED  BY <2>1 DEF TypeInv, TypeOK
<1>3. CASE Crash
  BY <1>3 DEF Crash
<1>4. CASE BackupAbsent \/ BackupExported
  <2>1. PICK e \in BOOLEAN :
          /\ backups' = Append(backups, [domain |-> Domains[at], exists |-> e])
          /\ e => BackupExported
          /\ ~e => BackupAbsent
    BY <1>4 DEF BackupAbsent, BackupExported
  <2>2. /\ at \in All /\ Held' = at /\ Held = at - 1
        /\ \A j \in 1 .. Held : backups'[j] = backups[j]
        /\ backups'[at] = [domain |-> Domains[at], exists |-> e]
    BY <1>4, <2>1, AppendedIs DEF BackupAbsent, BackupExported
  <2>3. starts' = starts /\ before' = before /\ pc # "dead"
    BY <1>4 DEF BackupAbsent, BackupExported
  <2>4. failed => failed'
    BY <1>4, Zenon DEF BackupAbsent, BackupExported
  <2>5. ASSUME NEW file \in files, file.start = starts
        PROVE  /\ file.values = before[file.domain]
               /\ ~failed' =>
                    \E j \in 1 .. Held' : file.domain = Domains[j] /\ backups'[j].exists
    <3>1. \A j \in 1 .. Held : j \in 1 .. Held'
      BY <2>2, DomainsAre DEF All
    <3> QED  BY <2>2, <2>3, <2>4, <2>5, <3>1
  <2>6. ASSUME NEW file \in files', file \notin files
        PROVE  /\ file.values = before[file.domain]
               /\ \E j \in 1 .. Held' : file.domain = Domains[j] /\ backups'[j].exists
    <3>1. e /\ file = [start |-> starts, domain |-> Domains[at], values |-> prefs[Domains[at]]]
      BY <2>1, <2>6 DEF BackupAbsent, BackupExported
    <3>2. prefs[Domains[at]] = before[Domains[at]]
      BY <1>4, <2>2, DomainsAre DEF BackupAbsent, BackupExported, StartInv, All
    <3>3. at \in 1 .. Held'
      BY <2>2, DomainsAre DEF All
    <3> QED  BY <2>2, <3>1, <3>2, <3>3
  <2> QED  BY <2>3, <2>5, <2>6
<1>5. CASE ImportDomain
  <2>1. UNCHANGED <<backups, files, starts, before, pc>>
    BY <1>5 DEF ImportDomain
  <2>2. failed => failed'
    BY <1>5, Zenon DEF ImportDomain
  <2> QED  BY <2>1, <2>2 DEF Held
<1>6. CASE RemoveBackup
  <2>1. /\ Held \in All /\ Held' = Held - 1 /\ \A j \in 1 .. Held - 1 : backups'[j] = backups[j]
    BY <1>6, RemoveChanges
  <2>2. UNCHANGED <<starts, before, pc>>
    BY <1>6 DEF RemoveBackup
  <2>3. \A j \in 1 .. Held : j # Held => j \in 1 .. Held - 1
    BY <2>1, DomainsAre DEF All
  <2>4. CASE files' = files /\ failed' = TRUE
    BY <2>2, <2>4
  <2>5. CASE /\ failed' = failed
             /\ files' = {file \in files :
                          ~(file.start = starts /\ file.domain = Domains[Held])}
    BY <2>1, <2>2, <2>3, <2>5
  <2> QED  BY <1>6, <2>4, <2>5, RemoveChanges
<1>7. CASE Other
  <2>1. UNCHANGED <<backups, files, starts, before>> /\ pc # "dead"
    BY <1>7 DEF Other, BackupFails, Stop, Refuse, WriteDockOverrides, RemoveDockOverrides
  <2>2. failed => failed'
    BY <1>7, Zenon
       DEF Other, BackupFails, Stop, Refuse, WriteDockOverrides, RemoveDockOverrides
  <2> QED  BY <2>1, <2>2 DEF Held
<1>8. ASSUME NEW K \in SUBSET GestureKeys, WriteGestureKeys(K) PROVE FileInv'
  <2>1. UNCHANGED <<backups, files, starts, before, failed>> /\ pc # "dead"
    BY <1>8 DEF WriteGestureKeys
  <2> QED  BY <2>1 DEF Held
<1>9. ASSUME NEW K \in SUBSET GestureKeys, DeleteGestureKeys(K) PROVE FileInv'
  <2>1. /\ Held \in All /\ Held' = Held - 1 /\ \A j \in 1 .. Held - 1 : backups'[j] = backups[j]
        /\ ~backups[Held].exists
    BY <1>9, DeleteChanges
  <2>2. UNCHANGED <<files, starts, before, pc>>
    BY <1>9 DEF DeleteGestureKeys
  <2>3. failed => failed'
    BY <1>9, Zenon DEF DeleteGestureKeys
  <2>4. \A j \in 1 .. Held : j # Held => j \in 1 .. Held - 1
    BY <2>1, DomainsAre DEF All
  <2> QED  BY <2>1, <2>2, <2>3, <2>4
<1> QED  BY <1>1, <1>2, <1>3, <1>4, <1>5, <1>6, <1>7, <1>8, <1>9, NextIs

-----------------------------------------------------------------------------
\* The preferences.

\* Every step keeps what is known of the domains during Start.
LEMMA StartStep ==
  ASSUME TypeInv, CountInv, BackupInv, StartInv, [Next]_vars
  PROVE  StartInv'
<1> USE DEF StartInv
<1>1. CASE UNCHANGED vars
  BY <1>1 DEF vars
<1>2. CASE Start
  BY <1>2, DomainsAre DEF Start, All
<1>3. CASE BackupAbsent \/ BackupExported
  BY <1>3 DEF BackupAbsent, BackupExported
<1>4. CASE Crash \/ ImportDomain \/ RemoveBackup \/ Other
  BY <1>4 DEF Crash, ImportDomain, RemoveBackup, Restoring, Other, BackupFails, Stop, Refuse,
              WriteDockOverrides, RemoveDockOverrides
<1>5. ASSUME NEW K \in SUBSET GestureKeys, DeleteGestureKeys(K) PROVE StartInv'
  BY <1>5 DEF DeleteGestureKeys, Restoring
<1>6. ASSUME NEW K \in SUBSET GestureKeys, WriteGestureKeys(K) PROVE StartInv'
  <2>1. pc = "write" /\ before' = before
    BY <1>6 DEF WriteGestureKeys
  <2>2. \/ pc' = "undo"
        \/ K = GestureKeys /\ pc' = "backup" /\ at' = at + 1
        \/ K = GestureKeys /\ pc' = "dock" /\ ~(at < Len(Domains))
    BY <1>6 DEF WriteGestureKeys
  <2>3. at \in All /\ at \in Int /\ Len(Domains) \in Int /\ Domains[at] \in ToSet(Domains)
    BY <1>6, WriteChanges, DomainsAre DEF All
  <2>4. \A j \in All : j # at => prefs'[Domains[j]] = prefs[Domains[j]]
    BY <1>6, <2>3, WriteChanges, DomainsAre
  <2>5. K = GestureKeys => \A k \in GestureKeys : prefs'[Domains[at]][k] = "off"
    BY <1>6, <2>3, WriteChanges DEF Keys
  <2>6. \A j \in All : /\ j >= at + 1 => prefs'[Domains[j]] = before[Domains[j]]
                       /\ j < at + 1 /\ K = GestureKeys =>
                            \A k \in GestureKeys : prefs'[Domains[j]][k] = "off"
    BY <2>1, <2>3, <2>4, <2>5 DEF All
  <2>7. ~(at < Len(Domains)) => \A j \in All : j < at + 1
    BY <2>3 DEF All
  <2> QED  BY <2>1, <2>2, <2>6, <2>7
<1> QED  BY <1>1, <1>2, <1>3, <1>4, <1>5, <1>6, NextIs

\* Steps that leave the preferences and the history of them alone.
LEMMA PrefsKept ==
  ASSUME UNCHANGED vars \/ Crash \/ BackupAbsent \/ BackupExported \/ RemoveBackup
         \/ BackupFails \/ Stop \/ Refuse
  PROVE  prefs' = prefs /\ before' = before
  BY DEF vars, Crash, BackupAbsent, BackupExported, RemoveBackup, BackupFails, Stop, Refuse

\* Every step keeps the other keys, and makes no value the user's.
LEMMA KeysStep ==
  ASSUME TypeInv, CountInv, BackupInv, FileInv, KeysInv, [Next]_vars
  PROVE  KeysInv'
<1> USE DEF KeysInv
<1>1. CASE prefs' = prefs /\ before' = before
  BY <1>1
<1>2. CASE Start
  BY <1>2 DEF Start
<1>3. CASE ImportDomain
  <2>1. before' = before
    BY <1>3 DEF ImportDomain
  <2>2. ASSUME NEW d \in ToSet(Domains), NEW k \in Keys
        PROVE  prefs'[d][k] = prefs[d][k] \/ prefs'[d][k] = before[d][k]
    BY <1>3, ImportChanges
  <2> QED  BY <2>1, <2>2
<1>4. ASSUME NEW K \in SUBSET DockKeys, WriteDockOverrides(K) \/ RemoveDockOverrides(K)
      PROVE  KeysInv'
  <2>1. PICK v \in {"off", "absent"} : prefs' = With(prefs, Dock, K, v) /\ before' = before
    BY <1>4 DEF WriteDockOverrides, RemoveDockOverrides
  <2>2. \A d \in ToSet(Domains), k \in Keys :
          prefs'[d][k] = IF d = Dock /\ k \in K THEN v ELSE prefs[d][k]
    BY <2>1, DockChanges
  <2>3. \A k \in K : k \notin OtherKeys
    BY KeysAssumption
  <2> QED  BY <2>1, <2>2, <2>3
<1>5. ASSUME NEW K \in SUBSET GestureKeys, WriteGestureKeys(K) PROVE KeysInv'
  <2>1. before' = before
    BY <1>5 DEF WriteGestureKeys
  <2>2. \A k \in K : k \notin OtherKeys
    BY KeysAssumption
  <2> QED  BY <1>5, <2>1, <2>2, WriteChanges
<1>6. ASSUME NEW K \in SUBSET GestureKeys, DeleteGestureKeys(K) PROVE KeysInv'
  <2>1. before' = before
    BY <1>6 DEF DeleteGestureKeys
  <2>2. \A k \in K : k \notin OtherKeys
    BY KeysAssumption
  <2> QED  BY <1>6, <2>1, <2>2, DeleteChanges
<1> QED  BY <1>1, <1>2, <1>3, <1>4, <1>5, <1>6, NextIs, PrefsKept DEF Other

\* What is as it was before is restored.
LEMMA SameIsRestored ==
  ASSUME NEW d, prefs[d] = before[d]
  PROVE  Restored(d)
  BY DEF Restored, Exists

\* A domain that nothing happens to remains restored.
LEMMA RestoredKept ==
  ASSUME NEW d, prefs'[d] = prefs[d], before' = before
  PROVE  Restored(d)' <=> Restored(d)
  BY DEF Restored, Exists

\* Every step keeps what is known of the domains that are restored.
LEMMA RestoreStep ==
  ASSUME TypeInv, CountInv, BackupInv, FileInv, StartInv, RestoreInv, KeysInv, [Next]_vars
  PROVE  RestoreInv'
<1> USE DEF RestoreInv
<1>1. CASE UNCHANGED vars
  <2>1. UNCHANGED <<prefs, before, pc, failed, backups, imported>>
    BY <1>1 DEF vars
  <2> QED  BY <2>1, RestoredKept DEF Held
<1>2. CASE Start \/ Crash \/ BackupAbsent \/ BackupExported
  BY <1>2 DEF Start, Crash, BackupAbsent, BackupExported
<1>3. CASE BackupFails
  <2>1. UNCHANGED <<prefs, before, failed, backups, imported>> /\ ~imported /\ pc = "backup"
    BY <1>3 DEF BackupFails, CountInv, Restoring
  <2>2. \A j \in All : j > Held => prefs[Domains[j]] = before[Domains[j]]
    BY <2>1, DomainsAre DEF CountInv, StartInv, All
  <2> QED  BY <2>1, <2>2, SameIsRestored, RestoredKept DEF Held
<1>4. CASE Stop
  <2>1. Held = Len(Domains) /\ Held' = Held /\ ~imported'
    BY <1>4 DEF Stop, CountInv, Restoring, Held
  <2> QED  BY <2>1, DomainsAre DEF All
<1>5. CASE Refuse
  BY <1>5 DEF Refuse
<1>6. ASSUME NEW K \in SUBSET DockKeys, WriteDockOverrides(K) PROVE RestoreInv'
  <2>1. Held = Len(Domains) /\ Held' = Held /\ ~imported'
    BY <1>6 DEF WriteDockOverrides, CountInv, Restoring, Held
  <2> QED  BY <2>1, DomainsAre DEF All
<1>7. ASSUME NEW K \in SUBSET DockKeys, RemoveDockOverrides(K) PROVE RestoreInv'
  BY <1>7 DEF RemoveDockOverrides
<1>8. ASSUME NEW K \in SUBSET GestureKeys, WriteGestureKeys(K) PROVE RestoreInv'
  <2>1. /\ UNCHANGED <<before, failed, backups, imported>> /\ ~imported /\ pc = "write"
        /\ Held' = Held
    BY <1>8 DEF WriteGestureKeys, CountInv, Restoring, Held
  <2>2. Held = at /\ at \in All
    BY <1>8, WriteChanges
  <2>3. ASSUME NEW j \in All, j > at PROVE Restored(Domains[j])'
    <3>1. prefs[Domains[j]] = before[Domains[j]]
      BY <2>1, <2>2, <2>3, DomainsAre DEF StartInv, All
    <3>2. prefs'[Domains[j]] = prefs[Domains[j]]
      BY <1>8, <2>2, <2>3, WriteChanges, DomainsAre DEF All
    <3> QED  BY <2>1, <3>1, <3>2, SameIsRestored, RestoredKept
  <2> QED  BY <2>1, <2>2, <2>3
<1>9. CASE ImportDomain
  <2>1. /\ UNCHANGED <<pc, backups, before>> /\ Held' = Held
        /\ pc \in {"undo", "restore"} /\ ~imported
    BY <1>9 DEF ImportDomain, Restoring, Held
  <2>2. Held \in All /\ backups[Held].exists /\ Domains[Held] \in ToSet(Domains)
    BY <1>9, ImportChanges
  <2>3. SUFFICES ASSUME ~failed' PROVE RestoreInv'
    BY <2>1
  <2>4. /\ failed' = failed
        /\ \A d \in ToSet(Domains) : d # Domains[Held] => prefs'[d] = prefs[d]
    BY <1>9, <2>3, ImportChanges
  <2>5. \A k \in Keys : \/ prefs'[Domains[Held]][k] = before[Domains[Held]][k]
                        \/ before[Domains[Held]][k] = "absent"
    BY <1>9, <2>3, ImportChanges
  <2>6. Exists(before, Domains[Held])
    <3>1. Held \in 1 .. Held
      BY <2>2, DomainsAre DEF All
    <3> QED  BY <2>2, <3>1 DEF BackupInv
  <2>7. Restored(Domains[Held])'
    BY <2>1, <2>5, <2>6 DEF Restored, Exists
  <2>8. ASSUME NEW j \in All, j > Held PROVE Restored(Domains[j])'
    <3>1. Domains[j] # Domains[Held] /\ Domains[j] \in ToSet(Domains)
      BY <2>2, <2>8, DomainsAre DEF All
    <3>2. Restored(Domains[j])
      BY <2>1, <2>3, <2>4, <2>8
    <3> QED  BY <2>1, <2>4, <3>1, <3>2, RestoredKept
  <2> QED  BY <2>1, <2>7, <2>8
<1>10. CASE RemoveBackup
  <2>1. /\ Held \in All /\ Held' = Held - 1 /\ imported /\ ~imported'
        /\ pc' = pc /\ pc \in {"undo", "restore"} /\ prefs' = prefs /\ before' = before
    BY <1>10, RemoveChanges DEF RemoveBackup, Restoring
  <2>2. failed => failed'
    BY <1>10, Zenon DEF RemoveBackup
  <2>3. \A j \in All : j > Held - 1 => j > Held \/ j = Held
    BY <2>1, DomainsAre DEF All
  <2> QED  BY <2>1, <2>2, <2>3, RestoredKept
<1>11. ASSUME NEW K \in SUBSET GestureKeys, DeleteGestureKeys(K) PROVE RestoreInv'
  <2>1. /\ Held \in All /\ Held' = Held - 1 /\ ~imported /\ ~backups[Held].exists
        /\ \A d \in ToSet(Domains), k \in Keys :
             prefs'[d][k] = IF d = Domains[Held] /\ k \in K THEN "absent" ELSE prefs[d][k]
        /\ \A d \in ToSet(Domains) : d # Domains[Held] => prefs'[d] = prefs[d]
    BY <1>11, DeleteChanges
  <2>2. pc' = pc /\ pc \in {"undo", "restore"} /\ before' = before /\ imported' = imported
    BY <1>11 DEF DeleteGestureKeys, Restoring
  <2>3. SUFFICES ASSUME ~failed' PROVE RestoreInv'
    OBVIOUS
  <2>4. ~failed /\ K = GestureKeys
    BY <1>11, <2>3, Zenon DEF DeleteGestureKeys
  <2>5. ~Exists(before, Domains[Held])
    <3>1. Held \in 1 .. Held
      BY <2>1, DomainsAre DEF All
    <3> QED  BY <2>1, <2>4, <3>1 DEF BackupInv
  <2>6. ASSUME NEW e \in ToSet(Domains), e = Domains[Held] PROVE Restored(e)'
    <3>1. \A k \in Keys : before[e][k] = "absent"
      BY <2>5, <2>6 DEF Exists
    <3>2. \A k \in Keys : prefs'[e][k] = "absent"
      BY <2>1, <2>4, <2>6, <3>1 DEF KeysInv, Keys
    <3> QED  BY <2>2, <3>1, <3>2 DEF Restored
  <2>7. ASSUME NEW j \in All, j > Held PROVE Restored(Domains[j])'
    <3>1. Domains[j] # Domains[Held] /\ Domains[j] \in ToSet(Domains)
      BY <2>1, <2>7, DomainsAre DEF All
    <3> QED  BY <2>1, <2>2, <2>4, <2>7, <3>1, RestoredKept
  <2>8. \A j \in All : j > Held - 1 => j > Held \/ j = Held
    BY <2>1, DomainsAre DEF All
  <2>9. ASSUME NEW j \in All, j > Held - 1 PROVE Restored(Domains[j])'
    <3>1. CASE j > Held
      BY <2>7, <3>1
    <3>2. CASE j = Held
      BY <2>6, <3>2, DomainsAre
    <3> QED  BY <2>8, <2>9, <3>1, <3>2
  <2> QED  BY <2>1, <2>2, <2>9
<1> QED
  BY <1>1, <1>2, <1>3, <1>4, <1>5, <1>6, <1>7, <1>8, <1>9, <1>10, <1>11, NextIs DEF Other

-----------------------------------------------------------------------------
\* What is promised to the user.

\* When no backup is left, every domain has been restored.
LEMMA NoneLeft ==
  ASSUME TypeInv, FileInv, RestoreInv, ~failed, backups = << >>, pc \in {"undo", "restore"}
  PROVE  /\ \A d \in ToSet(Domains) : Restored(d)
         /\ \A file \in files : file.start # starts
<1>1. Held = 0
  BY EmptySeq DEF Held
<1>2. \A j \in All : Restored(Domains[j])
  BY <1>1, DomainsAre DEF RestoreInv, All
<1> QED  BY <1>1, <1>2, DomainsAre DEF FileInv

\* A start is only refused, and a stop only over, when all is given back.
LEMMA GivenBackStep ==
  ASSUME TypeInv, FileInv, RestoreInv, GivenBack, [Next]_vars
  PROVE  GivenBack'
<1>1. CASE UNCHANGED vars
  BY <1>1 DEF vars, GivenBack, GivesBack, Exists
<1>2. CASE Refuse
  <2>1. SUFFICES ASSUME ~failed' PROVE GivenBack'
    BY DEF GivenBack
  <2>2. /\ UNCHANGED <<prefs, files, backups, starts, before, failed>>
        /\ pc = "undo" /\ backups = << >> /\ pc' = "refused"
    BY <1>2 DEF Refuse
  <2>3. /\ \A d \in ToSet(Domains) : Restored(d)
        /\ \A file \in files : file.start # starts
    BY <2>1, <2>2, NoneLeft
  <2> QED  BY <2>2, <2>3 DEF GivenBack, GivesBack, Restored, Exists
<1>3. ASSUME NEW K \in SUBSET DockKeys, RemoveDockOverrides(K) PROVE GivenBack'
  <2>1. SUFFICES ASSUME ~failed' PROVE GivenBack'
    BY DEF GivenBack
  <2>2. /\ UNCHANGED <<files, backups, starts, before>>
        /\ pc = "restore" /\ backups = << >> /\ pc' = "stopped"
        /\ prefs' = With(prefs, Dock, K, "absent")
    BY <1>3 DEF RemoveDockOverrides
  <2>3. ~failed
    BY <1>3, <2>1, Zenon DEF RemoveDockOverrides
  <2>4. /\ \A d \in ToSet(Domains) : Restored(d)
        /\ \A file \in files : file.start # starts
    BY <2>2, <2>3, NoneLeft
  <2>5. \A d \in ToSet(Domains), k \in Keys :
          prefs'[d][k] = prefs[d][k] \/ (d = Dock /\ k \in DockKeys)
    BY <2>2, DockChanges
  <2> QED  BY <2>2, <2>4, <2>5 DEF GivenBack, GivesBack, Restored, Exists
<1>4. CASE \/ Start \/ Crash \/ BackupAbsent \/ BackupExported \/ ImportDomain \/ RemoveBackup
           \/ BackupFails \/ Stop \/ \E K \in SUBSET DockKeys : WriteDockOverrides(K)
           \/ \E K \in SUBSET GestureKeys : WriteGestureKeys(K) \/ DeleteGestureKeys(K)
  BY <1>4 DEF GivenBack, Start, Crash, BackupAbsent, BackupExported, ImportDomain, RemoveBackup,
              BackupFails, Stop, WriteDockOverrides, WriteGestureKeys, DeleteGestureKeys,
              Restoring
<1> QED  BY <1>1, <1>2, <1>3, <1>4, NextIs DEF Other

\* Where the user's value of a key may be.
Safe(d, k) ==
  \/ prefs[d][k] = "users"
  \/ \E file \in files : file.domain = d /\ file.values[k] = "users"
  \/ d = Dock /\ k \in DockKeys /\ dockRemoved

\* No step takes a value from the last place that it is safe in.
LEMMA NeverLostStep ==
  ASSUME TypeInv, CountInv, BackupInv, FileInv, StartInv, RestoreInv, KeysInv, NeverLost,
         [Next]_vars
  PROVE  NeverLost'
<1>1. (failed => failed') /\ initial' = initial /\ (dockRemoved => dockRemoved')
  <2>1. initial' = initial
    BY NextIs
       DEF vars, Start, Crash, BackupAbsent, BackupExported, ImportDomain, RemoveBackup, Other,
           BackupFails, Stop, Refuse, WriteDockOverrides, RemoveDockOverrides,
           WriteGestureKeys, DeleteGestureKeys
  <2>2. failed => failed'
    <3>1. CASE \/ BackupAbsent \/ \E K \in SUBSET GestureKeys : DeleteGestureKeys(K)
               \/ \E K \in SUBSET DockKeys : RemoveDockOverrides(K)
      BY <3>1, Zenon DEF BackupAbsent, DeleteGestureKeys, RemoveDockOverrides
    <3>2. CASE ImportDomain \/ RemoveBackup
      BY <3>2 DEF ImportDomain, RemoveBackup
    <3>3. CASE \/ UNCHANGED vars \/ Start \/ Crash \/ BackupExported
               \/ BackupFails \/ Stop \/ Refuse
               \/ \E K \in SUBSET DockKeys : WriteDockOverrides(K)
               \/ \E K \in SUBSET GestureKeys : WriteGestureKeys(K)
      BY <3>3 DEF vars, Start, Crash, BackupExported, BackupFails, Stop, Refuse,
                  WriteDockOverrides, WriteGestureKeys
    <3> QED  BY <3>1, <3>2, <3>3, NextIs DEF Other
  <2>3. dockRemoved => dockRemoved'
    BY NextIs
       DEF vars, Start, Crash, BackupAbsent, BackupExported, ImportDomain, RemoveBackup, Other,
           BackupFails, Stop, Refuse, WriteDockOverrides, RemoveDockOverrides,
           WriteGestureKeys, DeleteGestureKeys
  <2> QED  BY <2>1, <2>2, <2>3
<1>2. SUFFICES ASSUME ~failed', NEW d \in ToSet(Domains), NEW k \in Keys, Safe(d, k)
               PROVE  Safe(d, k)'
  BY <1>1 DEF NeverLost, Safe
<1>3. ~failed
  BY <1>1, <1>2
<1>4. CASE prefs' = prefs /\ files \subseteq files'
  BY <1>1, <1>2, <1>4 DEF Safe
<1>5. ASSUME NEW K \in SUBSET GestureKeys, WriteGestureKeys(K) PROVE Safe(d, k)'
  <2>1. files' = files /\ dockRemoved' = dockRemoved /\ pc = "write"
    BY <1>5 DEF WriteGestureKeys
  <2>2. /\ at \in All /\ Held = at
        /\ prefs'[d][k] = IF d = Domains[at] /\ k \in K THEN "off" ELSE prefs[d][k]
    BY <1>5, WriteChanges
  <2>3. CASE prefs[d][k] = "users" /\ d = Domains[at]
    <3>1. prefs[d] = before[d] /\ at \in 1 .. Held
      BY <2>1, <2>2, <2>3, DomainsAre DEF StartInv, All
    <3>2. Exists(before, d)
      BY <2>3, <3>1 DEF Exists
    <3>3. PICK file \in files : file.start = starts /\ file.domain = d
      BY <1>3, <2>2, <2>3, <3>1, <3>2 DEF BackupInv
    <3>4. file.values[k] = "users"
      BY <2>3, <3>1, <3>3 DEF FileInv
    <3> QED  BY <2>1, <3>3, <3>4 DEF Safe
  <2>4. CASE prefs[d][k] = "users" /\ d # Domains[at]
    BY <2>2, <2>4 DEF Safe
  <2>5. CASE prefs[d][k] # "users"
    BY <1>2, <2>1, <2>5 DEF Safe
  <2> QED  BY <2>3, <2>4, <2>5
<1>6. ASSUME NEW K \in SUBSET DockKeys, WriteDockOverrides(K) PROVE Safe(d, k)'
  <2>1. /\ files' = files /\ dockRemoved' = dockRemoved /\ pc = "dock"
        /\ prefs' = With(prefs, Dock, K, "off")
    BY <1>6 DEF WriteDockOverrides
  <2>2. prefs'[d][k] = IF d = Dock /\ k \in K THEN "off" ELSE prefs[d][k]
    BY <2>1, DockChanges
  <2>3. \A g \in GestureKeys : prefs[d][g] = "off"
    BY <2>1, DomainsAre DEF StartInv
  <2>4. k \in K => prefs[d][k] # "users"
    BY <2>3, KeysAssumption
  <2> QED  BY <1>2, <2>1, <2>2, <2>4 DEF Safe
<1>7. ASSUME NEW K \in SUBSET DockKeys, RemoveDockOverrides(K) PROVE Safe(d, k)'
  <2>1. /\ files' = files /\ dockRemoved' = TRUE
        /\ prefs' = With(prefs, Dock, K, "absent")
    BY <1>7 DEF RemoveDockOverrides
  <2>2. prefs'[d][k] = IF d = Dock /\ k \in K THEN "absent" ELSE prefs[d][k]
    BY <2>1, DockChanges
  <2> QED  BY <1>2, <2>1, <2>2 DEF Safe
<1>8. CASE ImportDomain
  <2>1. files' = files /\ dockRemoved' = dockRemoved
    BY <1>8 DEF ImportDomain
  <2>2. prefs[d][k] = "users" => prefs'[d][k] = "users"
    <3>1. prefs[d][k] = "users" => before[d][k] = "users"
      BY DEF KeysInv
    <3>2. prefs'[d][k] = prefs[d][k] \/ prefs'[d][k] = before[d][k]
      BY <1>8, ImportChanges
    <3> QED  BY <3>1, <3>2
  <2> QED  BY <1>2, <2>1, <2>2 DEF Safe
<1>9. CASE RemoveBackup
  <2>1. prefs' = prefs /\ dockRemoved' = dockRemoved /\ imported /\ pc \in {"undo", "restore"}
    BY <1>9 DEF RemoveBackup, Restoring
  <2>2. Held \in All /\ \A file \in files :
          (file.start = starts /\ file.domain = Domains[Held]) \/ file \in files'
    BY <1>2, <1>9, RemoveChanges
  <2>3. ASSUME NEW file \in files, file.domain = d, file.values[k] = "users",
               file.start = starts, d = Domains[Held]
        PROVE  prefs[d][k] = "users"
    <3>1. before[d][k] = "users"
      BY <2>3 DEF FileInv
    <3>2. Restored(d)
      BY <1>3, <2>1, <2>2, <2>3 DEF RestoreInv
    <3> QED  BY <3>1, <3>2 DEF Restored
  <2> QED  BY <1>2, <2>1, <2>2, <2>3 DEF Safe
<1>10. ASSUME NEW K \in SUBSET GestureKeys, DeleteGestureKeys(K) PROVE Safe(d, k)'
  <2>1. files' = files /\ dockRemoved' = dockRemoved
    BY <1>10 DEF DeleteGestureKeys
  <2>2. /\ Held \in All /\ ~backups[Held].exists
        /\ prefs'[d][k] = IF d = Domains[Held] /\ k \in K THEN "absent" ELSE prefs[d][k]
    BY <1>10, DeleteChanges
  <2>3. ~Exists(before, Domains[Held])
    <3>1. Held \in 1 .. Held
      BY <2>2, DomainsAre DEF All
    <3> QED  BY <1>3, <2>2, <3>1 DEF BackupInv
  <2>4. d = Domains[Held] => prefs[d][k] # "users"
    BY <2>3 DEF Exists, KeysInv
  <2> QED  BY <1>2, <2>1, <2>2, <2>4 DEF Safe
<1>11. UNCHANGED vars \/ Start \/ Crash \/ BackupAbsent \/ BackupExported
         \/ BackupFails \/ Stop \/ Refuse => prefs' = prefs /\ files \subseteq files'
  BY DEF vars, Start, Crash, BackupAbsent, BackupExported, BackupFails, Stop, Refuse
<1> QED
  BY <1>4, <1>5, <1>6, <1>7, <1>8, <1>9, <1>10, <1>11, NextIs DEF Other

-----------------------------------------------------------------------------

(***************************************************************************)
(* The inductive invariant, of any number of domains, keys and starts.     *)
(***************************************************************************)
THEOREM GestureInvariant == Spec => []GestureInv
<1>1. GestureInv /\ [Next]_vars => GestureInv'
  BY TypeStep, CountStep, BackupStep, FileStep, StartStep, RestoreStep, KeysStep,
     GivenBackStep, NeverLostStep DEF GestureInv
<1> QED  BY <1>1, GestureInvInit, PTL DEF Spec

(***************************************************************************)
(* The types: the program is at a domain that exists, has no more backups  *)
(* than there are domains, and waits for an import only while it restores. *)
(***************************************************************************)
THEOREM TypeCorrect == Spec => []TypeOK
<1>1. GestureInv => TypeOK
  BY DEF GestureInv, TypeInv
<1> QED  BY <1>1, GestureInvariant, PTL

(***************************************************************************)
(* A refused start and a stop give the preferences back and leave no file, *)
(* however many domains and keys there are, wherever the start failed, and *)
(* whatever any number of earlier starts, killed or not, have left.        *)
(***************************************************************************)
THEOREM GivesEverythingBack == Spec => []GivenBack
<1>1. GestureInv => GivenBack
  BY DEF GestureInv
<1> QED  BY <1>1, GestureInvariant, PTL

(***************************************************************************)
(* What the user had set is in force or in a file, wherever the program is *)
(* killed and however often it is started again over what it left.         *)
(***************************************************************************)
THEOREM LosesNothing == Spec => []NeverLost
<1>1. GestureInv => NeverLost
  BY DEF GestureInv
<1> QED  BY <1>1, GestureInvariant, PTL
=============================================================================

----------------------------- MODULE UserProofs -----------------------------
(***************************************************************************)
(* Proofs about what a user does at the prompt of a peer.  Settings, for   *)
(* any directories and any number of them: the settings are never lost,    *)
(* change as SettingStore says, and what a peer answers for is what they   *)
(* share.  Search, for any number of searches, peers and results and the   *)
(* one slot of the build: a search finds its slots and keeps its hits.     *)
(***************************************************************************)
EXTENDS Settings, Search, TLAPS, WellFoundedInduction

Line == Dir \cup {Heading}

(* A complete settings file.                                               *)
Whole(file) ==
  /\ file \in Seq(Line) /\ Len(file) >= 3
  /\ \A i \in 1 .. Len(file) : IF i = 3 THEN file[i] = Heading ELSE file[i] \in Dir

Changes == {"temp", "down", "cond"}

(* The lines that a change leaves alone.                                   *)
Untouched(i) == IF change = "cond" THEN i <= 3 ELSE i # Kept[change] + 1

(* temp_setting.txt, as far as it is written, is setting.txt with the      *)
(* change made.                                                            *)
Edited ==
  /\ change \in Changes
  /\ temp \in Seq(Line) /\ unread \in Seq(Line)
  /\ \A i \in 1 .. Len(temp) :
       IF Untouched(i) THEN i <= Len(setting) /\ temp[i] = setting[i]
                       ELSE temp[i] \in Dir

(* What is still to be read is the rest of setting.txt.                    *)
Ahead ==
  /\ Len(temp) + Len(unread) = Len(setting)
  /\ \A i \in 1 .. Len(unread) : unread[i] = setting[Len(temp) + i]

(* The inductive invariant: a file that is being written says nothing of   *)
(* the other one, so that SettingsKept alone is lost at the renaming.      *)
IInv ==
  /\ setting = NoFile \/ Whole(setting)
  /\ setting = NoFile => Whole(temp) /\ at \notin {"edit", "rest", "written"}
  /\ at \in {"edit", "rest", "written"} => Edited
  /\ at = "edit" =>
       /\ change # "cond" => Len(temp) <= Kept[change]
       /\ Len(temp) <= Kept[change] => Ahead
  /\ at = "rest" => change # "cond" /\ Len(temp) > Kept[change] /\ Ahead
  /\ at = "written" =>
       IF change = "cond" THEN Len(temp) >= 3 ELSE Len(temp) = Len(setting)
  /\ at = "removed" => setting = NoFile

LEMMA KeptLines ==
  Kept["temp"] = 0 /\ Kept["down"] = 1 /\ Kept["cond"] = 3
  BY DEF Kept

LEMMA NoFileNotWhole == ~ Whole(NoFile)
  BY SettingsAssumption DEF Whole, Line

LEMMA HeadingNoDir == Heading \notin Dir
  BY SettingsAssumption

LEMMA InitIInv == Init => IInv
  <1> SUFFICES ASSUME Init PROVE IInv
    OBVIOUS
  <1>1. PICK d \in Dir : setting = <<d, d, Heading>>
    BY SettingsAssumption DEF Init
  <1>2. Whole(setting)
    BY <1>1, SMT DEF Whole, Line
  <1> QED BY <1>2, NoFileNotWhole DEF Init, IInv

-----------------------------------------------------------------------------
(* One line more, and one line less to read.                               *)

LEMMA Appended ==
  ASSUME NEW s \in Seq(Line), NEW x \in Line
  PROVE  /\ Append(s, x) \in Seq(Line) /\ Len(Append(s, x)) = Len(s) + 1
         /\ \A i \in 1 .. Len(s) : Append(s, x)[i] = s[i]
         /\ Append(s, x)[Len(s) + 1] = x
  BY SMT

LEMMA Read ==
  ASSUME NEW s \in Seq(Line), Len(s) > 0
  PROVE  /\ Head(s) \in Line /\ Head(s) = s[1]
         /\ Tail(s) \in Seq(Line) /\ Len(Tail(s)) = Len(s) - 1
         /\ \A i \in 1 .. Len(s) - 1 : Tail(s)[i] = s[i + 1]
  BY SMT

LEMMA LineCopied ==
  ASSUME Edited, Ahead, unread # <<>>, Untouched(Len(temp) + 1),
         CopyLine, UNCHANGED <<setting, change>>
  PROVE  Edited' /\ Ahead' /\ Len(temp') = Len(temp) + 1
  <1>1. temp \in Seq(Line) /\ unread \in Seq(Line) /\ Len(unread) > 0
    BY SMT DEF Edited
  <1>2. /\ Head(unread) \in Line /\ Head(unread) = unread[1]
        /\ unread' \in Seq(Line) /\ Len(unread') = Len(unread) - 1
        /\ \A i \in 1 .. Len(unread) - 1 : unread'[i] = unread[i + 1]
    BY <1>1, Read DEF CopyLine
  <1>3. /\ temp' \in Seq(Line) /\ Len(temp') = Len(temp) + 1
        /\ \A i \in 1 .. Len(temp) : temp'[i] = temp[i]
        /\ temp'[Len(temp) + 1] = unread[1]
    BY <1>1, <1>2, Appended DEF CopyLine
  <1>4. unread[1] = setting[Len(temp) + 1] /\ Len(temp) + 1 <= Len(setting)
    BY <1>1, SMT DEF Ahead
  <1>5. Len(temp) \in Nat /\ Len(unread) \in Nat
    BY <1>1
  <1>6. ASSUME NEW i \in 1 .. Len(temp')
        PROVE  IF Untouched(i)' THEN i <= Len(setting) /\ temp'[i] = setting[i]
                                ELSE temp'[i] \in Dir
    <2>1. Untouched(i)' = Untouched(i)
      BY DEF Untouched
    <2>2. CASE i = Len(temp) + 1
      BY <1>3, <1>4, <2>1, <2>2
    <2>3. CASE i \in 1 .. Len(temp)
      BY <1>3, <2>1, <2>3 DEF Edited
    <2> QED BY <1>3, <1>5, <2>2, <2>3, SMT
  <1>7. Edited'
    BY <1>2, <1>3, <1>6 DEF Edited
  <1>8. Ahead'
    <2>1. Len(temp') + Len(unread') = Len(setting')
      <3>1. Len(temp') + Len(unread') = Len(temp) + Len(unread)
        BY <1>2, <1>3, <1>5, SMT
      <3> QED BY <3>1 DEF Ahead
    <2>2. ASSUME NEW i \in 1 .. Len(unread') PROVE unread'[i] = setting'[Len(temp') + i]
      <3>1. i \in 1 .. Len(unread) - 1 /\ i + 1 \in 1 .. Len(unread)
        BY <1>2, <1>5, SMT
      <3>2. unread'[i] = setting[Len(temp) + (i + 1)]
        BY <1>2, <3>1 DEF Ahead
      <3>3. Len(temp) + (i + 1) = Len(temp') + i
        BY <1>3, <1>5, SMT
      <3> QED BY <3>2, <3>3
    <2> QED BY <2>1, <2>2 DEF Ahead
  <1> QED BY <1>3, <1>7, <1>8

(* Another line than setting.txt has, where the change is.                 *)
LEMMA LineAdded ==
  ASSUME Edited, NEW d \in Dir, ~ Untouched(Len(temp) + 1),
         temp' = Append(temp, d), UNCHANGED <<setting, change>>, unread' \in Seq(Line)
  PROVE  Edited' /\ Len(temp') = Len(temp) + 1
  <1>1. temp \in Seq(Line) /\ d \in Line /\ Len(temp) \in Nat
    BY DEF Edited, Line
  <1>2. /\ temp' \in Seq(Line) /\ Len(temp') = Len(temp) + 1
        /\ \A i \in 1 .. Len(temp) : temp'[i] = temp[i]
        /\ temp'[Len(temp) + 1] = d
    BY <1>1, Appended
  <1>3. ASSUME NEW i \in 1 .. Len(temp')
        PROVE  IF Untouched(i)' THEN i <= Len(setting) /\ temp'[i] = setting[i]
                                ELSE temp'[i] \in Dir
    <2>1. Untouched(i)' = Untouched(i)
      BY DEF Untouched
    <2>2. CASE i = Len(temp) + 1
      BY <1>2, <2>1, <2>2
    <2>3. CASE i \in 1 .. Len(temp)
      BY <1>2, <2>1, <2>3 DEF Edited
    <2> QED BY <1>1, <1>2, <2>2, <2>3, SMT
  <1> QED BY <1>2, <1>3 DEF Edited

-----------------------------------------------------------------------------
(* The steps of a change.                                                  *)

LEMMA OpenInv ==
  ASSUME IInv, NEW c \in Changes, Open(c)
  PROVE  IInv'
  <1>1. CASE setting = NoFile
    BY <1>1 DEF Open, vars, IInv, Edited, Ahead, Untouched
  <1>2. CASE setting # NoFile
    <2>1. /\ at' = "edit" /\ change' = c /\ unread' = setting /\ temp' = <<>>
          /\ setting' = setting
      BY <1>2 DEF Open
    <2>2. Whole(setting) /\ Len(temp') = 0 /\ temp' \in Seq(Line)
      BY <1>2, <2>1, SMT DEF IInv
    <2>3. unread' \in Seq(Line) /\ Len(unread') \in Nat
      BY <2>1, <2>2 DEF Whole
    <2>4. Edited'
      BY <2>1, <2>2, <2>3, SMT DEF Edited
    <2>5. Ahead'
      BY <2>1, <2>2, <2>3, SMT DEF Ahead
    <2>6. 0 <= Kept[c]
      BY KeptLines, SMT DEF Changes
    <2> QED BY <1>2, <2>1, <2>2, <2>4, <2>5, <2>6 DEF IInv
  <1> QED BY <1>1, <1>2

LEMMA CopyInv ==
  ASSUME IInv, Copy
  PROVE  IInv'
  <1>1. /\ at = "edit" /\ Edited /\ Whole(setting) /\ setting # NoFile
        /\ Len(temp) < Kept[change]
    BY DEF IInv, Copy
  <1>2. Len(temp) \in Nat /\ Len(unread) \in Nat /\ change \in Changes
    BY <1>1 DEF Edited
  <1>3. Kept[change] \in 0 .. 3
    BY <1>2, KeptLines, SMT DEF Changes
  <1>4. Ahead
    BY <1>1, <1>2, <1>3, SMT DEF IInv
  <1>5. unread # <<>>
    BY <1>1, <1>2, <1>3, <1>4, SMT DEF Ahead, Whole
  <1>6. Untouched(Len(temp) + 1)
    BY <1>1, <1>2, <1>3, KeptLines, SMT DEF Untouched
  <1>7. Edited' /\ Ahead' /\ Len(temp') = Len(temp) + 1
    BY <1>1, <1>4, <1>5, <1>6, LineCopied DEF Copy
  <1>8. Len(temp') <= Kept[change]
    BY <1>1, <1>2, <1>3, <1>7, SMT
  <1> QED BY <1>1, <1>7, <1>8 DEF Copy, IInv

LEMMA CopyRestInv ==
  ASSUME IInv, CopyRest
  PROVE  IInv'
  <1>1. /\ at = "rest" /\ Edited /\ Whole(setting) /\ setting # NoFile
        /\ change # "cond" /\ Len(temp) > Kept[change] /\ Ahead
    BY DEF IInv, CopyRest
  <1>2. Len(temp) \in Nat /\ Len(unread) \in Nat /\ change \in Changes
    BY <1>1 DEF Edited
  <1>3. Kept[change] \in 0 .. 3
    BY <1>2, KeptLines, SMT DEF Changes
  <1>4. CASE unread # <<>>
    <2>1. Untouched(Len(temp) + 1)
      BY <1>1, <1>2, <1>3, SMT DEF Untouched
    <2>2. Edited' /\ Ahead' /\ Len(temp') = Len(temp) + 1
      BY <1>1, <1>4, <2>1, LineCopied DEF CopyRest
    <2>3. Len(temp') > Kept[change]
      BY <1>1, <1>2, <1>3, <2>2, SMT
    <2> QED BY <1>1, <1>4, <2>2, <2>3 DEF CopyRest, IInv
  <1>5. CASE unread = <<>>
    <2>1. Len(temp) = Len(setting)
      BY <1>1, <1>2, <1>5, SMT DEF Ahead
    <2>2. Edited'
      BY <1>1, <1>5 DEF CopyRest, Edited, Untouched
    <2> QED BY <1>1, <1>5, <2>1, <2>2 DEF CopyRest, IInv
  <1> QED BY <1>4, <1>5

LEMMA ReplaceLineInv ==
  ASSUME IInv, NEW d \in Dir, ReplaceLine(d)
  PROVE  IInv'
  <1>1. /\ at = "edit" /\ Edited /\ Whole(setting) /\ setting # NoFile
        /\ change # "cond" /\ Len(temp) = Kept[change]
    BY DEF IInv, ReplaceLine
  <1>2. Len(temp) \in Nat /\ Len(unread) \in Nat /\ change \in Changes
    BY <1>1 DEF Edited
  <1>3. Kept[change] \in 0 .. 1
    BY <1>1, <1>2, KeptLines, SMT DEF Changes
  <1>4. Ahead
    BY <1>1, <1>2, SMT DEF IInv
  <1>5. unread \in Seq(Line) /\ Len(unread) > 0
    BY <1>1, <1>2, <1>3, <1>4, SMT DEF Ahead, Whole, Edited
  <1>6. /\ unread' \in Seq(Line) /\ Len(unread') = Len(unread) - 1
        /\ \A i \in 1 .. Len(unread) - 1 : unread'[i] = unread[i + 1]
    BY <1>5, Read DEF ReplaceLine
  <1>7. ~ Untouched(Len(temp) + 1)
    BY <1>1 DEF Untouched
  <1>8. Edited' /\ Len(temp') = Len(temp) + 1
    BY <1>1, <1>6, <1>7, LineAdded DEF ReplaceLine
  <1>9. Ahead'
    <2>1. Len(temp') + Len(unread') = Len(setting')
      BY <1>2, <1>4, <1>6, <1>8, SMT DEF Ahead, ReplaceLine
    <2>2. ASSUME NEW i \in 1 .. Len(unread') PROVE unread'[i] = setting'[Len(temp') + i]
      <3>1. i \in 1 .. Len(unread) - 1 /\ i + 1 \in 1 .. Len(unread)
        BY <1>2, <1>6, SMT
      <3>2. unread'[i] = setting[Len(temp) + (i + 1)]
        BY <1>4, <1>6, <3>1 DEF Ahead
      <3>3. Len(temp) + (i + 1) = Len(temp') + i
        BY <1>2, <1>8, SMT
      <3> QED BY <3>2, <3>3 DEF ReplaceLine
    <2> QED BY <2>1, <2>2 DEF Ahead
  <1>10. Len(temp') > Kept[change]
    BY <1>1, <1>2, <1>8, SMT
  <1> QED BY <1>1, <1>8, <1>9, <1>10 DEF ReplaceLine, IInv

LEMMA AddDirInv ==
  ASSUME IInv, NEW d \in Dir, AddDir(d)
  PROVE  IInv'
  <1>1. /\ at = "edit" /\ Edited /\ Whole(setting) /\ setting # NoFile
        /\ change = "cond" /\ Len(temp) >= 3 /\ Len(temp) \in Nat
    BY KeptLines DEF IInv, AddDir, Edited
  <1>2. ~ Untouched(Len(temp) + 1)
    BY <1>1, SMT DEF Untouched
  <1>3. unread' \in Seq(Line)
    BY <1>1 DEF AddDir, Edited
  <1>4. Edited' /\ Len(temp') = Len(temp) + 1
    BY <1>1, <1>2, <1>3, LineAdded DEF AddDir
  <1>5. ~ (Len(temp') <= 3)
    BY <1>1, <1>4, SMT
  <1> QED BY <1>1, <1>4, <1>5, KeptLines DEF AddDir, IInv

LEMMA EndDirsInv ==
  ASSUME IInv, EndDirs
  PROVE  IInv'
  <1>1. /\ at = "edit" /\ Edited /\ Whole(setting) /\ setting # NoFile
        /\ change = "cond" /\ Len(temp) >= 3
    BY KeptLines DEF IInv, EndDirs
  <1>2. Edited'
    BY <1>1 DEF EndDirs, disk, Edited, Untouched
  <1> QED BY <1>1, <1>2 DEF EndDirs, disk, IInv

(* What takes the place of setting.txt is complete, and has the change.    *)
LEMMA WrittenWhole ==
  ASSUME IInv, at = "written"
  PROVE  /\ Whole(temp) /\ Whole(setting) /\ setting # NoFile /\ Edited
         /\ IF change = "cond" THEN Len(temp) >= 3 ELSE Len(temp) = Len(setting)
  <1>1. /\ Edited /\ Whole(setting) /\ setting # NoFile
        /\ IF change = "cond" THEN Len(temp) >= 3 ELSE Len(temp) = Len(setting)
    BY DEF IInv
  <1>2. change \in Changes /\ Len(temp) \in Nat /\ Len(temp) >= 3
    BY <1>1, SMT DEF Edited, Whole
  <1>3. change # "cond" => Kept[change] + 1 < 3
    BY <1>2, KeptLines, SMT DEF Changes
  <1>4. ASSUME NEW i \in 1 .. Len(temp)
        PROVE  IF i = 3 THEN temp[i] = Heading ELSE temp[i] \in Dir
    <2>1. CASE Untouched(i)
      BY <1>1, <2>1, SMT DEF Edited, Whole
    <2>2. CASE ~ Untouched(i)
      <3>1. i # 3
        BY <1>2, <1>3, <2>2, KeptLines, SMT DEF Untouched, Changes
      <3> QED BY <1>1, <2>2, <3>1 DEF Edited
    <2> QED BY <2>1, <2>2
  <1> QED BY <1>1, <1>2, <1>4 DEF Whole, Edited

LEMMA RemoveInv ==
  ASSUME IInv, Remove
  PROVE  IInv'
  BY WrittenWhole, NoFileNotWhole DEF Remove, Menu, IInv, Whole

LEMMA RenameInv ==
  ASSUME IInv, Rename
  PROVE  IInv'
  <1>1. setting = NoFile /\ Whole(temp)
    BY DEF Rename, IInv
  <1>2. temp # NoFile
    BY <1>1, NoFileNotWhole
  <1>3. at' = "menu"
    BY DEF Rename, Menu
  <1> QED BY <1>1, <1>2, <1>3 DEF Rename, disk, IInv, Whole

(* Every other step leaves both files alone and no change under way.       *)
LEMMA IdleInv ==
  ASSUME IInv, UNCHANGED disk,
         at' \in {"menu", "share", "running", "cut", "overrun", "off"}
  PROVE  IInv'
  BY DEF disk, IInv, Whole

LEMMA NextInv == IInv /\ [Next]_vars => IInv'
  <1> SUFFICES ASSUME IInv, [Next]_vars PROVE IInv'
    OBVIOUS
  <1>1. CASE \E c \in Changes : Open(c)
    BY <1>1, OpenInv
  <1>2. CASE ReadFails
    BY <1>2, IdleInv DEF ReadFails, Menu
  <1>3. CASE Copy
    BY <1>3, CopyInv
  <1>4. CASE CopyRest
    BY <1>4, CopyRestInv
  <1>5. CASE \E d \in Dir : ReplaceLine(d)
    BY <1>5, ReplaceLineInv
  <1>6. CASE \E d \in Dir : AddDir(d)
    BY <1>6, AddDirInv
  <1>7. CASE EndDirs
    BY <1>7, EndDirsInv
  <1>8. CASE Remove
    BY <1>8, RemoveInv
  <1>9. CASE Rename
    BY <1>9, RenameInv
  <1>10. CASE Bootstrap
    <2>1. UNCHANGED disk /\ at' \in {"share", "running", "cut", "overrun"}
      BY <1>10 DEF Bootstrap, FileCond, ListDir, ListDone, ListCut
    <2> QED BY <2>1, IdleInv
  <1>11. CASE Stop \/ Restart
    BY <1>11, IdleInv DEF Stop, Restart
  <1>12. CASE UNCHANGED vars
    BY <1>12 DEF vars, IInv, Whole, Edited, Ahead, Untouched
  <1> QED BY <1>1, <1>2, <1>3, <1>4, <1>5, <1>6, <1>7, <1>8, <1>9, <1>10, <1>11, <1>12
          DEF Next, SetDirTemp, SetDirDown, SetDirCond, Changes

LEMMA StoredWhole == IInv => Whole(Stored)
  BY DEF IInv, Stored

(* The inductive invariant, for any directories.                           *)
THEOREM Invariant == Spec => []IInv
  BY InitIInv, NextInv, PTL DEF Spec

(* For any directories, setting.txt or its copy is complete wherever the   *)
(* process ends.                                                           *)
THEOREM NeverLost == Spec => []SettingsKept
  <1>1. IInv => SettingsKept
    BY StoredWhole, NoFileNotWhole DEF SettingsKept, Whole
  <1> QED BY Invariant, <1>1, PTL

-----------------------------------------------------------------------------
(* The refinement: the settings change where setting.txt is removed.       *)

SettingsOf(file) == [temp |-> file[1], down |-> file[2], shared |-> Shared(file)]

LEMMA SharedDirs ==
  ASSUME NEW file, Whole(file)
  PROVE  Shared(file) \in Seq(Dir)
  <1>1. Len(file) - 3 \in Nat
    BY SMT DEF Whole
  <1>2. ASSUME NEW i \in 1 .. Len(file) - 3 PROVE file[i + 3] \in Dir
    <2>1. i + 3 \in 1 .. Len(file) /\ i + 3 # 3
      BY <1>1, SMT
    <2> QED BY <2>1 DEF Whole
  <1>3. Shared(file) \in [1 .. Len(file) - 3 -> Dir]
    BY <1>2 DEF Shared
  <1> QED BY <1>1, <1>3, SMT

LEMMA SettingsTyped ==
  ASSUME NEW file, Whole(file)
  PROVE  SettingsOf(file) \in [temp : Dir, down : Dir, shared : Seq(Dir)]
  <1>1. file[1] \in Dir /\ file[2] \in Dir
    BY SMT DEF Whole
  <1> QED BY <1>1, SharedDirs DEF SettingsOf

(* Any other step leaves the settings as they are.                         *)
LEMMA StoredStays ==
  ASSUME IInv, [Next]_vars, ~ Remove
  PROVE  Stored' = Stored
  <1>1. CASE UNCHANGED setting /\ (setting = NoFile => UNCHANGED temp)
    BY <1>1 DEF Stored
  <1>2. CASE Rename
    <2>1. setting = NoFile /\ temp # NoFile
      BY <1>2, NoFileNotWhole DEF Rename, IInv
    <2> QED BY <1>2, <2>1 DEF Rename, disk, Stored
  <1>3. at \in {"edit", "rest", "written"} => setting # NoFile
    BY DEF IInv
  <1>4. CASE \E c \in Changes : Open(c)
    BY <1>1, <1>4 DEF Open, vars
  <1>5. CASE ReadFails \/ Copy \/ CopyRest \/ EndDirs
    BY <1>1, <1>3, <1>5 DEF ReadFails, Menu, Copy, CopyRest, EndDirs, disk
  <1>6. CASE \E d \in Dir : ReplaceLine(d) \/ AddDir(d)
    BY <1>1, <1>3, <1>6 DEF ReplaceLine, AddDir
  <1>7. CASE Bootstrap \/ Stop \/ Restart
    BY <1>1, <1>7 DEF Bootstrap, FileCond, ListDir, ListDone, ListCut, Stop, Restart, disk
  <1>8. CASE UNCHANGED vars
    BY <1>1, <1>8 DEF vars
  <1> QED BY <1>2, <1>4, <1>5, <1>6, <1>7, <1>8
          DEF Next, SetDirTemp, SetDirDown, SetDirCond, Changes

(* The removal changes one setting.                                        *)
LEMMA RemoveStores ==
  ASSUME IInv, Remove, setting' = NoFile
  PROVE  \/ \E d \in Dir : SettingsOf(temp) = [SettingsOf(setting) EXCEPT !.temp = d]
         \/ \E d \in Dir : SettingsOf(temp) = [SettingsOf(setting) EXCEPT !.down = d]
         \/ SettingsOf(temp) = [SettingsOf(setting) EXCEPT !.shared = Shared(temp)]
  <1>1. /\ Whole(temp) /\ Whole(setting) /\ Edited
        /\ IF change = "cond" THEN Len(temp) >= 3 ELSE Len(temp) = Len(setting)
    BY WrittenWhole DEF Remove
  <1>2. temp[1] \in Dir /\ temp[2] \in Dir /\ Len(temp) \in Nat /\ Len(temp) >= 3
    BY <1>1, SMT DEF Whole
  <1>3. 1 \in 1 .. Len(temp) /\ 2 \in 1 .. Len(temp)
    BY <1>2, SMT
  <1>4. CASE change = "cond"
    <2>1. temp[1] = setting[1] /\ temp[2] = setting[2]
      BY <1>1, <1>3, <1>4, SMT DEF Edited, Untouched
    <2> QED BY <2>1 DEF SettingsOf
  <1>5. CASE change # "cond"
    <2>1. \A i \in 1 .. Len(temp) : i # Kept[change] + 1 => temp[i] = setting[i]
      BY <1>1, <1>5 DEF Edited, Untouched
    <2>2. change \in {"temp", "down"}
      BY <1>1, <1>5 DEF Edited, Changes
    <2>3. Kept[change] + 1 \in {1, 2}
      BY <2>2, KeptLines, SMT
    <2>4. Shared(temp) = Shared(setting)
      <3>1. ASSUME NEW i \in 1 .. Len(temp) - 3 PROVE temp[i + 3] = setting[i + 3]
        <4>1. i + 3 \in 1 .. Len(temp) /\ i + 3 # Kept[change] + 1
          BY <1>2, <2>3, SMT
        <4> QED BY <2>1, <4>1
      <3> QED BY <1>1, <1>5, <3>1 DEF Shared
    <2>5. CASE change = "temp"
      <3>1. temp[2] = setting[2]
        BY <1>3, <2>1, <2>5, KeptLines, SMT
      <3> QED BY <1>2, <2>4, <3>1 DEF SettingsOf
    <2>6. CASE change = "down"
      <3>1. temp[1] = setting[1]
        BY <1>3, <2>1, <2>6, KeptLines, SMT
      <3> QED BY <1>2, <2>4, <3>1 DEF SettingsOf
    <2> QED BY <2>2, <2>5, <2>6
  <1> QED BY <1>4, <1>5

(* The menu implements SettingStore, for any directories.                  *)
THEOREM Refinement == Spec => ImplementsStore
  <1>1. Init => Store!Init
    <2>1. IInv => SettingsOf(Stored) \in [temp : Dir, down : Dir, shared : Seq(Dir)]
      BY StoredWhole, SettingsTyped
    <2> QED BY InitIInv, <2>1 DEF Store!Init, Store!TypeOK, SettingsOf
  <1>2. IInv /\ [Next]_vars
        => [Store!Next]_[temp |-> Stored[1], down |-> Stored[2], shared |-> Shared(Stored)]
    <2> SUFFICES ASSUME IInv, [Next]_vars
                 PROVE  SettingsOf(Stored)' = SettingsOf(Stored) \/ Store!Next
      BY DEF SettingsOf
    <2>1. CASE ~ Remove \/ setting' = setting
      <3>1. Stored' = Stored
        BY <2>1, StoredStays DEF Remove, Stored
      <3> QED BY <3>1 DEF SettingsOf, Shared
    <2>2. CASE Remove /\ setting' # setting
      <3>1. setting' = NoFile /\ temp' = temp /\ setting # NoFile /\ Whole(temp)
        BY <2>2, WrittenWhole DEF Remove, Menu
      <3>2. Stored = setting /\ Stored' = temp
        BY <3>1 DEF Stored
      <3>3. Shared(temp) \in Seq(Dir)
        BY <3>1, SharedDirs
      <3>4. SettingsOf(Stored)' = SettingsOf(temp)
        BY <3>2 DEF SettingsOf, Shared
      <3> QED BY <2>2, <3>1, <3>2, <3>3, <3>4, RemoveStores
              DEF Store!Next, Store!SetTemp, Store!SetDown, Store!SetShared, SettingsOf
    <2> QED BY <2>1, <2>2
  <1> QED BY Invariant, <1>1, <1>2, PTL DEF Spec, ImplementsStore, Store!Spec

-----------------------------------------------------------------------------
(* The shared files.  Hashes pass through strcpy: one with a 0 byte before *)
(* its last byte never turns into one without, and the others are copied.  *)

LEMMA LeastByte ==
  ASSUME NEW T, T \subseteq Nat, T # {}
  PROVE  \E m \in T : \A x \in T : m <= x
  <1>1. \E m \in T : \A x \in T : ~ (<<x, m>> \in OpToRel(<, Nat))
    BY WFMin, NatLessThanWellFounded, Zenon
  <1>2. PICK m \in T : \A x \in T : ~ (<<x, m>> \in OpToRel(<, Nat))
    BY <1>1
  <1>3. ASSUME NEW x \in T PROVE ~ (x < m)
    <2>1. <<x, m>> \in Nat \X Nat /\ <<x, m>>[1] = x /\ <<x, m>>[2] = m
      OBVIOUS
    <2> QED BY <1>2, <2>1 DEF OpToRel
  <1> QED BY <1>3, SMT

LEMMA SameHash ==
  ASSUME NEW f \in Hash, NEW g \in Hash, \A i \in 1 .. HashLen : f[i] = g[i]
  PROVE  f = g
  <1>1. f = [i \in 1 .. HashLen |-> f[i]] /\ g = [i \in 1 .. HashLen |-> g[i]]
    BY Zenon DEF Hash
  <1>2. [i \in 1 .. HashLen |-> f[i]] = [i \in 1 .. HashLen |-> g[i]]
    BY Zenon
  <1> QED BY <1>1, <1>2, Zenon

LEMMA CopyExact ==
  ASSUME NEW name \in Hash, NEW file \in InsertMYfile(name)
  PROVE  /\ Copied(name) => file = name
         /\ Copied(file) => file = name
  <1>1. /\ file \in Hash
        /\ \A i \in 1 .. HashLen :
             (\A j \in 1 .. i - 1 : name[j] # 0) => file[i] = name[i]
    BY DEF InsertMYfile
  <1>2. HashLen \in Nat
    BY SettingsAssumption
  <1>3. ASSUME Copied(name) PROVE file = name
    <2>1. ASSUME NEW i \in 1 .. HashLen PROVE file[i] = name[i]
      <3>1. \A j \in 1 .. i - 1 : name[j] # 0
        BY <1>2, <1>3, SMT DEF Copied
      <3> QED BY <1>1, <3>1
    <2> QED BY <1>1, <2>1, SameHash
  <1>4. ASSUME Copied(file) PROVE Copied(name)
    <2> DEFINE Zero == {i \in 1 .. HashLen - 1 : name[i] = 0}
    <2> SUFFICES ASSUME Zero # {} PROVE FALSE
      BY DEF Copied
    <2>1. Zero \subseteq Nat
      BY <1>2, SMT
    <2> HIDE DEF Zero
    <2>2. PICK m \in Zero : \A x \in Zero : m <= x
      BY <2>1, LeastByte
    <2>3. m \in 1 .. HashLen - 1 /\ name[m] = 0 /\ m \in 1 .. HashLen
      BY <1>2, SMT DEF Zero
    <2>4. \A j \in 1 .. m - 1 : j \in 1 .. HashLen - 1 /\ ~ (m <= j)
      BY <1>2, <2>3, SMT
    <2>5. \A j \in 1 .. m - 1 : name[j] # 0
      BY <2>2, <2>4 DEF Zero
    <2>6. file[m] = 0
      BY <1>1, <2>3, <2>5
    <2> QED BY <1>4, <2>3, <2>6 DEF Copied
  <1> QED BY <1>3, <1>4

(* The lines of setting.txt that file_cond has dealt with.                 *)
Passed == Len(setting) - Len(unread)

(* What is left to list is the end of setting.txt, and no directory before *)
(* it was missing.                                                         *)
Listing ==
  /\ setting # NoFile
  /\ unread \in Seq(Line) /\ Passed \in Nat /\ 3 <= Passed
  /\ \A i \in 1 .. Len(unread) : unread[i] = setting[Passed + i]
  /\ \A j \in 4 .. Passed : setting[j] \in Existing
  /\ AnswersFor(CameTo)

ShareInv ==
  /\ at = "share" => Listing
  /\ at = "running" => AnswersFor(Reached)
  /\ at = "cut" => AnswersFor(CameTo)

(* list_dir adds the files of one directory.                               *)
LEMMA SharesMore ==
  ASSUME NEW dirs, AnswersFor(dirs), NEW d \in Dir, NEW names \in Taken(d),
         NEW file \in [names -> Hash],
         \A name \in names : file[name] \in InsertMYfile(name),
         buffer_file'.filehash = buffer_file.filehash \cup {file[name] : name \in names}
  PROVE  \A hash \in {h \in Name : Copied(h)} :
           /\ (\E e \in (dirs \cup {d}) \cap Slashed : hash \in Regular[e])
                => SearchHashfile(hash)'
           /\ SearchHashfile(hash)' => \E e \in dirs \cup {d} : hash \in Listed[e]
  <1>1. names \subseteq Listed[d] /\ Listed[d] \subseteq Name /\ Name \subseteq Hash
    BY SettingsAssumption DEF Taken
  <1>2. d \in Slashed => names = Regular[d]
    BY DEF Taken
  <1> TAKE hash \in {h \in Name : Copied(h)}
  <1>3. ASSUME NEW e \in (dirs \cup {d}) \cap Slashed, hash \in Regular[e]
        PROVE  SearchHashfile(hash)'
    <2>1. CASE e \in dirs
      BY <1>3, <2>1 DEF AnswersFor, SearchHashfile
    <2>2. CASE e = d
      <3>1. hash \in names
        BY <1>2, <1>3, <2>2
      <3>2. file[hash] = hash
        BY <1>1, <3>1, CopyExact
      <3> QED BY <3>1, <3>2 DEF SearchHashfile
    <2> QED BY <2>1, <2>2
  <1>4. ASSUME SearchHashfile(hash)' PROVE \E e \in dirs \cup {d} : hash \in Listed[e]
    <2>1. CASE hash \in buffer_file.filehash
      BY <2>1 DEF AnswersFor, SearchHashfile
    <2>2. CASE \E name \in names : hash = file[name]
      <3>1. PICK name \in names : hash = file[name]
        BY <2>2
      <3>2. hash = name
        BY <1>1, <3>1, CopyExact
      <3> QED BY <1>1, <3>2
    <2> QED BY <1>4, <2>1, <2>2 DEF SearchHashfile
  <1> QED BY <1>3, <1>4

LEMMA FileCondShares ==
  ASSUME IInv, FileCond
  PROVE  ShareInv'
  <1>1. buffer_file'.filehash = {} /\ setting' = setting
    BY DEF FileCond, NoFiles, disk
  <1>2. \A hash : ~ SearchHashfile(hash)'
    BY <1>1 DEF SearchHashfile
  <1>3. CASE setting = NoFile
    <2>1. at' = "running" /\ setting' = NoFile
      BY <1>1, <1>3 DEF FileCond
    <2>2. Reached' = {}
      BY <2>1 DEF Reached
    <2>3. AnswersFor(Reached)'
      BY <1>2, <2>2 DEF AnswersFor
    <2> QED BY <2>1, <2>3 DEF ShareInv
  <1>4. CASE setting # NoFile
    <2>1. at' \in {"share", "cut"} /\ unread' = Shared(setting)
      BY <1>4 DEF FileCond
    <2>2. Whole(setting)
      BY <1>4 DEF IInv
    <2>3. /\ unread' \in Seq(Dir)
          /\ Len(setting) \in Nat /\ Len(setting) >= 3
      BY <2>1, <2>2, SharedDirs DEF Whole
    <2>4. /\ Len(unread') = Len(setting) - 3
          /\ \A i \in 1 .. Len(unread') : unread'[i] = setting[i + 3]
      <3>1. Len(setting) - 3 \in Nat
        BY <2>3, SMT
      <3> QED BY <2>1, <3>1 DEF Shared
    <2>5. unread' \in Seq(Line)
      BY <2>3 DEF Line
    <2>6. Passed' = 3
      BY <1>1, <2>3, <2>4, SMT DEF Passed
    <2>7. \A i \in 1 .. Len(unread') : i + 3 = 3 + i
      BY <2>5, SMT
    <2>8. CameTo' = {}
      <3>1. Len(setting') - Len(unread') = 3 /\ 4 .. 3 = {}
        BY <1>1, <2>3, <2>4, SMT
      <3> QED BY <3>1 DEF CameTo
    <2>9. AnswersFor(CameTo)'
      BY <1>2, <2>8 DEF AnswersFor
    <2>10. Listing'
      BY <1>1, <1>4, <2>4, <2>5, <2>6, <2>7, <2>9, SMT DEF Listing
    <2> QED BY <2>1, <2>9, <2>10 DEF ShareInv
  <1> QED BY <1>3, <1>4

(* The directories up to the first that cannot be listed, or all of them.  *)
LEMMA ReachedPassed ==
  ASSUME Whole(setting), Listing,
         unread = <<>> \/ Head(unread) \notin Existing
  PROVE  Reached = CameTo
  <1>1. /\ Len(unread) \in Nat /\ Len(setting) \in Nat /\ Passed \in Nat
        /\ Passed <= Len(setting) /\ Passed + Len(unread) = Len(setting)
    BY SMT DEF Listing, Whole, Passed
  <1>2. unread # <<>> => Len(unread) > 0 /\ Head(unread) = unread[1]
    BY SMT DEF Listing
  <1> DEFINE All == {k \in 4 .. Len(setting) : \A j \in 4 .. k : setting[j] \in Existing}
  <1>3. ASSUME NEW k \in 4 .. Passed PROVE k \in All
    <2>1. k \in 4 .. Len(setting) /\ \A j \in 4 .. k : j \in 4 .. Passed
      BY <1>1, SMT
    <2> QED BY <2>1 DEF Listing
  <1>4. ASSUME NEW k \in All PROVE k \in 4 .. Passed
    <2> SUFFICES ASSUME k > Passed PROVE FALSE
      BY <1>1, SMT
    <2>1. Len(unread) > 0
      BY <1>1, SMT
    <2>2. Head(unread) = setting[Passed + 1]
      <3>1. unread # <<>> /\ 1 \in 1 .. Len(unread)
        BY <1>1, <2>1, SMT
      <3> QED BY <1>2, <3>1 DEF Listing
    <2>3. Passed + 1 \in 4 .. k
      BY <1>1, SMT DEF Listing
    <2>4. unread # <<>>
      BY <1>1, <2>1
    <2> QED BY <2>2, <2>3, <2>4
  <1>5. All = 4 .. Passed
    BY <1>3, <1>4
  <1> QED BY <1>5 DEF Reached, CameTo, Passed, Listing

LEMMA ListDirShares ==
  ASSUME IInv, ShareInv, ListDir
  PROVE  ShareInv'
  <1>1. /\ Listing /\ setting # NoFile /\ Whole(setting)
        /\ unread # <<>> /\ setting' = setting
    BY DEF ListDir, ShareInv, Listing, IInv, disk
  <1>2. /\ Len(unread) \in Nat /\ Len(unread) > 0 /\ Head(unread) = unread[1]
        /\ unread \in Seq(Line)
    BY <1>1, SMT DEF Listing
  <1>3. CASE Head(unread) \in Existing /\ at' # "overrun"
    <2>1. PICK names \in Taken(Head(unread)) :
            /\ \E file \in [names -> Hash] :
                 /\ \A name \in names : file[name] \in InsertMYfile(name)
                 /\ buffer_file'.filehash
                      = buffer_file.filehash \cup {file[name] : name \in names}
            /\ unread' = Tail(unread) /\ at' = at
      BY <1>3 DEF ListDir
    <2>2. PICK file \in [names -> Hash] :
            /\ \A name \in names : file[name] \in InsertMYfile(name)
            /\ buffer_file'.filehash
                 = buffer_file.filehash \cup {file[name] : name \in names}
      BY <2>1
    <2>3. unread' = Tail(unread) /\ at' = "share"
      BY <2>1 DEF ListDir
    <2>4. /\ unread' \in Seq(Line) /\ Len(unread') = Len(unread) - 1
          /\ \A i \in 1 .. Len(unread) - 1 : unread'[i] = unread[i + 1]
      BY <1>2, <2>3, Read
    <2>5. /\ Passed' = Passed + 1 /\ Passed' \in Nat /\ 3 <= Passed'
          /\ Passed \in Nat /\ 3 <= Passed
      BY <1>1, <1>2, <2>4, SMT DEF Listing, Passed, Whole
    <2>6. Head(unread) = setting[Passed + 1] /\ Head(unread) \in Dir
      BY <1>1, <1>2, <1>3, SettingsAssumption DEF Listing
    <2>7. \A j \in 4 .. Passed' : j \in 4 .. Passed \/ j = Passed + 1
      BY <2>5, SMT
    <2>8. \A j \in 4 .. Passed' : setting'[j] \in Existing
      BY <1>1, <1>3, <2>6, <2>7 DEF Listing
    <2>9. ASSUME NEW i \in 1 .. Len(unread') PROVE unread'[i] = setting'[Passed' + i]
      <3>1. i \in 1 .. Len(unread) - 1 /\ i + 1 \in 1 .. Len(unread)
        BY <1>2, <2>4, SMT
      <3>2. unread'[i] = setting[Passed + (i + 1)]
        BY <1>1, <2>4, <3>1 DEF Listing
      <3>3. Passed + (i + 1) = Passed' + i
        BY <2>5, SMT
      <3> QED BY <1>1, <3>2, <3>3
    <2>10. CameTo' = CameTo \cup {Head(unread)}
      <3>1. 4 .. Passed' = (4 .. Passed) \cup {Passed + 1}
        BY <2>5, SMT
      <3> QED BY <1>1, <2>6, <3>1 DEF CameTo, Passed
    <2>11. AnswersFor(CameTo)'
      <3>1. AnswersFor(CameTo)
        BY <1>1 DEF Listing
      <3> DEFINE dirs == CameTo
      <3> HIDE DEF dirs
      <3>2. AnswersFor(dirs)
        BY <3>1 DEF dirs
      <3>3. \A hash \in {h \in Name : Copied(h)} :
           /\ (\E e \in (dirs \cup {Head(unread)}) \cap Slashed : hash \in Regular[e])
                => SearchHashfile(hash)'
           /\ SearchHashfile(hash)' => \E e \in dirs \cup {Head(unread)} : hash \in Listed[e]
        BY <2>2, <2>6, <3>2, SharesMore
      <3> QED BY <2>10, <3>3 DEF AnswersFor, dirs
    <2>12. Listing'
      BY <1>1, <2>4, <2>5, <2>8, <2>9, <2>11 DEF Listing
    <2> QED BY <2>3, <2>12 DEF ShareInv
  <1>4. CASE Head(unread) \notin Existing
    <2>1. at' = "running" /\ UNCHANGED <<setting, buffer_file>>
      BY <1>1, <1>4 DEF ListDir, disk
    <2>2. AnswersFor(Reached)
      BY <1>1, <1>4, ReachedPassed DEF Listing
    <2>3. AnswersFor(Reached)'
      BY <2>1, <2>2 DEF AnswersFor, SearchHashfile, Reached
    <2> QED BY <2>1, <2>3 DEF ShareInv
  <1>5. CASE at' = "overrun"
    BY <1>5 DEF ShareInv
  <1> QED BY <1>3, <1>4, <1>5

LEMMA ListDoneShares ==
  ASSUME IInv, ShareInv, ListDone
  PROVE  ShareInv'
  <1>1. Listing /\ Whole(setting) /\ unread = <<>>
    BY DEF ListDone, ShareInv, Listing, IInv
  <1>2. AnswersFor(Reached)
    BY <1>1, ReachedPassed DEF Listing
  <1>3. at' = "running" /\ AnswersFor(Reached)'
    BY <1>2 DEF ListDone, disk, AnswersFor, SearchHashfile, Reached
  <1> QED BY <1>3 DEF ShareInv

LEMMA ListCutShares ==
  ASSUME ShareInv, ListCut
  PROVE  ShareInv'
  <1>1. at' = "cut" /\ UNCHANGED <<setting, unread, buffer_file>> /\ AnswersFor(CameTo)
    BY DEF ListCut, ShareInv, Listing, disk
  <1> QED BY <1>1 DEF ShareInv, AnswersFor, SearchHashfile, CameTo

(* While the files are listed and answered for nothing else happens, but   *)
(* the end of the process.                                                 *)
LEMMA OthersShare ==
  ASSUME [Next]_vars, ~ Bootstrap
  PROVE  \/ at' \notin {"share", "running", "cut"}
         \/ UNCHANGED <<setting, at, unread, buffer_file>>
  <1> USE DEF Menu
  <1>1. CASE \E c \in Changes : Open(c)
    BY <1>1 DEF Open, vars
  <1>2. CASE ReadFails \/ Copy \/ CopyRest \/ EndDirs \/ Remove \/ Rename
    BY <1>2 DEF ReadFails, Copy, CopyRest, EndDirs, Remove, Rename
  <1>3. CASE \E d \in Dir : ReplaceLine(d) \/ AddDir(d)
    BY <1>3 DEF ReplaceLine, AddDir
  <1>4. CASE Stop \/ Restart \/ UNCHANGED vars
    BY <1>4 DEF Stop, Restart, vars
  <1> QED BY <1>1, <1>2, <1>3, <1>4
          DEF Next, SetDirTemp, SetDirDown, SetDirCond, Changes

LEMMA ShareNext == IInv /\ ShareInv /\ [Next]_vars => ShareInv'
  <1> SUFFICES ASSUME IInv, ShareInv, [Next]_vars PROVE ShareInv'
    OBVIOUS
  <1>1. CASE Bootstrap
    BY <1>1, FileCondShares, ListDirShares, ListDoneShares, ListCutShares DEF Bootstrap
  <1>2. CASE at' \notin {"share", "running", "cut"}
    BY <1>2 DEF ShareInv
  <1>3. CASE UNCHANGED <<setting, at, unread, buffer_file>>
    BY <1>3 DEF ShareInv, Listing, AnswersFor, SearchHashfile, Reached, CameTo, Passed
  <1> QED BY <1>1, <1>2, <1>3, OthersShare

(* A running peer answers for the files of the directories that it came to *)
(* and for no other, for any directories, files, length of hashes and room *)
(* in buffer_file, wherever a reading fails, unless the room is too small. *)
THEOREM AnswersForShared == Spec => []SharedExactly
  <1>1. Init => ShareInv
    BY DEF Init, ShareInv
  <1>2. ShareInv => SharedExactly
    BY DEF ShareInv, SharedExactly
  <1> QED BY Invariant, ShareNext, <1>1, <1>2, PTL DEF Spec

-----------------------------------------------------------------------------
(* Search.                                                                 *)

(* The places of a search.                                                 *)
Places == {"none", "queried", "sleep", "choose", "limit", "age", "id", "results", "post",
           "closing", "ended"}

(* A search from its event slot until it lets the next one in, and until   *)
(* it gives its thread slot back.                                          *)
Active == {q \in Id : out[q].at \in
             {"queried", "sleep", "choose", "limit", "age", "id", "results", "post"}}
Threads == {q \in Id : out[q].at \in
             {"sleep", "choose", "limit", "age", "id", "results", "post", "closing"}}

Result == Peer \cup {Blank}

SearchTypeOK ==
  /\ in \in {"prompt", "read", "event", "slot", "create"}
  /\ query \in Id \cup {NoId}
  /\ evt \in [{0} -> [id : Id \cup {NoId}, busy : BOOLEAN, results : Seq(Result)]]
  /\ input \in {0, 1}
  /\ th_out \in [{0} -> Id \cup {NoId}]
  /\ out \in [Id -> [at : Places, index : {0, 1}, index_th : {0, 1}]]
  /\ bye_peer \subseteq Peer /\ hits \subseteq Peer \X Id
  /\ answered \in [Id -> SUBSET Peer]

(* The unit of sem_input is in the semaphore, with process_in or with the  *)
(* one active search.  Any number of searches may be closing meanwhile.    *)
OneSearch ==
  /\ \A q, r \in Active : q = r
  /\ Active # {} => input = 0 /\ in \notin {"read", "event"}
  /\ input = 1 => in = "prompt"
  /\ in = "event" => query \in Id /\ out[query] = NoThread
  /\ in \in {"slot", "create"} => query \in Id /\ out[query].at = "queried"
  /\ \A q \in Id : out[q].at = "queried" => in \in {"slot", "create"}

(* Its two slots have the same number, which is that of the searches that  *)
(* are closing too: th_out has the handle of one of them, or of none.      *)
SlotsHeld ==
  /\ \A q \in Active : out[q].index = 0
  /\ \A q \in Threads : out[q].index_th = 0
  /\ th_out[0] # NoId => th_out[0] \in Threads
  /\ in = "create" => out[query].index_th = 0

(* The event slot is busy with the active search, and takes its hits.      *)
Collecting ==
  /\ evt[0].busy => \E q \in Id : out[q].at \in {"queried", "sleep", "choose", "limit", "age"}
  /\ \A q \in Id : out[q].at \in {"queried", "sleep", "choose", "limit", "age", "id"} => evt[0].id = q
  /\ Len(evt[0].results) <= MaxResult
  /\ \A q \in Id : out[q].at \in {"queried", "sleep"} =>
       answered[q] \subseteq Range(evt[0].results) \/ Len(evt[0].results) = MaxResult
  /\ \A q \in Id : out[q].at = "none" => answered[q] = {}

(* A hit that a helper has is for a query that was sent.                   *)
HitsAsked == \A hit \in hits : out[hit[2]].at # "none"

SearchInv == SearchTypeOK /\ OneSearch /\ SlotsHeld /\ Collecting /\ HitsAsked

(* The build has one slot.                                                 *)
OneSlot == MaxEvt = 1

LEMMA TheSlot ==
  ASSUME OneSlot
  PROVE  /\ Slots = {0} /\ MaxEvt = 1
         /\ First({}) = 1 /\ First({0}) = 0
  <1>1. Slots = {0} /\ MaxEvt = 1
    BY SMT DEF OneSlot, Slots
  <1>2. {0} # {} /\ Min({0}) = 0
    BY SMT DEF Min
  <1> QED BY <1>1, <1>2 DEF First

LEMMA InitSearch == OneSlot /\ SearchInit => SearchInv
  <1> SUFFICES ASSUME OneSlot, SearchInit PROVE SearchInv
    OBVIOUS
  <1>1. /\ in = "prompt" /\ query = NoId /\ input = 1
        /\ evt = [i \in {0} |-> [id |-> NoId, busy |-> FALSE, results |-> <<>>]]
        /\ th_out = [i \in {0} |-> NoId]
        /\ out = [q \in Id |-> [at |-> "none", index |-> 1, index_th |-> 1]]
        /\ bye_peer = {} /\ hits = {} /\ answered = [q \in Id |-> {}]
    BY TheSlot DEF SearchInit, NoThread
  <1>2. SearchTypeOK
    BY <1>1 DEF SearchTypeOK, Places
  <1>3. Active = {} /\ Threads = {} /\ Closing = {} /\ \A q \in Id : out[q].at = "none"
    BY <1>1 DEF Active, Threads, Closing
  <1>4. OneSearch /\ SlotsHeld
    BY <1>1, <1>3 DEF OneSearch, SlotsHeld
  <1>5. Collecting
    BY <1>1, <1>3, SearchAssumption DEF Collecting
  <1>6. HitsAsked
    BY <1>1 DEF HitsAsked
  <1> QED BY <1>2, <1>4, <1>5, <1>6 DEF SearchInv

-----------------------------------------------------------------------------
(* Only one search moves at a time.                                        *)
Moves(q, from, to) ==
  /\ out[q].at = from /\ out'[q].at = to
  /\ \A r \in Id \ {q} : out'[r] = out[r]
  /\ out' \in [Id -> [at : Places, index : {0, 1}, index_th : {0, 1}]]

LEMMA Moved ==
  ASSUME SearchTypeOK, NEW q \in Id, NEW from, NEW to \in Places, At(q, from, to)
  PROVE  Moves(q, from, to) /\ out'[q].index = out[q].index /\ out'[q].index_th = out[q].index_th
  <1> DEFINE T == [at : Places, index : {0, 1}, index_th : {0, 1}]
             new == [out[q] EXCEPT !.at = to]
  <1>1. out \in [Id -> T] /\ out[q] \in T
    BY DEF SearchTypeOK
  <1>2. new \in T /\ new.at = to /\ new.index = out[q].index /\ new.index_th = out[q].index_th
    BY <1>1
  <1>3. out' = [out EXCEPT ![q] = new]
    BY DEF At
  <1> HIDE DEF new, T
  <1>4. out' \in [Id -> T] /\ out'[q] = new /\ \A r \in Id \ {q} : out'[r] = out[r]
    BY <1>1, <1>2, <1>3
  <1> QED BY <1>2, <1>4 DEF Moves, At, T

(* What such a step makes of the sets of searches.                         *)
LEMMA MovedSets ==
  ASSUME NEW q \in Id, NEW from, NEW to, Moves(q, from, to)
  PROVE  /\ Active' = {r \in Id : IF r = q
              THEN to \in {"queried", "sleep", "choose", "limit", "age", "id", "results", "post"}
              ELSE r \in Active}
         /\ Threads' = {r \in Id : IF r = q
              THEN to \in {"sleep", "choose", "limit", "age", "id", "results", "post", "closing"}
              ELSE r \in Threads}
         /\ Closing' = {r \in Id : IF r = q THEN to = "closing" ELSE r \in Closing}
  BY DEF Moves, Active, Threads, Closing

(* A search in its last steps, one after the other.                        *)
LEMMA ActiveMoves ==
  ASSUME SearchInv, NEW q \in Id,
         NEW from \in {"sleep", "choose", "limit", "age", "id", "results"},
         NEW to \in {"choose", "limit", "age", "id", "results", "post"},
         At(q, from, to), UNCHANGED <<in, query, input, th_out>>
  PROVE  /\ OneSearch' /\ SlotsHeld' /\ Moves(q, from, to)
         /\ q \in Active /\ q \in Threads /\ out[q].index_th = 0
  <1>1. /\ Moves(q, from, to)
        /\ out'[q].index = out[q].index /\ out'[q].index_th = out[q].index_th
    BY Moved DEF SearchInv, Places
  <1>2. out[q].at = from /\ q \in Active /\ q \in Threads /\ q \notin Closing
    BY <1>1 DEF Moves, Active, Threads, Closing
  <1>3. Active' = Active /\ Threads' = Threads /\ Closing' = Closing
    BY <1>1, <1>2, MovedSets DEF Active, Threads, Closing
  <1>4. OneSearch'
    BY <1>1, <1>2, <1>3 DEF Moves, SearchInv, OneSearch
  <1>5. SlotsHeld'
    <2>1. \A r \in Id : out'[r].index = out[r].index /\ out'[r].index_th = out[r].index_th
      BY <1>1 DEF Moves
    <2>2. Active \subseteq Id /\ Threads \subseteq Id
      BY DEF Active, Threads
    <2>3. in = "create" => query \in Id
      BY DEF SearchInv, OneSearch
    <2> QED BY <1>3, <2>1, <2>2, <2>3 DEF SearchInv, SlotsHeld
  <1> QED BY <1>1, <1>2, <1>4, <1>5 DEF SearchInv, SlotsHeld

(* What changes of the event slot when a search resets part of it.         *)
LEMMA EventReset ==
  ASSUME OneSlot, SearchInv, NEW q \in Id, out[q].index_th = 0, NEW new,
         evt' = [i \in Slots |-> IF i \in Mine(q) THEN new ELSE evt[i]]
  PROVE  evt' = [i \in {0} |-> new] /\ evt'[0] = new
  <1>1. Mine(q) = {0}
    BY TheSlot DEF Mine
  <1> QED BY <1>1, TheSlot

Event == [id : Id \cup {NoId}, busy : BOOLEAN, results : Seq(Result)]

LEMMA StillAsked ==
  ASSUME SearchInv, hits' \subseteq hits,
         \A r \in Id : out[r].at # "none" => out'[r].at # "none"
  PROVE  HitsAsked'
  <1>1. \A hit \in hits : hit[2] \in Id
    BY DEF SearchInv, SearchTypeOK
  <1> QED BY <1>1 DEF SearchInv, HitsAsked

LEMMA SearchTyped ==
  ASSUME SearchInv, NEW q \in Id, NEW from, NEW to, Moves(q, from, to), to # "none",
         UNCHANGED <<in, query, input, th_out, messages>>, evt' \in [{0} -> Event]
  PROVE  SearchTypeOK' /\ HitsAsked' /\ answered' = answered
  <1>1. SearchTypeOK' /\ answered' = answered /\ hits' = hits
    BY DEF SearchInv, SearchTypeOK, Event, Moves, messages
  <1>2. HitsAsked'
    BY <1>1, StillAsked DEF Moves
  <1> QED BY <1>1, <1>2

LEMMA ShowKeeps ==
  ASSUME SearchInv, NEW q \in Id, Show(q)
  PROVE  SearchInv'
  <1>1. OneSearch' /\ SlotsHeld' /\ Moves(q, "sleep", "choose")
    BY ActiveMoves DEF Show
  <1>2. SearchTypeOK' /\ HitsAsked' /\ answered' = answered
    BY <1>1, SearchTyped DEF Show, SearchInv, SearchTypeOK, Event
  <1>3. Collecting'
    BY <1>1, <1>2 DEF SearchInv, Collecting, Moves, Show
  <1> QED BY <1>1, <1>2, <1>3 DEF SearchInv

LEMMA ChooseKeeps ==
  ASSUME SearchInv, NEW q \in Id, Choose(q)
  PROVE  SearchInv'
  <1>1. OneSearch' /\ SlotsHeld' /\ Moves(q, "choose", "limit")
    BY ActiveMoves DEF Choose
  <1>2. SearchTypeOK' /\ HitsAsked' /\ answered' = answered
    BY <1>1, SearchTyped DEF Choose, SearchInv, SearchTypeOK, Event
  <1>3. Collecting'
    BY <1>1, <1>2 DEF SearchInv, Collecting, Moves, Choose
  <1> QED BY <1>1, <1>2, <1>3 DEF SearchInv

LEMMA ResetLimitKeeps ==
  ASSUME OneSlot, SearchInv, NEW q \in Id, ResetLimit(q)
  PROVE  SearchInv'
  <1>1. OneSearch' /\ SlotsHeld' /\ Moves(q, "limit", "age") /\ q \in Active /\ out[q].index_th = 0
    BY ActiveMoves DEF ResetLimit
  <1> DEFINE new == [evt[0] EXCEPT !.results = <<>>]
  <1>2. evt[0] \in Event
    BY DEF SearchInv, SearchTypeOK, Event
  <1>3. /\ new \in Event /\ new.id = evt[0].id /\ new.busy = evt[0].busy
        /\ new.results = <<>>
    <2>1. <<>> \in Seq(Result)
      OBVIOUS
    <2> QED BY <1>2, <2>1 DEF Event
  <1>4. evt' = [i \in Slots |-> IF i \in Mine(q) THEN new ELSE evt[i]]
    BY TheSlot DEF ResetLimit
  <1> HIDE DEF new
  <1>5. evt' = [i \in {0} |-> new] /\ evt'[0] = new
    BY <1>1, <1>4, EventReset
  <1>6. SearchTypeOK' /\ HitsAsked' /\ answered' = answered
    BY <1>1, <1>3, <1>5, SearchTyped DEF ResetLimit
  <1>7. /\ Len(<<>>) <= MaxResult
        /\ \A r \in Id : out[r].at \notin {"queried", "sleep"} \/ r = q
    BY <1>1, SearchAssumption DEF SearchInv, OneSearch, Active
  <1>8. Collecting'
    BY <1>1, <1>3, <1>5, <1>6, <1>7 DEF SearchInv, Collecting, Moves, ResetLimit
  <1> QED BY <1>1, <1>6, <1>8 DEF SearchInv

LEMMA ResetAgeKeeps ==
  ASSUME OneSlot, SearchInv, NEW q \in Id, ResetAge(q)
  PROVE  SearchInv'
  <1>1. OneSearch' /\ SlotsHeld' /\ Moves(q, "age", "id") /\ q \in Active /\ out[q].index_th = 0
    BY ActiveMoves DEF ResetAge
  <1> DEFINE new == [evt[0] EXCEPT !.busy = FALSE]
  <1>2. evt[0] \in Event
    BY DEF SearchInv, SearchTypeOK, Event
  <1>3. /\ new \in Event /\ new.id = evt[0].id /\ ~ new.busy
        /\ new.results = evt[0].results
    BY <1>2 DEF Event
  <1>4. evt' = [i \in Slots |-> IF i \in Mine(q) THEN new ELSE evt[i]]
    BY TheSlot DEF ResetAge
  <1> HIDE DEF new
  <1>5. evt' = [i \in {0} |-> new] /\ evt'[0] = new
    BY <1>1, <1>4, EventReset
  <1>6. SearchTypeOK' /\ HitsAsked' /\ answered' = answered
    BY <1>1, <1>3, <1>5, SearchTyped DEF ResetAge
  <1>8. Collecting'
    BY <1>1, <1>3, <1>5, <1>6 DEF SearchInv, Collecting, Moves, ResetAge
  <1> QED BY <1>1, <1>6, <1>8 DEF SearchInv

LEMMA ResetIdKeeps ==
  ASSUME OneSlot, SearchInv, NEW q \in Id, ResetId(q)
  PROVE  SearchInv'
  <1>1. OneSearch' /\ SlotsHeld' /\ Moves(q, "id", "results") /\ q \in Active /\ out[q].index_th = 0
    BY ActiveMoves DEF ResetId
  <1> DEFINE new == [evt[0] EXCEPT !.id = NoId]
  <1>2. evt[0] \in Event
    BY DEF SearchInv, SearchTypeOK, Event
  <1>3. /\ new \in Event /\ new.busy = evt[0].busy
        /\ new.results = evt[0].results
    BY <1>2 DEF Event
  <1>4. evt' = [i \in Slots |-> IF i \in Mine(q) THEN new ELSE evt[i]]
    BY TheSlot DEF ResetId
  <1> HIDE DEF new
  <1>5. evt' = [i \in {0} |-> new] /\ evt'[0] = new
    BY <1>1, <1>4, EventReset
  <1>6. SearchTypeOK' /\ HitsAsked' /\ answered' = answered
    BY <1>1, <1>3, <1>5, SearchTyped DEF ResetId
  <1>7. \A r \in Id : r = q \/ out[r].at \notin {"queried", "sleep", "choose", "limit", "age", "id"}
    BY <1>1 DEF SearchInv, OneSearch, Active
  <1>8. Collecting'
    BY <1>1, <1>3, <1>5, <1>6, <1>7 DEF SearchInv, Collecting, Moves, ResetId
  <1> QED BY <1>1, <1>6, <1>8 DEF SearchInv

LEMMA ResetResultsKeeps ==
  ASSUME OneSlot, SearchInv, NEW q \in Id, ResetResults(q)
  PROVE  SearchInv'
  <1>1. /\ OneSearch' /\ SlotsHeld' /\ Moves(q, "results", "post") /\ q \in Active
        /\ out[q].index_th = 0
    BY ActiveMoves DEF ResetResults
  <1> DEFINE blanks == [k \in DOMAIN evt[0].results |-> Blank]
             new == [evt[0] EXCEPT !.results = blanks]
  <1>2. evt[0] \in Event
    BY DEF SearchInv, SearchTypeOK, Event
  <1>3. blanks \in Seq(Result) /\ Len(blanks) = Len(evt[0].results)
    BY <1>2 DEF Event, Result
  <1>4. evt' = [i \in Slots |-> IF i \in Mine(q) THEN new ELSE evt[i]]
    BY TheSlot DEF ResetResults
  <1> HIDE DEF blanks
  <1>5. /\ new \in Event /\ new.busy = evt[0].busy /\ new.id = evt[0].id
        /\ new.results = blanks
    BY <1>2, <1>3 DEF Event
  <1> HIDE DEF new
  <1>6. evt' = [i \in {0} |-> new] /\ evt'[0] = new
    BY <1>1, <1>4, EventReset
  <1>7. SearchTypeOK' /\ HitsAsked' /\ answered' = answered
    BY <1>1, <1>5, <1>6, SearchTyped DEF ResetResults
  <1>8. \A r \in Id : r = q \/ out[r].at \notin {"queried", "sleep", "choose", "limit", "age", "id"}
    BY <1>1 DEF SearchInv, OneSearch, Active
  <1>9. Collecting'
    BY <1>1, <1>3, <1>5, <1>6, <1>7, <1>8 DEF SearchInv, Collecting, Moves, ResetResults
  <1> QED BY <1>1, <1>7, <1>9 DEF SearchInv

LEMMA PostKeeps ==
  ASSUME SearchInv, NEW q \in Id, Post(q)
  PROVE  SearchInv'
  <1>1. /\ Moves(q, "post", "closing")
        /\ out'[q].index = out[q].index /\ out'[q].index_th = out[q].index_th
    BY Moved DEF SearchInv, Places, Post
  <1>2. out[q].at = "post" /\ q \in Active /\ q \in Threads
    BY <1>1 DEF Moves, Active, Threads
  <1>3. in \notin {"read", "event", "slot", "create"}
    BY <1>2 DEF SearchInv, OneSearch, Active
  <1>4. in = "prompt"
    BY <1>3 DEF SearchInv, SearchTypeOK
  <1>5. Active = {q}
    BY <1>2 DEF SearchInv, OneSearch, Active
  <1>6. Active' = {} /\ Threads' = Threads
    BY <1>1, <1>2, <1>5, MovedSets DEF Threads
  <1>7. input' = 1
    BY <1>2, SMT DEF SearchInv, OneSearch, Post
  <1>8. OneSearch'
    BY <1>1, <1>4, <1>6, <1>7 DEF Moves, SearchInv, OneSearch, Post
  <1>9. SlotsHeld'
    <2>1. \A r \in Id : out'[r].index_th = out[r].index_th
      BY <1>1 DEF Moves
    <2>2. Threads \subseteq Id
      BY DEF Threads
    <2> QED BY <1>4, <1>6, <2>1, <2>2 DEF SearchInv, SlotsHeld, Post
  <1>10. SearchTypeOK'
    BY <1>1, <1>7 DEF Moves, SearchInv, SearchTypeOK, Post, messages
  <1>11. answered' = answered /\ hits' = hits
    BY DEF Post, messages
  <1>12. Collecting'
    BY <1>1, <1>11 DEF Moves, SearchInv, Collecting, Post
  <1>13. HitsAsked'
    BY <1>1, <1>11, StillAsked DEF Moves
  <1> QED BY <1>8, <1>9, <1>10, <1>12, <1>13 DEF SearchInv

LEMMA CloseKeeps ==
  ASSUME OneSlot, SearchInv, NEW q \in Id, Close(q)
  PROVE  SearchInv'
  <1>1. /\ Moves(q, "closing", "ended")
        /\ out'[q].index = out[q].index /\ out'[q].index_th = out[q].index_th
    BY Moved DEF SearchInv, Places, Close
  <1>2. out[q].at = "closing" /\ q \in Threads /\ q \notin Active
    BY <1>1 DEF Moves, Active, Threads
  <1>3. Active' = Active /\ Threads' = Threads \ {q}
    BY <1>1, <1>2, MovedSets DEF Active, Threads
  <1>4. th_out' = [i \in {0} |-> NoId]
    <2>1. Mine(q) = {0}
      BY <1>2, TheSlot DEF Mine, SearchInv, SlotsHeld
    <2> QED BY <2>1, TheSlot DEF Close
  <1>5. OneSearch'
    BY <1>1, <1>3 DEF Moves, SearchInv, OneSearch, Close, NoThread
  <1>6. SlotsHeld'
    BY <1>1, <1>3, <1>4 DEF Moves, Active, Threads, SearchInv, OneSearch, SlotsHeld, Close
  <1>7. SearchTypeOK'
    BY <1>1, <1>4 DEF Moves, SearchInv, SearchTypeOK, Close, messages
  <1>8. answered' = answered /\ hits' = hits
    BY DEF Close, messages
  <1>9. Collecting'
    BY <1>1, <1>8 DEF Moves, SearchInv, Collecting, Close
  <1>10. HitsAsked'
    BY <1>1, <1>8, StillAsked DEF Moves
  <1> QED BY <1>5, <1>6, <1>7, <1>9, <1>10 DEF SearchInv

LEMMA OutKeeps ==
  ASSUME OneSlot, SearchInv, NEW q \in Id, Out(q)
  PROVE  SearchInv'
  BY ShowKeeps, ResetLimitKeeps, ResetAgeKeeps, ResetIdKeeps, ResetResultsKeeps, PostKeeps,
     CloseKeeps DEF Out

-----------------------------------------------------------------------------
(* Hits, byes and the prompt.                                              *)

LEMMA CheckKeeps ==
  ASSUME SearchInv, NEW p \in Peer, NEW q \in Id, Check(p, q)
  PROVE  SearchInv'
  <1>1. /\ hits' = hits \cup {<<p, q>>} /\ out[q].at # "none" /\ <<p, q>>[2] = q
        /\ UNCHANGED <<in, query, evt, input, th_out, out, bye_peer, answered>>
    BY DEF Check, Asked
  <1>2. SearchTypeOK'
    BY <1>1 DEF SearchInv, SearchTypeOK
  <1>3. OneSearch' /\ SlotsHeld'
    BY <1>1 DEF SearchInv, OneSearch, SlotsHeld, Active, Threads
  <1>4. HitsAsked'
    BY <1>1 DEF SearchInv, HitsAsked
  <1>5. Collecting'
    BY <1>1 DEF SearchInv, Collecting
  <1> QED BY <1>2, <1>3, <1>4, <1>5 DEF SearchInv

LEMMA ByeKeeps ==
  ASSUME SearchInv, NEW p \in Peer, Bye(p)
  PROVE  SearchInv'
  <1>1. /\ bye_peer' \in {bye_peer \cup {p}, bye_peer \ {p}}
        /\ UNCHANGED <<in, query, evt, input, th_out, out, hits, answered>>
    BY DEF Bye
  <1>2. SearchTypeOK'
    BY <1>1 DEF SearchInv, SearchTypeOK
  <1>3. OneSearch' /\ SlotsHeld' /\ Collecting' /\ HitsAsked'
    BY <1>1 DEF SearchInv, OneSearch, SlotsHeld, Collecting, HitsAsked, Active, Threads
  <1> QED BY <1>2, <1>3 DEF SearchInv

LEMMA HitKeeps ==
  ASSUME OneSlot, SearchInv, NEW p \in Peer, NEW q \in Id, QueryHit(p, q)
  PROVE  SearchInv'
  <1> DEFINE res == evt[0].results
             new == [evt[0] EXCEPT !.results = Append(res, p)]
             hit == 0 \in Found(q) /\ p \notin Range(res)
  <1>1. evt[0] \in Event /\ res \in Seq(Result) /\ p \in Result
    BY DEF SearchInv, SearchTypeOK, Event, Result
  <1>2. Append(res, p) \in Seq(Result)
    BY <1>1
  <1>3. /\ new \in Event /\ new.id = evt[0].id /\ new.busy = evt[0].busy
        /\ new.results = Append(res, p)
    BY <1>1, <1>2 DEF Event
  <1>4. evt' = [i \in {0} |-> IF hit THEN new ELSE evt[0]]
    BY TheSlot DEF QueryHit
  <1> HIDE DEF new
  <1>5. evt'[0] = (IF hit THEN new ELSE evt[0]) /\ evt' \in [{0} -> Event]
    BY <1>1, <1>3, <1>4
  <1>6. /\ Len(Append(res, p)) = Len(res) + 1
        /\ Range(Append(res, p)) = Range(res) \cup {p}
    <2>1. Len(Append(res, p)) = Len(res) + 1 /\ Len(res) \in Nat
      BY <1>1
    <2>2. DOMAIN Append(res, p) = 1 .. Len(res) + 1 /\ DOMAIN res = 1 .. Len(res)
      BY <1>1, <2>1
    <2>3. /\ \A k \in 1 .. Len(res) : Append(res, p)[k] = res[k]
          /\ Append(res, p)[Len(res) + 1] = p
      BY <1>1
    <2>4. \A k \in 1 .. Len(res) + 1 : k \in 1 .. Len(res) \/ k = Len(res) + 1
      BY <2>1, SMT
    <2>5. 1 .. Len(res) \subseteq 1 .. Len(res) + 1 /\ Len(res) + 1 \in 1 .. Len(res) + 1
      BY <2>1, SMT
    <2> HIDE DEF res
    <2> QED BY <2>1, <2>2, <2>3, <2>4, <2>5 DEF Range
  <1>7. 0 \in Found(q) <=> evt[0].id = q /\ Len(res) < MaxResult
    <2>1. 0 .. 0 = {0} /\ 0 .. 0 - 1 = {}
      BY SMT
    <2> QED BY <2>1, TheSlot DEF Found
  <1>8. Len(res) \in Nat /\ MaxResult \in Nat
    BY <1>1, SearchAssumption
  <1>9. Len(evt'[0].results) <= MaxResult
    <2>1. Len(res) <= MaxResult
      BY DEF SearchInv, Collecting
    <2>2. hit => Len(res) + 1 <= MaxResult
      BY <1>7, <1>8, SMT
    <2> HIDE DEF hit, res
    <2> QED BY <1>3, <1>5, <1>6, <2>1, <2>2 DEF res
  <1>10. ASSUME NEW r \in Id, out[r].at \in {"queried", "sleep"}
         PROVE  answered'[r] \subseteq Range(evt'[0].results) \/ Len(evt'[0].results) = MaxResult
    <2>1. answered[r] \subseteq Range(res) \/ Len(res) = MaxResult
      BY <1>10 DEF SearchInv, Collecting
    <2>2. evt[0].id = r
      BY <1>10 DEF SearchInv, Collecting
    <2>3. answered'[r] = IF r = q THEN answered[r] \cup {p} ELSE answered[r]
      BY DEF QueryHit, SearchInv, SearchTypeOK
    <2>4. CASE Len(res) = MaxResult
      <3>1. ~ hit
        BY <1>7, <1>8, <2>4, SMT
      <3> HIDE DEF hit
      <3> QED BY <1>5, <2>4, <3>1
    <2>5. CASE Len(res) # MaxResult
      <3>1. Len(res) < MaxResult
        BY <1>8, <2>5, SMT DEF SearchInv, Collecting
      <3>2. hit <=> r = q /\ p \notin Range(res)
        BY <1>7, <2>2, <3>1
      <3> HIDE DEF hit, res
      <3> QED BY <1>3, <1>5, <1>6, <2>1, <2>3, <2>5, <3>2 DEF res
    <2> QED BY <2>4, <2>5
  <1>11. evt'[0].id = evt[0].id /\ evt'[0].busy = evt[0].busy
    BY <1>3, <1>5
  <1>12. /\ UNCHANGED <<in, query, input, th_out, out, bye_peer>>
         /\ out[q].at # "none" /\ hits' \subseteq hits
    <2>1. <<p, q>> \in hits /\ <<p, q>>[2] = q
      BY DEF QueryHit
    <2> QED BY <2>1 DEF QueryHit, SearchInv, HitsAsked
  <1>13. answered' \in [Id -> SUBSET Peer] /\ \A r \in Id \ {q} : answered'[r] = answered[r]
    BY DEF QueryHit, SearchInv, SearchTypeOK
  <1>14. SearchTypeOK'
    BY <1>5, <1>12, <1>13 DEF SearchInv, SearchTypeOK, Event
  <1>15. OneSearch' /\ SlotsHeld'
    BY <1>12 DEF SearchInv, OneSearch, SlotsHeld, Active, Threads
  <1>16. Collecting'
    BY <1>9, <1>10, <1>11, <1>12, <1>13 DEF SearchInv, Collecting
  <1>17. HitsAsked'
    BY <1>12, StillAsked
  <1> QED BY <1>14, <1>15, <1>16, <1>17 DEF SearchInv

LEMMA ReadingKeeps ==
  ASSUME OneSlot, SearchInv, WaitInput \/ ReadNothing \/ ReadWord
  PROVE  SearchInv'
  <1>1. UNCHANGED <<evt, th_out, out, bye_peer, hits, answered>>
    BY DEF WaitInput, ReadNothing, ReadWord, messages
  <1>2. Active' = Active /\ Threads' = Threads
    BY <1>1 DEF Active, Threads
  <1>3. Collecting' /\ HitsAsked'
    BY <1>1 DEF SearchInv, Collecting, HitsAsked
  <1>4. CASE WaitInput
    <2>1. in = "prompt" /\ input = 1 /\ input' = 0 /\ in' = "read" /\ query' = query
      BY <1>4, SMT DEF WaitInput, SearchInv, SearchTypeOK
    <2>2. SearchTypeOK'
      BY <1>1, <2>1 DEF SearchInv, SearchTypeOK
    <2>3. OneSearch' /\ SlotsHeld'
      BY <1>1, <1>2, <2>1 DEF SearchInv, OneSearch, SlotsHeld
    <2> QED BY <1>3, <2>2, <2>3 DEF SearchInv
  <1>5. CASE ReadNothing
    <2>1. in = "read" /\ input = 0 /\ input' = 1 /\ in' = "prompt" /\ query' = query
      BY <1>5, SMT DEF ReadNothing, SearchInv, SearchTypeOK, OneSearch
    <2>2. SearchTypeOK'
      BY <1>1, <2>1 DEF SearchInv, SearchTypeOK
    <2>3. OneSearch' /\ SlotsHeld'
      BY <1>1, <1>2, <2>1 DEF SearchInv, OneSearch, SlotsHeld
    <2> QED BY <1>3, <2>2, <2>3 DEF SearchInv
  <1>6. CASE ReadWord
    <2>1. /\ in = "read" /\ input' = input /\ in' = "event"
          /\ query' \in Id /\ out[query'] = NoThread
      BY <1>6 DEF ReadWord
    <2>2. SearchTypeOK'
      BY <1>1, <2>1 DEF SearchInv, SearchTypeOK
    <2>3. Active = {} /\ input # 1
      BY <2>1 DEF SearchInv, OneSearch
    <2>4. OneSearch' /\ SlotsHeld'
      BY <1>1, <1>2, <2>1, <2>3 DEF SearchInv, OneSearch, SlotsHeld
    <2> QED BY <1>3, <2>2, <2>4 DEF SearchInv
  <1> QED BY <1>4, <1>5, <1>6

LEMMA InsertKeeps ==
  ASSUME OneSlot, SearchInv, InsertEvent
  PROVE  SearchInv'
  <1>1. /\ in = "event" /\ in' = "slot" /\ query \in Id /\ out[query] = NoThread
        /\ Active = {} /\ input = 0
        /\ UNCHANGED <<query, input, th_out, bye_peer, hits, answered>>
    BY DEF InsertEvent, SearchInv, OneSearch, SearchTypeOK, messages
  <1>2. ~ evt[0].busy
    BY <1>1 DEF SearchInv, Collecting, Active
  <1>3. First({j \in Slots : ~ evt[j].busy}) = 0
    <2>1. {j \in Slots : ~ evt[j].busy} = {0}
      BY <1>2, TheSlot
    <2> QED BY <2>1, TheSlot
  <1> DEFINE new == [evt[0] EXCEPT !.id = query, !.busy = TRUE]
             thread == [at |-> "queried", index |-> 0, index_th |-> 1]
  <1>4. evt[0] \in Event
    BY DEF SearchInv, SearchTypeOK, Event
  <1>5. new \in Event /\ new.id = query /\ new.results = evt[0].results
    BY <1>1, <1>4 DEF Event
  <1>6. evt' = [i \in {0} |-> new] /\ out' = [out EXCEPT ![query] = thread]
    BY <1>3, TheSlot DEF InsertEvent
  <1> HIDE DEF new
  <1>7. /\ evt'[0] = new /\ evt' \in [{0} -> Event]
        /\ out'[query] = thread /\ \A r \in Id \ {query} : out'[r] = out[r]
        /\ out' \in [Id -> [at : Places, index : {0, 1}, index_th : {0, 1}]]
    BY <1>1, <1>5, <1>6 DEF SearchInv, SearchTypeOK, Places
  <1>8. Active' = {query} /\ Threads' = Threads
    BY <1>1, <1>7 DEF Active, Threads, NoThread
  <1>9. SearchTypeOK'
    BY <1>1, <1>7 DEF SearchInv, SearchTypeOK, Event
  <1>10. \A r \in Id \ {query} : out'[r].at # "queried"
    BY <1>1, <1>7 DEF SearchInv, OneSearch
  <1>11. OneSearch'
    BY <1>1, <1>7, <1>8, <1>10 DEF OneSearch
  <1>12. SlotsHeld'
    BY <1>1, <1>7, <1>8 DEF SearchInv, SlotsHeld, Threads
  <1>13. /\ \A r \in Id \ {query} : out[r].at \notin {"queried", "sleep", "choose", "limit", "age", "id"}
         /\ answered[query] = {}
    BY <1>1 DEF Active, SearchInv, Collecting, NoThread
  <1>14. Collecting'
    BY <1>1, <1>5, <1>7, <1>13 DEF SearchInv, Collecting
  <1>15. HitsAsked'
    BY <1>1, <1>7, StillAsked
  <1> QED BY <1>9, <1>11, <1>12, <1>14, <1>15 DEF SearchInv

LEMMA FindKeeps ==
  ASSUME OneSlot, SearchInv, FindSlot
  PROVE  SearchInv'
  <1>1. /\ in = "slot" /\ in' = "create" /\ query \in Id /\ out[query].at = "queried"
        /\ UNCHANGED <<query, evt, input, th_out, bye_peer, hits, answered>>
    BY DEF FindSlot, SearchInv, OneSearch, messages
  <1>2. query \in Active /\ query \notin Threads
    BY <1>1 DEF Active, Threads
  <1>4. out' = [out EXCEPT ![query].index_th = 0]
    <2> DEFINE free == {j \in Slots : th_out[j] = NoId}
    <2>1. free = {} \/ free = {0}
      BY TheSlot
    <2>2. PICK i \in IF free = {} THEN Slots ELSE {First(free)} :
            out' = [out EXCEPT ![query].index_th = i]
      BY DEF FindSlot
    <2> HIDE DEF free
    <2>3. i = 0
      BY <2>1, <2>2, TheSlot
    <2> QED BY <2>2, <2>3
  <1> DEFINE T == [at : Places, index : {0, 1}, index_th : {0, 1}]
             new == [out[query] EXCEPT !.index_th = 0]
  <1>5. out \in [Id -> T] /\ out[query] \in T
    BY <1>1 DEF SearchInv, SearchTypeOK
  <1>6. new \in T /\ new.at = "queried" /\ new.index = out[query].index /\ new.index_th = 0
    BY <1>1, <1>5
  <1>7. out' = [out EXCEPT ![query] = new]
    BY <1>4
  <1> HIDE DEF new, T
  <1>8. out' \in [Id -> T] /\ out'[query] = new /\ \A r \in Id \ {query} : out'[r] = out[r]
    BY <1>1, <1>5, <1>6, <1>7
  <1>9. Active' = Active /\ Threads' = Threads
    BY <1>1, <1>6, <1>8 DEF Active, Threads
  <1>10. SearchTypeOK'
    BY <1>1, <1>8 DEF SearchInv, SearchTypeOK, T
  <1>11. OneSearch'
    BY <1>1, <1>2, <1>6, <1>8, <1>9 DEF SearchInv, OneSearch
  <1>12. SlotsHeld'
    BY <1>1, <1>2, <1>6, <1>8, <1>9 DEF Active, Threads, SearchInv, SlotsHeld
  <1>13. Collecting' /\ HitsAsked'
    <2>1. \A r \in Id : out'[r].at = out[r].at
      BY <1>1, <1>6, <1>8
    <2>2. HitsAsked'
      BY <1>1, <2>1, StillAsked
    <2> QED BY <1>1, <2>1, <2>2 DEF SearchInv, Collecting
  <1> QED BY <1>10, <1>11, <1>12, <1>13 DEF SearchInv

LEMMA CreateKeeps ==
  ASSUME OneSlot, SearchInv, Create
  PROVE  SearchInv'
  <1>1. /\ in = "create" /\ in' = "prompt" /\ query \in Id /\ out[query].at = "queried"
        /\ query' = NoId /\ UNCHANGED <<evt, input, bye_peer, hits, answered>>
    BY DEF Create, SearchInv, OneSearch, messages
  <1>2. query \in Active /\ Active = {query} /\ input = 0
    BY <1>1 DEF Active, SearchInv, OneSearch
  <1>3. out[query].index_th = 0 /\ out[query].index = 0
    BY <1>1, <1>2 DEF SearchInv, SlotsHeld
  <1>4. th_out' = [j \in {0} |-> query]
    BY <1>3, TheSlot DEF Create
  <1> DEFINE T == [at : Places, index : {0, 1}, index_th : {0, 1}]
             new == [out[query] EXCEPT !.at = "sleep"]
  <1>5. out \in [Id -> T] /\ out[query] \in T
    BY <1>1 DEF SearchInv, SearchTypeOK
  <1>6. new \in T /\ new.at = "sleep" /\ new.index = 0 /\ new.index_th = 0
    BY <1>3, <1>5 DEF Places
  <1>7. out' = [out EXCEPT ![query] = new]
    BY DEF Create
  <1> HIDE DEF new, T
  <1>8. out' \in [Id -> T] /\ out'[query] = new /\ \A r \in Id \ {query} : out'[r] = out[r]
    BY <1>1, <1>5, <1>6, <1>7
  <1>9. Active' = {query} /\ Threads' = Threads \cup {query}
    BY <1>1, <1>2, <1>6, <1>8 DEF Active, Threads
  <1>10. SearchTypeOK'
    BY <1>1, <1>4, <1>8 DEF SearchInv, SearchTypeOK, T
  <1>11. \A r \in Id : out'[r].at # "queried"
    BY <1>1, <1>2, <1>6, <1>8 DEF Active
  <1>12. OneSearch'
    BY <1>1, <1>2, <1>9, <1>11 DEF SearchInv, OneSearch
  <1>13. SlotsHeld'
    <2>1. out'[query].index = 0 /\ out'[query].index_th = 0 /\ th_out'[0] = query
      BY <1>4, <1>6, <1>8
    <2>2. \A r \in Threads : out'[r].index_th = 0
      BY <1>6, <1>8 DEF Threads, SearchInv, SlotsHeld
    <2> QED BY <1>1, <1>9, <2>1, <2>2 DEF SlotsHeld
  <1>14. Collecting'
    <2>1. \A r \in Id :
            \/ out'[r].at = out[r].at
            \/ r = query /\ out[r].at = "queried" /\ out'[r].at = "sleep"
      BY <1>1, <1>6, <1>8
    <2> QED BY <1>1, <2>1 DEF SearchInv, Collecting
  <1>15. HitsAsked'
    BY <1>1, <1>6, <1>8, StillAsked
  <1> QED BY <1>10, <1>12, <1>13, <1>14, <1>15 DEF SearchInv

LEMMA SearchStep == OneSlot /\ SearchInv /\ [SearchNext]_searchVars => SearchInv'
  <1>1. SearchInv /\ UNCHANGED searchVars => SearchInv'
    BY DEF searchVars, SearchInv, SearchTypeOK, OneSearch, SlotsHeld, Collecting, HitsAsked,
           Active, Threads, messages
  <1> QED BY <1>1, OutKeeps, ChooseKeeps, CheckKeeps, HitKeeps, ByeKeeps, ReadingKeeps, InsertKeeps, FindKeeps, CreateKeeps
          DEF SearchNext, In

LEMMA SearchAlways == ASSUME OneSlot PROVE SearchSpec => []SearchInv
  BY InitSearch, SearchStep, PTL DEF SearchSpec

(* A search that sem_input lets in finds an event slot, and a thread slot  *)
(* unless a search that is closing has it, however soon the user types.    *)
THEOREM SlotsSuffice == ASSUME MaxEvt = 1 PROVE SearchSpec => []SlotFound
  <1>1. OneSlot
    BY DEF OneSlot
  <1>2. SearchInv => SlotFound
    <2> SUFFICES ASSUME SearchInv PROVE SlotFound
      OBVIOUS
    <2>1. in \in {"slot", "create"} => out[query].index = 0
      BY DEF SearchInv, OneSearch, Active, SlotsHeld
    <2>2. ASSUME in = "slot", th_out[0] # NoId PROVE th_out[0] \in Closing
      <3>1. query \in Active /\ query \notin Threads
        BY <2>2 DEF SearchInv, OneSearch, Active, Threads
      <3>2. th_out[0] \in Threads
        BY <2>2 DEF SearchInv, SlotsHeld
      <3>3. th_out[0] \notin Active
        BY <3>1, <3>2 DEF SearchInv, OneSearch
      <3> QED BY <3>2, <3>3 DEF Threads, Active, Closing
    <2>3. th_out[0] \in Range(th_out)
      BY DEF SearchInv, SearchTypeOK, Range
    <2> QED BY <1>1, <2>1, <2>2, <2>3, TheSlot DEF SlotFound
  <1> QED BY <1>1, <1>2, SearchAlways, PTL

(* Whoever's hit is taken before a search shows its results is among them, *)
(* as long as there is room, whatever the searches before it are doing and *)
(* whatever came late for them.                                            *)
THEOREM NoHitLost == ASSUME MaxEvt = 1 PROVE SearchSpec => []HitsKept
  <1>1. OneSlot
    BY DEF OneSlot
  <1>2. SearchInv => HitsKept
    <2>1. SearchInv => \A q \in Showing : q \in Active
      BY DEF Showing, Active
    <2> QED BY <2>1 DEF HitsKept, SearchInv, SlotsHeld, Collecting, Showing
  <1> QED BY <1>1, <1>2, SearchAlways, PTL
=============================================================================

------------------------------ MODULE Settings ------------------------------
(***************************************************************************)
(* The settings of a peer and the files it shares.  setting.txt has one    *)
(* setting per line: the directory for temporary files, the one for        *)
(* downloads, a heading, and the shared directories.  The menu changes it  *)
(* by writing temp_setting.txt, removing the one and renaming the other;   *)
(* the process can end between any two of these steps.  "Start" leaves the *)
(* menu for bootstrap, which lists the shared directories into             *)
(* buffer_file, from which the peer answers queries until it ends.         *)
(*                                                                         *)
(* Files are sequences of lines, written a line at a time.  In the menu    *)
(* opening, reading up to the changed line, remove and rename can fail;    *)
(* write and the reading of the lines behind it, whose results the code    *)
(* ignores, are taken not to.  In the bootstrap every reading can fail.    *)
(***************************************************************************)
EXTENDS Naturals, Sequences, FiniteSets

CONSTANTS
  Dir,       \* the words the user types: paths of directories
  Heading,   \* the third line
  NoFile,    \* the content of a file that is not there
  Existing,  \* the directories that can be listed
  Slashed,   \* the paths that end with a slash
  Name,      \* the names of files, as their hashes
  Listed,    \* Listed[d]: the names in d, those with a ~ left out
  Regular,   \* Regular[d]: those of them that are regular files
  HashLen,   \* bytes of a hash (16)
  Byte,      \* the values of a byte, 0 among them
  MaxFile,   \* _MAX_FILE
  MaxDirs    \* bound: how many directories the user shares

Hash == [1 .. HashLen -> Byte]

ASSUME SettingsAssumption ==
  /\ Heading \notin Dir /\ Existing \subseteq Dir /\ Slashed \subseteq Dir
  /\ NoFile \notin Seq(Dir \cup {Heading})
  /\ HashLen \in Nat \ {0} /\ 0 \in Byte /\ Name \subseteq Hash
  /\ Listed \in [Dir -> SUBSET Name]
  /\ Regular \in [Dir -> SUBSET Name]
  /\ \A d \in Dir : Regular[d] \subseteq Listed[d]
  /\ MaxFile \in Nat /\ MaxDirs \in Nat

VARIABLES
  setting,     \* setting.txt
  temp,        \* temp_setting.txt
  at,          \* where the process is; "off" when it does not run
  change,      \* which setting the menu is changing
  unread,      \* the lines of the open setting.txt that were not read yet
  buffer_file  \* its index, and the hashes in the elements below it

vars == <<setting, temp, at, change, unread, buffer_file>>
disk == <<setting, temp>>

NoFiles == [index |-> 0, filehash |-> {}]

(* A setting.txt that shares nothing yet.                                  *)
Init ==
  /\ \E d \in Existing : setting = <<d, d, Heading>>
  /\ temp = NoFile
  /\ at = "menu" /\ change = "none" /\ unread = <<>>
  /\ buffer_file = NoFiles

-----------------------------------------------------------------------------
(* The menu: set_dir_temp, set_dir_down, set_dir_cond *)

Menu == at' = "menu" /\ change' = "none" /\ unread' = <<>>

(* Mutant: temp_setting.txt is created first.                              *)
OpenLast(c) ==
  /\ at = "menu"
  /\ temp' = <<>>
  /\ IF setting = NoFile
     THEN UNCHANGED <<at, change, unread>>
     ELSE at' = "edit" /\ change' = c /\ unread' = setting
  /\ UNCHANGED <<setting, buffer_file>>

(* setting.txt is opened before temp_setting.txt is created, so that a     *)
(* missing setting.txt leaves the other one as it is.                      *)
Open(c) ==
  /\ at = "menu"
  /\ IF setting = NoFile
     THEN UNCHANGED vars
     ELSE /\ at' = "edit" /\ change' = c /\ unread' = setting
          /\ temp' = <<>>
          /\ UNCHANGED <<setting, buffer_file>>

(* How many lines come before the one that changes.                        *)
Kept == [temp |-> 0, down |-> 1, cond |-> 3]

CopyLine ==
  /\ temp' = Append(temp, Head(unread))
  /\ unread' = Tail(unread)

Copy ==
  /\ at = "edit" /\ Len(temp) < Kept[change]
  /\ CopyLine
  /\ UNCHANGED <<setting, at, change, buffer_file>>

(* read returns -1 *)
ReadFails ==
  /\ at = "edit" /\ Len(temp) <= Kept[change]
  /\ change = "cond" => Len(temp) < Kept[change]
  /\ Menu
  /\ UNCHANGED <<disk, buffer_file>>

(* Mutant: the old line is not skipped.                                    *)
ReplaceNoLine(d) ==
  /\ at = "edit" /\ change # "cond" /\ Len(temp) = Kept[change]
  /\ temp' = Append(temp, d)
  /\ at' = "rest"
  /\ UNCHANGED <<setting, change, unread, buffer_file>>

(* set_dir_temp and set_dir_down read the old line and write the word.     *)
ReplaceLine(d) ==
  /\ at = "edit" /\ change # "cond" /\ Len(temp) = Kept[change]
  /\ temp' = Append(temp, d)
  /\ unread' = Tail(unread)
  /\ at' = "rest"
  /\ UNCHANGED <<setting, change, buffer_file>>

CopyRest ==
  /\ at = "rest"
  /\ IF unread # <<>>
     THEN CopyLine /\ UNCHANGED at
     ELSE at' = "written" /\ UNCHANGED <<temp, unread>>
  /\ UNCHANGED <<setting, change, buffer_file>>

(* set_dir_cond takes words until "exit"; the old directories stay unread. *)
AddDir(d) ==
  /\ at = "edit" /\ change = "cond" /\ Len(temp) >= Kept[change]
  /\ Len(temp) < Kept[change] + MaxDirs
  /\ temp' = Append(temp, d)
  /\ UNCHANGED <<setting, at, change, unread, buffer_file>>

EndDirs ==
  /\ at = "edit" /\ change = "cond" /\ Len(temp) >= Kept[change]
  /\ at' = "written" /\ unread' = <<>>
  /\ UNCHANGED <<disk, change, buffer_file>>

(* remove("setting.txt") || rename(nome, "setting.txt") *)
Remove ==
  /\ at = "written"
  /\ \/ /\ setting' = NoFile /\ at' = "removed"
        /\ UNCHANGED <<change, unread>>
     \/ Menu /\ UNCHANGED setting
  /\ UNCHANGED <<temp, buffer_file>>

Rename ==
  /\ at = "removed"
  /\ Menu
  /\ \/ setting' = temp /\ temp' = NoFile
     \/ UNCHANGED disk
  /\ UNCHANGED buffer_file

SetDirTemp ==
  \/ Open("temp")
  \/ change = "temp" /\ (ReadFails \/ CopyRest \/ Remove \/ Rename)
  \/ change = "temp" /\ \E d \in Dir : ReplaceLine(d)
SetDirDown ==
  \/ Open("down")
  \/ change = "down" /\ (ReadFails \/ Copy \/ CopyRest \/ Remove \/ Rename)
  \/ change = "down" /\ \E d \in Dir : ReplaceLine(d)
SetDirCond ==
  \/ Open("cond")
  \/ change = "cond" /\ (ReadFails \/ Copy \/ EndDirs \/ Remove \/ Rename)
  \/ change = "cond" /\ \E d \in Dir : AddDir(d)

-----------------------------------------------------------------------------
(* bootstrap: file_cond, list_dir and insert_MYfile *)

Shared(file) == [i \in 1 .. Len(file) - 3 |-> file[i + 3]]

(* Mutant: the heading is taken for a directory.                           *)
FileCondHeading ==
  /\ at = "menu"
  /\ buffer_file' = NoFiles
  /\ \/ setting = NoFile /\ at' = "running" /\ unread' = <<>>
     \/ setting # NoFile /\ at' \in {"share", "cut"} /\ unread' = Tail(Tail(setting))
  /\ UNCHANGED <<disk, change>>

(* Without setting.txt file_cond returns 0 and bootstrap goes on, and so   *)
(* it does when read returns -1 in the first three lines.                  *)
FileCond ==
  /\ at = "menu"
  /\ buffer_file' = NoFiles
  /\ \/ setting = NoFile /\ at' = "running" /\ unread' = <<>>
     \/ setting # NoFile /\ at' \in {"share", "cut"} /\ unread' = Shared(setting)
  /\ UNCHANGED <<disk, change>>

(* strcpy copies a hash up to its first 0; the bytes behind it are what    *)
(* malloc left there.                                                      *)
InsertMYfile(hash) ==
  {file \in Hash :
     \A i \in 1 .. HashLen :
       (\A j \in 1 .. i - 1 : hash[j] # 0) => file[i] = hash[i]}

(* The names list_dir takes: stat is given path and name one behind the    *)
(* other, and when it fails for lack of a slash S_ISREG looks at what the  *)
(* last call left.                                                         *)
Taken(d) == IF d \in Slashed THEN {Regular[d]} ELSE SUBSET Listed[d]

(* No index is compared with the length of filehash: with more files the   *)
(* list is written beyond its end, and what the process answers for, if    *)
(* it goes on, is not followed.                                            *)
ListDir ==
  /\ at = "share" /\ unread # <<>>
  /\ IF Head(unread) \in Existing
     THEN \E names \in Taken(Head(unread)) :
            LET index == buffer_file.index + Cardinality(names)
            IN  IF index <= MaxFile
                THEN /\ \E file \in [names -> Hash] :
                          /\ \A name \in names : file[name] \in InsertMYfile(name)
                          /\ buffer_file' =
                               [index |-> index,
                                filehash |-> buffer_file.filehash
                                               \cup {file[name] : name \in names}]
                     /\ unread' = Tail(unread)
                     /\ UNCHANGED at
                ELSE at' = "overrun" /\ unread' = <<>> /\ buffer_file' = NoFiles
     ELSE at' = "running" /\ unread' = <<>> /\ UNCHANGED buffer_file
  /\ UNCHANGED <<disk, change>>

ListDone ==
  /\ at = "share" /\ unread = <<>>
  /\ at' = "running"
  /\ UNCHANGED <<disk, change, unread, buffer_file>>

(* When read returns -1 in a later line the loop ends as it does at the    *)
(* end of the file.                                                        *)
ListCut ==
  /\ at = "share"
  /\ at' = "cut"
  /\ UNCHANGED <<disk, change, unread, buffer_file>>

Bootstrap == FileCond \/ ListDir \/ ListDone \/ ListCut

SearchHashfile(hash) == hash \in buffer_file.filehash

-----------------------------------------------------------------------------
(* The process ends, by a choice in the menu or in any other way, and is   *)
(* started again: only the files remain.                                   *)
Stop ==
  /\ at # "off"
  /\ at' = "off" /\ change' = "none" /\ unread' = <<>> /\ buffer_file' = NoFiles
  /\ UNCHANGED disk

Restart ==
  /\ at = "off" /\ at' = "menu"
  /\ UNCHANGED <<disk, change, unread, buffer_file>>

Next ==
  \/ SetDirTemp \/ SetDirDown \/ SetDirCond
  \/ Bootstrap
  \/ Stop \/ Restart

Spec == Init /\ [][Next]_vars

-----------------------------------------------------------------------------
(* What the disk holds of the settings: setting.txt or, when it was        *)
(* removed, what was to take its place.                                    *)
Stored == IF setting # NoFile THEN setting ELSE temp

(* setting.txt or its copy is complete at any time, wherever the process   *)
(* ends: no change that is given up, fails or is cut off loses a setting.  *)
SettingsKept ==
  /\ Stored # NoFile /\ Len(Stored) >= 3
  /\ \A i \in 1 .. Len(Stored) :
       IF i = 3 THEN Stored[i] = Heading ELSE Stored[i] \in Dir

Store == INSTANCE SettingStore WITH
  stored <- [temp |-> Stored[1], down |-> Stored[2], shared |-> Shared(Stored)]

(* Each of the three rewritings changes the setting it is asked for, and   *)
(* no other, in one step, the removal of setting.txt.                      *)
ImplementsStore == Store!Spec

(* A hash that strcpy can copy.                                            *)
Copied(hash) == \A i \in 1 .. HashLen - 1 : hash[i] # 0

(* The directories file_cond comes to: those before the first that cannot  *)
(* be listed.                                                              *)
Reached ==
  IF setting = NoFile THEN {}
  ELSE {setting[i] : i \in
         {k \in 4 .. Len(setting) : \A j \in 4 .. k : setting[j] \in Existing}}

(* The directories it came to when a reading failed.                       *)
CameTo == {setting[i] : i \in 4 .. Len(setting) - Len(unread)}

(* The files of dirs whose paths end with a slash, and no file that is in  *)
(* none of dirs, as far as hashes without a 0 byte go.                     *)
AnswersFor(dirs) ==
  \A hash \in {h \in Name : Copied(h)} :
    /\ (\E d \in dirs \cap Slashed : hash \in Regular[d]) => SearchHashfile(hash)
    /\ SearchHashfile(hash) => \E d \in dirs : hash \in Listed[d]

(* A running peer answers for the files of the directories in its settings *)
(* up to the first that cannot be listed, or that it came to before a      *)
(* reading failed, and for no other (search_hashfile), unless they were    *)
(* more than buffer_file has room for.                                     *)
SharedExactly ==
  /\ at = "running" => AnswersFor(Reached)
  /\ at = "cut" => AnswersFor(CameTo)
=============================================================================

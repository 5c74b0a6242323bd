----------------------------- MODULE MCFilesys -----------------------------
(***************************************************************************)
(* Instances of Filesys: one file and one directory name, so the paths of  *)
(* a run are the file, the directory, the file in the directory and, in the *)
(* walk through a file, a name below the file.                             *)
(***************************************************************************)
EXTENDS Filesys
Rel(parts) == [abs |-> FALSE, parts |-> parts]
Abs(parts) == [abs |-> TRUE, parts |-> parts]
a == 101
d == 102
x == 103
TheFilePaths == {Rel(<<a>>), Rel(<<d, a>>)}
TheDirPaths == {Rel(<<d>>)}
ThroughFile == {Rel(<<a>>), Rel(<<a, x>>)}

(* One program.  It uses names until the three comments that are about names *)
(* and ends have failed, and then writes: a file that grew past its sectors  *)
(* has no part in the failure of the others.                                 *)
NamesFailed == ~(EndRefused \/ ParentLinksHold \/ HeldAreOpen)

CommentsNext ==
  \E p \in Procs :
    \/ /\ ~NamesFailed
       /\ \/ \E path \in FilePaths : SysOpen(p, path) \/ \E size \in InitialSizes : SysCreate(p, path, size)
          \/ \E path \in DirPaths : SysMkdir(p, path) \/ SysChdir(p, path)
          \/ Reboot
    \/ /\ NamesFailed
       /\ \E fd \in Fds(p) :
            \/ \E pos \in Positions : SysSeek(p, fd, pos)
            \/ \E size \in Sizes, value \in Values : SysWrite(p, fd, size, value)

CommentsSpec == Init /\ [][CommentsNext]_vars
=============================================================================

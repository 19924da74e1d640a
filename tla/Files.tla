--------------------------------- MODULE Files ---------------------------------
(***************************************************************************)
(* The files that several processes share, as the stores of Cuexis use     *)
(* them: std::ofstream with trunc, std::filesystem::rename and remove, and *)
(* fopen "wx".  A path leads to an inode or to none.  Truncating a path    *)
(* that exists truncates its inode, so two processes that open the same    *)
(* sibling write into one file, and a renamed inode is still being written *)
(* by whoever has it open.                                                 *)
(*                                                                         *)
(* A file is written in two chunks, that of a shader in three; a reader    *)
(* sees what is there.                                                     *)
(***************************************************************************)
EXTENDS Naturals, FiniteSets, Sequences, SequencesExt, FiniteSetsExt, TLC

CONSTANTS
    Process,    \* what runs
    Path        \* the paths of the files

ASSUME FilesAssumption == IsFiniteSet(Process) /\ IsFiniteSet(Path)

VARIABLES
    inodeAt,    \* the inode of each path, or 0
    data,       \* the chunks of each inode
    open,       \* the inode each process is writing, or 0
    offset      \* and the number of chunks it has written there

fileVars == <<inodeAt, data, open, offset>>

Inode == 1..(Cardinality(Path) + Cardinality(Process))

NothingOpen ==
    /\ open = [p \in Process |-> 0]
    /\ offset = [p \in Process |-> 0]

NoFiles ==
    /\ inodeAt = [path \in Path |-> 0]
    /\ data = [i \in Inode |-> <<>>]
    /\ NothingOpen

(* A file that has all of one content, and the content of such a file.     *)
WholeOf(content) == <<content, content>>
Hole == <<"hole">>

OneFile(path, content) ==
    /\ inodeAt = [f \in Path |-> IF f = path THEN 1 ELSE 0]
    /\ data = [i \in Inode |-> IF i = 1 THEN WholeOf(content) ELSE <<>>]
    /\ NothingOpen

Exists(path) == inodeAt[path] # 0
Bytes(path) == IF Exists(path) THEN data[inodeAt[path]] ELSE <<>>
Holds(path, content) == Bytes(path) = WholeOf(content)

(* An inode no path and no process uses.                                   *)
FreeInode == CHOOSE i \in Inode : /\ \A path \in Path : inodeAt[path] # i
                                  /\ \A p \in Process : open[p] # i

(* Inodes that nothing uses any more are forgotten, so that two states     *)
(* that no program can tell apart are one.                                 *)
Kept(newLinks, newOpen, newData) ==
    [i \in Inode |-> IF i \in Range(newLinks) \cup Range(newOpen)
                     THEN newData[i] ELSE <<>>]

(* std::ofstream{path, trunc} opens the inode of the path or a new one.    *)
OpenTruncated(p, path) ==
    LET i == IF Exists(path) THEN inodeAt[path] ELSE FreeInode
    IN  /\ inodeAt' = [inodeAt EXCEPT ![path] = i]
        /\ open' = [open EXCEPT ![p] = i]
        /\ offset' = [offset EXCEPT ![p] = 0]
        /\ data' = [data EXCEPT ![i] = <<>>]

(* One chunk at the process's own offset; a file another process has cut   *)
(* meanwhile gets a hole before it.                                        *)
WriteChunk(p, content) ==
    LET i == open[p]
        length == Max({Len(data[i]), offset[p] + 1})
    IN  /\ data' = [data EXCEPT ![i] = [k \in 1..length |->
              IF k = offset[p] + 1 THEN content
              ELSE IF k <= Len(data[i]) THEN data[i][k] ELSE Hole]]
        /\ offset' = [offset EXCEPT ![p] = @ + 1]
        /\ UNCHANGED <<inodeAt, open>>

AllWritten(p) == offset[p] = 2

(* The stream is closed when it goes out of scope.                         *)
Relink(p, newLinks) ==
    LET newOpen == [open EXCEPT ![p] = 0]
    IN  /\ inodeAt' = newLinks
        /\ open' = newOpen
        /\ offset' = [offset EXCEPT ![p] = 0]
        /\ data' = Kept(newLinks, newOpen, data)

CloseFile(p) == Relink(p, inodeAt)
RemoveFile(p, path) == Relink(p, [inodeAt EXCEPT ![path] = 0])
RenameFile(p, from, to) == Relink(p, [inodeAt EXCEPT ![to] = inodeAt[from], ![from] = 0])

(* A whole file in one step, at a path of the process's own or an empty    *)
(* one by exclusive creation.                                              *)
Deposit(p, path, bytes) ==
    LET i == IF Exists(path) THEN inodeAt[path] ELSE FreeInode
    IN  /\ inodeAt' = [inodeAt EXCEPT ![path] = i]
        /\ data' = [data EXCEPT ![i] = bytes]
        /\ UNCHANGED <<open, offset>>

FilesUnchanged == UNCHANGED fileVars
===============================================================================

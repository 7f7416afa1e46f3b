------------------------------ MODULE FileSystem ------------------------------
(***************************************************************************)
(* The in-memory filesystem of MOKernel (fs.c, fs.h) and the filesystem    *)
(* commands of the shell that drive it (execute_command in kernel.c).      *)
(*                                                                         *)
(* The filesystem is one table of inodes, fs_table, searched linearly, and *)
(* the index fs_cwd of the current directory.  Every command runs to its   *)
(* end inside the keyboard interrupt, so a command is one action.  A       *)
(* command that is refused (name missing, already there, table full, not   *)
(* a directory, ...) prints a message and changes no state: it is a        *)
(* stuttering step, and the guard of the action is the negation of the     *)
(* code's early returns.                                                   *)
(*                                                                         *)
(* Names and file contents are opaque values.  What the code does to them  *)
(* is kept: fs_strncpy cuts a stored name at FS_MAX_NAME_LEN characters    *)
(* (StoredName), and the shell's "write" takes at most 15 characters, up   *)
(* to the first blank, as the name (TypedName) and the rest of the line,   *)
(* what it cut off the name included, as the text to write (WriteText).    *)
(***************************************************************************)
EXTENDS Integers

CONSTANTS
    FS_MAX_ENTRIES,  \* number of inodes (32 in fs.h)
    Names,           \* the names a user types; never the empty string
    StoredName,      \* name as kept in an inode: its first 16 characters
    TypedName,       \* name as "write" passes it on: one word of 15 characters
    Data,            \* the texts a user writes
    WriteText,       \* <<name, text>> -> what "write name text" stores
    Length           \* text -> its number of characters

ASSUME EntriesAssumption == FS_MAX_ENTRIES \in Nat \ {0}

ASSUME NamesAssumption ==
    /\ "" \notin Names
    /\ StoredName \in [Names -> Names]
    /\ TypedName \in [Names -> Names]

ASSUME DataAssumption ==
    /\ "" \notin Data
    /\ WriteText \in [Names \X Data -> Data]
    /\ Length \in [Data -> Nat \ {0}]

\* Cutting a name twice is cutting it once, and "." , ".." and "/" are short.
ASSUME CutAssumption ==
    /\ \A n \in Names : StoredName[StoredName[n]] = StoredName[n]
    /\ \A n \in Names \cap {".", "..", "/"} : StoredName[n] = n /\ TypedName[n] = n
    /\ \A n \in Names, d \in Data : TypedName[n] = n => WriteText[<<n, d>>] = d

VARIABLES
    fs_table,  \* the inodes
    fs_cwd     \* index of the current directory

vars == <<fs_table, fs_cwd>>

FS_ROOT_IDX == 0
FS_NULL_IDX == -1
Idx == 0 .. FS_MAX_ENTRIES - 1

FS_TYPE_NONE == "none"
FS_TYPE_FILE == "file"
FS_TYPE_DIR  == "dir"

\* Empty is the empty string: the name of the root, the text of an unwritten file.
Empty == ""

fs_entry_t ==
    [type    : {FS_TYPE_NONE, FS_TYPE_FILE, FS_TYPE_DIR},
     parent  : Idx \cup {FS_NULL_IDX},
     name    : Names \cup {Empty},
     content : Data \cup {Empty},
     size    : Nat]

-------------------------------------------------------------------------------
(* The searches. A loop that returns the first index with some property     *)
(* returns the least element of the set of such indices.                    *)

First(S, i) == i \in S /\ \A j \in S : i <= j

Live == {i \in Idx : fs_table[i].type # FS_TYPE_NONE}

\* The inodes that fs_find_in(name, parent) would accept.
Matches(name, parent) ==
    {i \in Live : fs_table[i].parent = parent /\ fs_table[i].name = name}

\* fs_find_in(name, parent_idx) returns i.
fs_find_in(name, parent, i) == First(Matches(name, parent), i)

\* fs_alloc() returns i.
fs_alloc(i) == First(Idx \ Live, i)

\* Does dir_idx have no children?
fs_dir_empty(dir) == \A i \in Live : fs_table[i].parent # dir

\* fs_resolve_dir(name) returns i.
fs_resolve_dir(name, i) ==
    CASE name = "."  -> i = fs_cwd
      [] name = ".." -> i = IF fs_table[fs_cwd].parent = FS_NULL_IDX
                              THEN FS_ROOT_IDX ELSE fs_table[fs_cwd].parent
      [] OTHER       -> fs_find_in(name, fs_cwd, i)

\* The walk of fs_print_path from idx towards the root: where it stands after
\* FS_MAX_ENTRIES - 1 steps, the number of indices that fit its stack beside
\* the one it is about to push.
fs_print_path(idx) ==
    LET walk[k \in 0 .. FS_MAX_ENTRIES - 1] ==
          IF k = 0 THEN idx
          ELSE IF walk[k-1] \in {FS_ROOT_IDX, FS_NULL_IDX} THEN walk[k-1]
          ELSE fs_table[walk[k-1]].parent
    IN  walk[FS_MAX_ENTRIES - 1]

\* A new inode of the given type in the current directory. The content of the
\* slot's previous owner is not cleared.
NewEntry(slot, type, name) ==
    /\ fs_table' = [fs_table EXCEPT ![slot] =
                      [@ EXCEPT !.type = type, !.parent = fs_cwd,
                                !.size = 0, !.name = StoredName[name]]]
    /\ UNCHANGED fs_cwd

\* Freeing an inode only resets its type; every other field stays behind.
Release(i) ==
    /\ fs_table' = [fs_table EXCEPT ![i].type = FS_TYPE_NONE]
    /\ UNCHANGED fs_cwd

-------------------------------------------------------------------------------
(* Mutated operations: what each would be with one plausible slip in it.    *)
(* No specification below uses them; each shows that a property can fail.   *)

\* ".." without the test for the root.
fs_cd_NoRootTest(name) ==
    /\ \/ name = "/" /\ fs_cwd' = FS_ROOT_IDX
       \/ name = ".." /\ fs_cwd' = fs_table[fs_cwd].parent
       \/ /\ name \notin {"/", ".."}
          /\ \E target \in Idx :
               /\ fs_resolve_dir(name, target)
               /\ fs_table[target].type = FS_TYPE_DIR
               /\ fs_cwd' = target
    /\ UNCHANGED fs_table

\* rmdir without the emptiness test.
fs_rmdir_NotEmpty(name) ==
    \E i \in Idx :
      /\ fs_find_in(name, fs_cwd, i)
      /\ fs_table[i].type = FS_TYPE_DIR
      /\ Release(i)

\* rmdir that resolves "." and "..".
fs_rmdir_Resolve(name) ==
    \E i \in Idx \ {FS_ROOT_IDX} :
      /\ fs_resolve_dir(name, i)
      /\ fs_table[i].type = FS_TYPE_DIR
      /\ fs_dir_empty(i)
      /\ Release(i)

\* touch without the duplicate check.
fs_create_file_NoCheck(name) ==
    \E slot \in Idx : fs_alloc(slot) /\ NewEntry(slot, FS_TYPE_FILE, name)

\* mkdir that takes over the current directory's own slot when the table is full.
fs_mkdir_Reuse(name) ==
    /\ name \notin {".", ".."}
    /\ Matches(name, fs_cwd) = {}
    /\ \E slot \in Idx \ {FS_ROOT_IDX} :
         /\ fs_alloc(slot) \/ (Live = Idx /\ slot = fs_cwd)
         /\ NewEntry(slot, FS_TYPE_DIR, name)

\* rm that searches every directory.
fs_rm_AnyDir(name) ==
    \E i \in Live :
      /\ fs_table[i].name = name
      /\ fs_table[i].type = FS_TYPE_FILE
      /\ Release(i)

-------------------------------------------------------------------------------
(* The operations. *)

\* The table fs_init leaves: every slot blank, the root directory in slot 0.
fs_init ==
    /\ fs_table = [i \in Idx |->
                    [type    |-> IF i = FS_ROOT_IDX THEN FS_TYPE_DIR ELSE FS_TYPE_NONE,
                     parent  |-> FS_NULL_IDX,
                     name    |-> Empty,
                     content |-> Empty,
                     size    |-> 0]]
    /\ fs_cwd = FS_ROOT_IDX

fs_mkdir(name) ==
    /\ name \notin {".", ".."}
    /\ Matches(name, fs_cwd) = {}
    /\ \E slot \in Idx : fs_alloc(slot) /\ NewEntry(slot, FS_TYPE_DIR, name)

fs_create_file(name) ==
    /\ Matches(name, fs_cwd) = {}
    /\ \E slot \in Idx : fs_alloc(slot) /\ NewEntry(slot, FS_TYPE_FILE, name)

fs_cd(name) ==
    /\ \/ name = "/" /\ fs_cwd' = FS_ROOT_IDX
       \/ /\ name = ".." /\ fs_table[fs_cwd].parent = FS_NULL_IDX
          /\ fs_cwd' = FS_ROOT_IDX
       \/ /\ name # "/"
          /\ \E target \in Idx :
               /\ fs_resolve_dir(name, target)
               /\ fs_table[target].type = FS_TYPE_DIR
               /\ fs_cwd' = target
    /\ UNCHANGED fs_table

fs_write_file(name, data) ==
    /\ \E i \in Idx :
         /\ fs_find_in(name, fs_cwd, i)
         /\ fs_table[i].type = FS_TYPE_FILE
         /\ fs_table' = [fs_table EXCEPT ![i] =
                           [@ EXCEPT !.content = data, !.size = Length[data]]]
    /\ UNCHANGED fs_cwd

fs_rm(name) ==
    \E i \in Idx :
      /\ fs_find_in(name, fs_cwd, i)
      /\ fs_table[i].type = FS_TYPE_FILE
      /\ Release(i)

fs_rmdir(name) ==
    /\ name \notin {".", ".."}
    /\ \E i \in Idx :
         /\ fs_find_in(name, fs_cwd, i)
         /\ fs_table[i].type = FS_TYPE_DIR
         /\ fs_dir_empty(i)
         /\ Release(i)

-------------------------------------------------------------------------------
(* The commands of the shell. pwd, ls and cat only print. *)

cmd_mkdir == \E n \in Names : fs_mkdir(n)
cmd_cd    == \E n \in Names \cup {"/"} : fs_cd(n)   \* a bare "cd" is "cd /"
cmd_touch == \E n \in Names : fs_create_file(n)
cmd_rm    == \E n \in Names : fs_rm(n)
cmd_rmdir == \E n \in Names : fs_rmdir(n)
cmd_write == \E n \in Names, d \in Data :
                fs_write_file(TypedName[n], WriteText[<<n, d>>])

Init == fs_init

Next == cmd_mkdir \/ cmd_cd \/ cmd_touch \/ cmd_rm \/ cmd_rmdir \/ cmd_write

Spec == Init /\ [][Next]_vars

-------------------------------------------------------------------------------
(* Properties. *)

\* Inodes and the current directory hold values of their C types.
TypeOK ==
    /\ fs_table \in [Idx -> fs_entry_t]
    /\ fs_cwd \in Idx

\* No command leaves an orphan: slot 0 stays the root directory, and every other
\* inode in use hangs in a directory in use, although slots are freed and reused
\* and freeing one resets nothing but its type (fs_rm, fs_rmdir).
NoOrphan ==
    /\ fs_table[FS_ROOT_IDX].type = FS_TYPE_DIR
    /\ fs_table[FS_ROOT_IDX].parent = FS_NULL_IDX
    /\ \A i \in Live \ {FS_ROOT_IDX} :
         /\ fs_table[i].parent \in Live
         /\ fs_table[fs_table[i].parent].type = FS_TYPE_DIR

\* The current directory is never removed under the user: fs_cwd always indexes a
\* directory in use, whatever fs_rmdir and fs_cd did before.
CwdLive == fs_table[fs_cwd].type = FS_TYPE_DIR

\* The parent links of inodes in use never form a cycle: no set of inodes other
\* than the root is closed under "parent of".
Acyclic ==
    \A S \in SUBSET (Live \ {FS_ROOT_IDX}) :
       S # {} => \E i \in S : fs_table[i].parent \notin S

\* pwd terminates within its stack: from every inode in use the walk of
\* fs_print_path is at the root after at most FS_MAX_ENTRIES - 1 steps, so
\* stack[FS_MAX_ENTRIES] is never overrun.
PathsReachRoot == \A i \in Live : fs_print_path(i) = FS_ROOT_IDX

\* A directory never holds two entries of one name, as the duplicate check of
\* fs_mkdir and fs_create_file intends.
UniqueNames ==
    \A i, j \in Live :
       /\ fs_table[i].parent = fs_table[j].parent
       /\ fs_table[i].name = fs_table[j].name
       => i = j

\* A command changes at most one inode, one of the current directory; and
\* an inode that stays in use keeps its type, name and place: no search or
\* allocation ever hits an inode of another directory.
LocalStep ==
    [][\A i \in Idx : fs_table'[i] # fs_table[i] =>
          /\ fs_table'[i].parent = fs_cwd
          /\ \A j \in Idx \ {i} : fs_table'[j] = fs_table[j]
          /\ (i \in Live /\ i \in Live') =>
                /\ fs_table'[i].type = fs_table[i].type
                /\ fs_table'[i].name = fs_table[i].name
                /\ fs_table'[i].parent = fs_table[i].parent]_vars

\* "touch - Create empty file": an inode that becomes a file has no text.
TouchCreatesEmpty ==
    [][\A i \in Idx :
          /\ fs_table[i].type = FS_TYPE_NONE
          /\ fs_table'[i].type = FS_TYPE_FILE
          => fs_table'[i].content = Empty]_vars
===============================================================================

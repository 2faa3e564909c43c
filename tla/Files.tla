-------------------------------- MODULE Files --------------------------------
(***************************************************************************)
(* The file system (fs.c) and the system calls on descriptors (sys_file.c).*)
(* A file is a slot of the array filesystem with one page of data.  The    *)
(* position is kept in the file, not in the descriptor, so every program   *)
(* that has the file open moves the same one.  Nothing closes a file for   *)
(* good: a slot that was taken stays taken.                                *)
(*                                                                         *)
(* A page of data is a row of cells.  A cell holds a byte, or one entry of *)
(* the root listing (a name and its newline).  System calls of different   *)
(* programs interleave; each runs with interrupts disabled.                *)
(***************************************************************************)
EXTENDS Archive

CONSTANTS
  Procs,           \* programs
  MAX_FILES,       \* slots of filesystem (32)
  MAX_OPEN_FILES,  \* slots of open_files (8)
  PGSIZE,          \* cells of a page (0x1000)
  INT_SIZE,        \* sizeof(MAX_FILE_SIZE), the size of an int (4)
  WORD,            \* the values of uint32_t (2^32)
  Names,           \* file names of at most MAX_NAME characters
  LONG,            \* a path that is longer than that
  Archives,        \* the archives that may be linked into the kernel
  Counts,          \* bound: the counts that programs pass to read and write
  MAX_POS          \* bound: reads from a position beyond it are not explored

ASSUME FilesAssumption ==
  /\ {MAX_FILES, MAX_OPEN_FILES, PGSIZE, INT_SIZE, WORD, MAX_POS} \subseteq Nat
  /\ 0 < MAX_FILES /\ MAX_FILES <= PGSIZE /\ INT_SIZE <= PGSIZE /\ PGSIZE < WORD /\ MAX_POS < WORD
  /\ \A a \in Archives :
       /\ a \in Seq([name : Names \cup {"/"}, size : 0 .. WORD - 1])
       /\ \A i, j \in 1 .. Len(a) : a[i].name = a[j].name => i = j
  /\ Counts \subseteq 1 .. PGSIZE
  /\ Names \cap {"", "/", "console", LONG} = {}

Slots == 1 .. MAX_FILES

NULL == 0

console_file == -1

Fds == 0 .. MAX_OPEN_FILES - 1

Offsets == 0 .. PGSIZE - 1

(* What a cell can hold: zero, what kmalloc's previous owner left, a byte   *)
(* of a file of the archive, a byte that a program wrote, an entry of the   *)
(* listing.                                                                 *)
Contents == {"zero", "junk", "text", "data"} \cup Names \cup {"/"}

VARIABLES
  archive,      \* the archive from fsar_start to fsar_end
  arp,          \* init_fs: where the next header is
  file_cnt,     \* init_fs: how many members were unpacked
  name, in_use, type, size, pos, data,  \* the fields of filesystem[s]
  open_files,   \* open_files[p][fd] of every program
  rewritten,    \* history: the files that were opened for writing
  written,      \* history: the files written to since they were last opened
  panicked

boot == <<archive, arp, file_cnt>>

fs == <<name, in_use, type, size, data>>

vars == <<boot, fs, pos, open_files, rewritten, written, panicked>>

(* init_fs starts with an empty table. *)
Init ==
  /\ archive \in Archives
  /\ arp = MAGIC
  /\ file_cnt = 0
  /\ name = [s \in Slots |-> ""]
  /\ in_use = [s \in Slots |-> 0]
  /\ type = [s \in Slots |-> "FT_REGULAR"]
  /\ size = [s \in Slots |-> 0]
  /\ pos = [s \in Slots |-> 0]
  /\ data = [s \in Slots |-> [i \in Offsets |-> "zero"]]
  /\ open_files = [p \in Procs |-> [fd \in Fds |-> NULL]]
  /\ rewritten = {} /\ written = {}
  /\ panicked = 0

(* The last slot is never filled from the archive: it would panic. *)
TooMany(cnt) == cnt >= MAX_FILES

(* The loop of init_fs reads the header at arp and copies the file into a   *)
(* page of zeros.  (That there is a header is part of ArchiveUnpacked.)     *)
init_fs ==
  /\ arp < fsar_end(archive)
  /\ \E i \in 1 .. Len(archive) :
       /\ Start(archive, i) = arp
       /\ LET s == file_cnt + 1
              n == ParsedSize(archive[i])
          IN /\ name' = [name EXCEPT ![s] = ParsedName(archive[i])]
             /\ size' = [size EXCEPT ![s] = n]
             /\ \/ /\ n > PGSIZE
                   /\ panicked' = 1
                   /\ UNCHANGED <<data, in_use, file_cnt, arp>>
                \/ /\ n <= PGSIZE
                   /\ data' = [data EXCEPT ![s] =
                                [k \in Offsets |-> IF k < n THEN "text" ELSE "zero"]]
                   /\ in_use' = [in_use EXCEPT ![s] = 1]
                   /\ file_cnt' = file_cnt + 1
                   /\ \/ TooMany(file_cnt') /\ panicked' = 1 /\ UNCHANGED arp
                      \/ ~TooMany(file_cnt') /\ arp' = NextHeader(arp, n) /\ UNCHANGED panicked
  /\ UNCHANGED <<archive, type, pos, open_files, rewritten, written>>

-----------------------------------------------------------------------------
(* The first of a set of slots, NULL if there is none. *)
First(S) == IF S = {} THEN NULL ELSE Min(S)

(* Mutant: the search starts at the second slot. *)
get_file_from_second(path) ==
  IF path = "" THEN NULL ELSE First({s \in Slots \ {1} : name[s] = path})

(* The slot with this name; the empty path is no name. *)
get_file(path) ==
  IF path = "" THEN NULL ELSE First({s \in Slots : name[s] = path})

(* Mutant: the length of the name is not checked. *)
alloc_file_any(s, path) ==
  /\ s = First({t \in Slots : in_use[t] = 0})
  /\ s # NULL

(* alloc_file takes the first free slot, unless the name does not fit. *)
alloc_file(s, path) ==
  /\ s = First({t \in Slots : in_use[t] = 0})
  /\ s # NULL
  /\ path # LONG

(* The fields alloc_file sets.  The page is not cleared.                    *)
NewFile(s, path, contents, n, ft) ==
  /\ name' = [name EXCEPT ![s] = path]
  /\ in_use' = [in_use EXCEPT ![s] = 1]
  /\ type' = [type EXCEPT ![s] = ft]
  /\ size' = [size EXCEPT ![s] = n]
  /\ data' = [data EXCEPT ![s] = contents]

(* Mutant: the listing is made before the new file is marked as directory,  *)
(* whose slot still says FT_REGULAR.                                        *)
Listed_with_itself(root) ==
  {s \in Slots : s = root \/ (in_use[s] = 1 /\ type[s] = "FT_REGULAR" /\ name[s] # "")}

(* Mutant: the first slot is not looked at. *)
Listed_from_second(root) ==
  {s \in Slots \ {root, 1} : in_use[s] = 1 /\ type[s] = "FT_REGULAR" /\ name[s] # ""}

(* The files that list_rootdir lists. *)
Listed(root) ==
  {s \in Slots \ {root} : in_use[s] = 1 /\ type[s] = "FT_REGULAR" /\ name[s] # ""}

(* What list_rootdir writes: the i-th file of Listed, in order of slots.    *)
list_rootdir(root) ==
  [i \in Offsets |->
     IF i < Cardinality(Listed(root))
     THEN LET s == CHOOSE s \in Listed(root) :
                     Cardinality({t \in Listed(root) : t < s}) = i
          IN  IF s = root THEN "/" ELSE name[s]
     ELSE "junk"]

(* The end of every successful open: the file goes into the first empty     *)
(* descriptor.  With none left the store goes to the field behind the array *)
(* (see Proc) and the rest happens all the same.                            *)
install(p, s) ==
  LET fd == {f \in Fds : open_files[p][f] = NULL} IN
  /\ open_files' = IF fd = {} THEN open_files
                   ELSE [open_files EXCEPT ![p][Min(fd)] = s]
  /\ pos' = IF s = console_file THEN pos ELSE [pos EXCEPT ![s] = 0]
  /\ written' = written \ {s}

-----------------------------------------------------------------------------
open_console(p) ==
  /\ install(p, console_file)
  /\ UNCHANGED <<fs, rewritten, panicked>>

(* The first open of the root directory makes its listing. *)
open_root(p) ==
  /\ get_file("/") = NULL
  /\ \E s \in Slots :
       /\ alloc_file(s, "/")
       /\ NewFile(s, "/", list_rootdir(s), Cardinality(Listed(s)), "FT_DIR")
       /\ install(p, s)
  /\ UNCHANGED <<rewritten, panicked>>

open_read(p, path) ==
  /\ get_file(path) # NULL
  /\ install(p, get_file(path))
  /\ UNCHANGED <<fs, rewritten, panicked>>

(* memset clears the first sizeof(MAX_FILE_SIZE) bytes of the old data. *)
Cleared(d) == [i \in Offsets |-> IF i < INT_SIZE THEN "zero" ELSE d[i]]

(* An open for writing of a file that exists clears it, directory or not;   *)
(* size stays.                                                              *)
open_write(p, path) ==
  /\ get_file(path) # NULL
  /\ LET s == get_file(path) IN
       /\ data' = [data EXCEPT ![s] = Cleared(@)]
       /\ type' = [type EXCEPT ![s] = "FT_REGULAR"]
       /\ rewritten' = rewritten \cup {s}
       /\ install(p, s)
  /\ UNCHANGED <<name, in_use, size, panicked>>

(* An open for writing of any other path creates the file.  The empty path  *)
(* is never found and takes a new slot every time.                          *)
open_create(p, path) ==
  /\ get_file(path) = NULL
  /\ \E s \in Slots :
       /\ alloc_file(s, path)
       /\ NewFile(s, path, [i \in Offsets |-> "junk"], 0, "FT_REGULAR")
       /\ rewritten' = rewritten \cup {s}
       /\ install(p, s)
  /\ UNCHANGED panicked

(* Every path of sys_open that returns a descriptor.  The others (no such   *)
(* file, no free slot, bad flags) change nothing.                           *)
sys_open(p) ==
  \/ open_console(p)
  \/ open_root(p)
  \/ \E path \in Names \cup {"/"} : open_read(p, path)
  \/ \E path \in Names \cup {"/"} : open_write(p, path)
  \/ \E path \in Names \cup {"", LONG} : open_create(p, path)

(* Mutant: reads whatever was asked for. *)
Readable_all(s, count) == count

(* How many bytes read_file returns; size - pos is unsigned. *)
Readable(s, count) ==
  LET left == (size[s] - pos[s]) % WORD IN IF left < count THEN left ELSE count

(* read of a file advances its position.  (The bytes always come from the   *)
(* start of the data.)                                                      *)
sys_read(p) ==
  /\ \E fd \in Fds, count \in Counts :
       LET s == open_files[p][fd] IN
       /\ s \in Slots
       /\ pos[s] <= MAX_POS
       /\ pos' = [pos EXCEPT ![s] = (@ + Readable(s, count)) % WORD]
  /\ UNCHANGED <<fs, open_files, rewritten, written, panicked>>

(* write_file: size stays, and a write past the page panics. *)
write_file(s, count) ==
  \/ /\ (pos[s] + count) % WORD > PGSIZE
     /\ panicked' = 1
     /\ UNCHANGED <<data, pos, written>>
  \/ /\ (pos[s] + count) % WORD <= PGSIZE
     /\ data' = [data EXCEPT ![s] = [i \in Offsets |->
                   IF (i - pos[s]) % WORD < count THEN "data" ELSE @[i]]]
     /\ pos' = [pos EXCEPT ![s] = (@ + count) % WORD]
     /\ written' = written \cup {s}
     /\ UNCHANGED panicked

(* write to a regular file, whatever the flags it was opened with.  A       *)
(* directory is not written.                                                *)
sys_write(p) ==
  /\ \E fd \in Fds, count \in Counts :
       LET s == open_files[p][fd] IN
       /\ s \in Slots
       /\ type[s] = "FT_REGULAR"
       /\ write_file(s, count)
  /\ UNCHANGED <<name, in_use, type, size, open_files, rewritten>>

(* close of a file in use empties the descriptor; the console's close fails. *)
sys_close(p) ==
  /\ \E fd \in Fds :
       /\ open_files[p][fd] \in Slots
       /\ in_use[open_files[p][fd]] = 1
       /\ open_files' = [open_files EXCEPT ![p][fd] = NULL]
  /\ UNCHANGED <<fs, pos, rewritten, written, panicked>>

(* A child starts with copies of its parent's descriptors. *)
fork_files(p) ==
  /\ \E c \in Procs \ {p} : open_files' = [open_files EXCEPT ![c] = open_files[p]]
  /\ UNCHANGED <<fs, pos, rewritten, written, panicked>>

(* execv, and the reaping of a task, forget all descriptors. *)
forget_files(p) ==
  /\ open_files' = [open_files EXCEPT ![p] = [fd \in Fds |-> NULL]]
  /\ UNCHANGED <<fs, pos, rewritten, written, panicked>>

stopped == panicked = 1 /\ UNCHANGED vars

Next ==
  \/ /\ panicked = 0
     /\ init_fs
  \/ /\ panicked = 0 /\ arp >= fsar_end(archive)
     /\ UNCHANGED boot
     /\ \E p \in Procs :
          \/ sys_open(p) \/ sys_read(p) \/ sys_write(p) \/ sys_close(p)
          \/ fork_files(p) \/ forget_files(p)
  \/ stopped

Spec == Init /\ [][Next]_vars
-----------------------------------------------------------------------------
(* The variables have their types. *)
TypeOK ==
  /\ archive \in Archives /\ arp \in Nat /\ file_cnt \in 0 .. MAX_FILES
  /\ name \in [Slots -> Names \cup {"", "/"}]
  /\ in_use \in [Slots -> {0, 1}]
  /\ type \in [Slots -> {"FT_REGULAR", "FT_DIR"}]
  /\ size \in [Slots -> 0 .. WORD - 1] /\ pos \in [Slots -> 0 .. WORD - 1]
  /\ data \in [Slots -> [Offsets -> Contents]]
  /\ open_files \in [Procs -> [Fds -> Slots \cup {NULL, console_file}]]
  /\ rewritten \subseteq Slots /\ written \subseteq Slots
  /\ panicked \in {0, 1}

(* init_fs finds every header, whatever the sizes of the files before it,   *)
(* and what it found stays: once it has reached the end, the first slots    *)
(* have the names and sizes of the archive, for as long as the system runs. *)
ArchiveUnpacked ==
  /\ panicked = 0 => arp = Start(archive, file_cnt + 1)
  /\ \A i \in 1 .. file_cnt : in_use[i] = 1 /\ size[i] = archive[i].size
                             /\ name[i] = ParsedName(archive[i])
  /\ arp >= fsar_end(archive) => file_cnt = Len(archive)

(* A path means one file: however opens for reading, writing and listing    *)
(* interleave, get_file and alloc_file never leave two slots with the same  *)
(* name (the empty one apart), and a slot with a name is in use.            *)
UniqueNames ==
  \A s \in Slots : panicked = 0 /\ name[s] # "" =>
    /\ in_use[s] = 1
    /\ \A t \in Slots : name[t] = name[s] => t = s

(* The listing of the root directory is made when it is first opened and    *)
(* never again.  However files are created and rewritten afterwards, its    *)
(* entries are different regular files that still exist, never itself, and  *)
(* what is missing from it was created later: slots are taken in order and  *)
(* never given back, so every named file in a slot before it is listed.     *)
ListingAccurate ==
  \A r \in Slots : type[r] = "FT_DIR" =>
    LET entries == 0 .. size[r] - 1 IN
    /\ \A i \in entries :
         /\ \E s \in Slots : name[s] = data[r][i] /\ in_use[s] = 1 /\ type[s] = "FT_REGULAR"
         /\ \A j \in entries : data[r][j] = data[r][i] => j = i
    /\ \A s \in Slots : s < r /\ name[s] # "" => \E i \in entries : data[r][i] = name[s]

(* However programs share a position, reads alone never take it past the    *)
(* end of the file: size - pos in read_file does not wrap, unless a write   *)
(* since the last open moved the position, which leaves size as it was.     *)
ReadsEndAtSize == \A s \in Slots \ written : pos[s] <= size[s]

(* What the comment in sys_open says: an open for writing deletes the data  *)
(* the file had.                                                            *)
OldDataDeleted == \A s \in rewritten, i \in Offsets : data[s][i] # "text"
=============================================================================

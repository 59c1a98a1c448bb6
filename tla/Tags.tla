-------------------------------- MODULE Tags --------------------------------
(***************************************************************************)
(* File tags (kernel/fs.c and the calls of kernel/sysfile.c): a block of   *)
(* NTAG entries of a key and a value, found through the field tags of the  *)
(* in-core inode.  The field is set when a block is allocated and never    *)
(* read from or written to the disk, nor cleared when iget gives the cache *)
(* slot to another file: tags belong to the slot, and the model says so.   *)
(*                                                                         *)
(* A tag call holds the inode's lock from its first look at the block to   *)
(* its last, so it is one step.  getFilesByTag takes no lock and goes      *)
(* through the root directory an entry at a time; it keeps every reference *)
(* that iget gives it.  The slot of the root itself, which every process   *)
(* holds as its current directory, is left out, and with it the entries    *)
(* "." and "..".                                                           *)
(*                                                                         *)
(* Keys are opaque: the byte loops compare them up to their NUL.  A value  *)
(* has no NUL in it and is known by its length.                            *)
(***************************************************************************)
EXTENDS Integers, Sequences, FiniteSets, FiniteSetsExt

CONSTANTS
  Key, Value,     \* keys of 1 to 9 bytes; values, as their lengths
  NTAG,           \* entries of a block: BSIZE / 32
  MAXVALUE,       \* room for a value in an entry: 18
  Lengths,        \* buffer lengths a caller gives getFileTag
  File, Dir,      \* the files; the sequence of those in the root directory
  NSLOT,          \* slots of the inode cache besides the root's
  Proc, Opener, Searcher,  \* processes; those that open files, and that search
  Sought, Rooms,  \* values searched for; how many names a buffer may hold
  NBLOCK,         \* free disk blocks
  MAXFIND         \* bound on the number of searches

VARIABLES
  slot,           \* the cache slots: the file and its references
  tags,           \* the tag block of each slot, or NoBlock
  fd,             \* the slot of the file each process has open, or NoFile
  find,           \* getFilesByTag under way in each process
  found,          \* names in the buffer of a search under way
  nfree,          \* blocks left
  finds,          \* searches so far
  halted          \* the kernel has panicked

tagvars == <<slot, tags, fd, find, found, nfree, finds, halted>>

Slots == 1..NSLOT
NoFile == 0
NoFind == [at |-> 0]
NoKey == "nokey"
EmptyEntry == [key |-> NoKey, value |-> 0]
EmptyBlock == [i \in 1..NTAG |-> EmptyEntry]
NoBlock == <<>>
FreeSlot == [file |-> NoKey, ref |-> 0]

TagInit == /\ slot = [s \in Slots |-> FreeSlot]
           /\ tags = [s \in Slots |-> NoBlock]
           /\ fd = [p \in Proc |-> NoFile]
           /\ find = [p \in Proc |-> NoFind]
           /\ found = {} /\ nfree = NBLOCK
           /\ finds = 0 /\ halted = FALSE

(***************************************************************************)
(* The block.  searchKey and searchEnd give the set of their answer, empty *)
(* for -1.                                                                 *)
(***************************************************************************)
Lowest(S) == {i \in S : \A j \in S : i <= j}

\* Mutant: the search stops at the first empty entry.
searchKey_Stops(key, blk) ==
    Lowest({i \in DOMAIN blk : blk[i].key = key /\ \A j \in 1..i : blk[j].key # NoKey})

searchKey(key, blk) == Lowest({i \in DOMAIN blk : blk[i].key = key})

searchEnd(blk) == Lowest({i \in DOMAIN blk : blk[i].key = NoKey})

\* The loop of getFileTag, which runs to the end of the value and at least
\* to the end of the buffer.
TagLength(value, length) ==
    CHOOSE i \in 0..MAXVALUE :
        /\ ~(i < MAXVALUE /\ (i < length \/ i < value))
        /\ \A j \in 0..(i - 1) : j < length \/ j < value

getFileTag(blk, key, length) ==
    IF searchKey(key, blk) = {} THEN [ret |-> -1]
    ELSE LET value == blk[Min(searchKey(key, blk))].value
             i == TagLength(value, length)
         IN  IF i > length THEN [ret |-> i] ELSE [ret |-> i, copied |-> value]

Keys(blk) == {blk[i].key : i \in DOMAIN blk} \ {NoKey}

(***************************************************************************)
(* open and close: iget and iput of the file.  iget takes the file's slot, *)
(* or the first free one, or panics.                                       *)
(***************************************************************************)
SlotOf(f) == LET cached == {s \in Slots : slot[s].ref > 0 /\ slot[s].file = f}
             IN  IF cached # {} THEN cached ELSE Lowest({s \in Slots : slot[s].ref = 0})

iget(s, f) == slot' = [slot EXCEPT ![s] = [file |-> f, ref |-> @.ref + 1]]

Up(p) == ~halted /\ find[p] = NoFind

Opened(p) == Up(p) /\ fd[p] # NoFile

Panic == halted' = TRUE /\ UNCHANGED <<slot, tags, fd, find, found, nfree, finds>>

open(p) == /\ Up(p) /\ p \in Opener /\ fd[p] = NoFile
           /\ \E f \in File :
                 IF SlotOf(f) = {} THEN Panic
                 ELSE \E s \in SlotOf(f) :
                        /\ iget(s, f) /\ fd' = [fd EXCEPT ![p] = s]
                        /\ UNCHANGED <<tags, find, found, nfree, finds, halted>>

close(p) == /\ Opened(p)
            /\ slot' = [slot EXCEPT ![fd[p]].ref = @ - 1]
            /\ fd' = [fd EXCEPT ![p] = NoFile]
            /\ UNCHANGED <<tags, find, found, nfree, finds, halted>>

(***************************************************************************)
(* The tag calls on a file open for reading and writing.  On anything else *)
(* those that need the other mode return -1 before they change anything.   *)
(***************************************************************************)
\* The block of the open file, allocated by balloc if there is none ...
BlockOf(p) == IF tags[fd[p]] = NoBlock THEN EmptyBlock ELSE tags[fd[p]]

\* ... and its new contents.  Out of blocks is a panic.
SetBlock(p, blk) ==
    IF tags[fd[p]] = NoBlock /\ nfree = 0 THEN Panic
    ELSE /\ tags' = [tags EXCEPT ![fd[p]] = blk]
         /\ nfree' = IF tags[fd[p]] = NoBlock THEN nfree - 1 ELSE nfree
         /\ UNCHANGED <<slot, fd, find, found, finds, halted>>

\* The key's own entry, or the first empty one; with neither, -1.
tagFile(p) ==
    LET blk == BlockOf(p) IN
    /\ Opened(p)
    /\ \E key \in Key, value \in Value :
          LET at == IF searchKey(key, blk) # {} THEN searchKey(key, blk) ELSE searchEnd(blk)
          IN  SetBlock(p, [i \in 1..NTAG |-> IF i \in at THEN [key |-> key, value |-> value]
                                             ELSE blk[i]])

removeFileTag(p) ==
    /\ Opened(p) /\ tags[fd[p]] # NoBlock
    /\ \E key \in Key, i \in 1..NTAG :
          /\ i \in searchKey(key, tags[fd[p]])
          /\ tags' = [tags EXCEPT ![fd[p]][i] = EmptyEntry]
    /\ UNCHANGED <<slot, fd, find, found, nfree, finds, halted>>

\* getAllTags allocates the block of a file that has none.
getAllTags(p) == Opened(p) /\ SetBlock(p, BlockOf(p))

(***************************************************************************)
(* getFilesByTag.                                                          *)
(***************************************************************************)
getFilesByTag(p) ==
    /\ Up(p) /\ p \in Searcher /\ finds < MAXFIND
    /\ \E key \in Key, value \in Sought, room \in Rooms :
          find' = [find EXCEPT ![p] = [at |-> 1, key |-> key, value |-> value, room |-> room]]
    /\ found' = {} /\ finds' = finds + 1
    /\ UNCHANGED <<slot, tags, fd, nfree, halted>>

Matches(blk, key, value) ==
    \E i \in searchKey(key, blk) : blk[i].value = value

\* One entry of the directory: the reference iget takes is kept, a match is
\* written to the buffer, and without room for it the call returns -1.
findEntry(p) ==
    /\ ~halted /\ find[p].at \in DOMAIN Dir
    /\ LET f == Dir[find[p].at]
           next == [find EXCEPT ![p].at = @ + 1]
       IN  IF SlotOf(f) = {} THEN Panic
           ELSE \E s \in SlotOf(f) :
                 /\ iget(s, f)
                 /\ IF ~Matches(tags[s], find[p].key, find[p].value)
                    THEN find' = next /\ UNCHANGED found
                    ELSE IF find[p].room = 0
                    THEN find' = [find EXCEPT ![p] = NoFind] /\ found' = {}
                    ELSE find' = [next EXCEPT ![p].room = @ - 1] /\ found' = found \cup {f}
                 /\ UNCHANGED <<tags, fd, nfree, finds, halted>>

findReturn(p) == /\ ~halted /\ find[p].at = Len(Dir) + 1
                 /\ find' = [find EXCEPT ![p] = NoFind] /\ found' = {}
                 /\ UNCHANGED <<slot, tags, fd, nfree, finds, halted>>

\* The machine is started again: the tags fields are zero, and the blocks
\* they named stay allocated.
restart == /\ slot' = [s \in Slots |-> FreeSlot] /\ tags' = [s \in Slots |-> NoBlock]
           /\ fd' = [p \in Proc |-> NoFile] /\ find' = [p \in Proc |-> NoFind]
           /\ found' = {} /\ halted' = FALSE
           /\ UNCHANGED <<nfree, finds>>

TagNext == \/ restart
           \/ \E p \in Proc : \/ open(p) \/ close(p) \/ tagFile(p) \/ removeFileTag(p)
                              \/ getAllTags(p) \/ getFilesByTag(p) \/ findEntry(p)
                              \/ findReturn(p)

TagSpec == TagInit /\ [][TagNext]_tagvars

(***************************************************************************)
(* The tag calls keep, for each slot of the inode cache, a map from keys   *)
(* to values: whatever holes removals leave in the block, a key is stored  *)
(* once, a new value replaces the old one and no other key's, what         *)
(* getFileTag and getAllTags answer depends on the map alone, and a search *)
(* reports only files whose slot had the tag when it looked.               *)
(***************************************************************************)
NoValue == -1

MapOf(blk) == [k \in Key |-> IF k \in Keys(blk)
                             THEN blk[Min({i \in DOMAIN blk : blk[i].key = k})].value
                             ELSE NoValue]

Maps == [s \in Slots |-> MapOf(tags[s])]

Store == INSTANCE TagStore WITH Place <- Slots, map <- Maps,
                                who <- [s \in Slots |-> slot[s].file]

Answers == \A s \in Slots :
    /\ Keys(tags[s]) = Store!Defined(Maps[s])
    /\ \A k \in Key, n \in Lengths :
          getFileTag(tags[s], k, n) = Store!Told(Maps[s], k, n)

RefinesTagStore == Store!StoreSpec /\ []Answers

=============================================================================

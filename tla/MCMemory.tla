------------------------------ MODULE MCMemory ------------------------------
(* Instances of Memory and Tags for TLC: either the processes grow, fork,  *)
(* exec and exit, or they tag files; the other part stays as it was.       *)
EXTENDS Memory, TLC

CONSTANTS file1, file2, file3, Key, Value, NTAG, MAXVALUE, Lengths, NSLOT,
          Opener, Searcher, Rooms, Sought, NBLOCK, MAXFIND

VARIABLES unit, slot, tags, fd, find, found, nfree, finds, halted

tag_vars == <<slot, tags, fd, find, found, nfree, finds, halted>>

\* The root directory names file1 and file2; file3 is open when its name is gone.
T == INSTANCE Tags WITH File <- {file1, file2, file3},
                        Dir <- <<file1, file2>>

MCInit == unit \in {"memory", "tags"} /\ Init /\ T!TagInit

MCNext ==
  /\ UNCHANGED unit
  /\ \/ unit = "memory" /\ Next /\ UNCHANGED tag_vars
     \/ unit = "tags" /\ T!TagNext /\ UNCHANGED vars

MCSpec == MCInit /\ [][MCNext]_<<unit, vars, tag_vars>>

\* tagFile, removeFileTag, getFileTag, getAllTags and getFilesByTag: the calls
\* change, and answer from, the tag store of TagStore (T!RefinesTagStore,
\* with nothing to show for the steps of the other part).
RefinesTagStore == /\ T!Store!StoreInit
                   /\ [][unit = "tags" => T!Store!StoreNext]_(T!Store!storevars)
                   /\ [](unit = "tags" => T!Answers)

Symmetry == Permutations(Key)
=============================================================================

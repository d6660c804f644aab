----------------------------- MODULE InodeCalls -----------------------------
(***************************************************************************)
(* What the disk holds of an inode, and the calls of module Inodes.        *)
(***************************************************************************)
EXTENDS Integers

CONSTANTS
  NINODES,      \* inodes on the disk, the first is the root
  Names         \* names of files

Root == 1
None == 0

\* nlink and the entries; up is the entry "..".  Bookkeeping: how often it
\* got an entry in a directory that had no name any more.
FreeInode == [type |-> "free", nlink |-> 0, up |-> None, entry |-> [n \in Names |-> None],
              late |-> 0]
File == [FreeInode EXCEPT !.type = "file", !.nlink = 1]

\* open, create (open with O_CREATE), mkdir, link, unlink and close; new is
\* the second argument of link().
Call(op, path, new) == [op |-> op, path |-> path, new |-> new]
=============================================================================

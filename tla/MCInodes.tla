------------------------------ MODULE MCInodes ------------------------------
(* Instances of Inodes: a root with one file, and what two processes do.   *)
EXTENDS InodeCalls

RootDir == [FreeInode EXCEPT !.type = "dir", !.nlink = 1, !.up = Root, !.entry["f"] = 2]
OneFile ==
  [i \in 1..NINODES |-> CASE i = Root -> RootDir [] i = 2 -> File [] OTHER -> FreeInode]

Do(op, path) == Call(op, path, << >>)
Alias(path, new) == Call("link", path, new)
CloseFile == Do("close", << >>)
f == <<"f">>
g == <<"g">>
a == <<"a">>
af == <<"a", "f">>
aa == <<"a", "a">>
up == <<"a", "a", "..">>

\* A file is opened, removed and made again; it gets a second name while
\* one of them goes; a directory comes and goes while it is looked into; a
\* file in it, and no inode left for another; a name is in use, or the
\* directory may be gone; a directory is created in while it is removed; two
\* directories go while one is on the way back from the lower.
Programs ==
  {<<<<Do("open", f), Do("unlink", f), CloseFile>>, <<Do("create", f), CloseFile>>>>,
   <<<<Alias(f, g), Do("unlink", f)>>, <<Do("unlink", f), Do("create", g)>>>>,
   <<<<Alias(f, g)>>, <<Do("open", f), Do("unlink", f), Do("unlink", g), CloseFile>>>>,
   <<<<Do("mkdir", a), Do("open", af)>>, <<Do("unlink", a), Do("mkdir", a)>>>>,
   <<<<Do("mkdir", a), Do("create", af)>>, <<Do("unlink", af), Do("create", g)>>>>,
   <<<<Do("mkdir", a), Alias(f, af)>>, <<Do("unlink", f)>>>>,
   <<<<Do("mkdir", a), Alias(f, af)>>, <<Do("unlink", a)>>>>,
   <<<<Do("mkdir", a), Do("create", af)>>, <<Do("unlink", a)>>>>,
   <<<<Do("mkdir", a), Do("mkdir", af)>>, <<Do("unlink", a)>>>>,
   <<<<Do("mkdir", a), Do("mkdir", aa), Do("open", up)>>, <<Do("unlink", aa), Do("unlink", a)>>>>}

\* A file is removed while another one is created.
RemoveAndCreate ==
  {<<<<Do("unlink", f)>>, <<Do("create", g), Do("unlink", g), CloseFile>>>>}
=============================================================================

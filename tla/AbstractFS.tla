------------------------------ MODULE AbstractFS ------------------------------
(***************************************************************************)
(* What TecnicoFS promises a caller: names lead to files, files are byte   *)
(* sequences of bounded length, handles are cursors in files.  There are   *)
(* no inodes, blocks, directory slots or table indexes here; a call that   *)
(* needs a resource may always fail for the lack of it.                    *)
(***************************************************************************)
EXTENDS Integers, Sequences, FiniteSets

CONSTANTS Names, Files, Handles, Bytes, Capacity, None, MaxTransfer

VARIABLES
    fileOf,     \* the file a name is a hard link to, or None
    linkTo,     \* the name a name is a soft link to, or None
    contents,   \* the bytes of each file
    opened,     \* the open handles: file and position of each, or None
    importing,  \* the import in progress: its handle and what its source has
                \* left, or None
    result,     \* what the last call answered
    delivered   \* the bytes the last Read gave

avars == <<fileOf, linkTo, contents, opened, importing, result, delivered>>

Data == UNION {[1 .. n -> Bytes] : n \in 0 .. MaxTransfer}

Init ==
    /\ fileOf = [n \in Names |-> None]
    /\ linkTo = [n \in Names |-> None]
    /\ contents = [f \in Files |-> <<>>]
    /\ opened = [h \in Handles |-> None]
    /\ importing = None
    /\ result = 0
    /\ delivered = <<>>

Exists(n) == fileOf[n] # None \/ linkTo[n] # None
Resolve(n) == IF linkTo[n] # None THEN fileOf[linkTo[n]] ELSE fileOf[n]
NamesOf(f) == {n \in Names : fileOf[n] = f}
Unused(f) == NamesOf(f) = {} /\ \A h \in Handles : opened[h] # None =>
                                                     opened[h].file # f

Answer(r, bytes) == result' = r /\ delivered' = bytes
Refuse == Answer(-1, <<>>) /\ UNCHANGED <<fileOf, linkTo, contents, opened, importing>>

\* A cursor for file f at position pos in a handle nobody holds, or -1.
Grant(f, pos, h) ==
    \/ h \in Handles /\ opened[h] = None
         /\ opened' = [opened EXCEPT ![h] = [file |-> f, pos |-> pos]]
    \/ h = -1 /\ UNCHANGED opened

\* O_TRUNC and O_APPEND are about the file the name leads to.
OpenOld(n, mode, h) ==
    /\ Resolve(n) # None
    /\ LET f == Resolve(n)
           data == IF "TFS_O_TRUNC" \in mode THEN <<>> ELSE contents[f]
       IN /\ contents' = [contents EXCEPT ![f] = data]
          /\ Grant(f, IF "TFS_O_APPEND" \in mode THEN Len(data) ELSE 0, h)
    /\ UNCHANGED <<fileOf, linkTo>>

OpenNew(n, mode, h) ==
    /\ ~Exists(n)
    /\ "TFS_O_CREAT" \in mode
    /\ \E f \in Files : /\ Unused(f)
                        /\ fileOf' = [fileOf EXCEPT ![n] = f]
                        /\ contents' = [contents EXCEPT ![f] = <<>>]
                        /\ Grant(f, 0, h)
    /\ UNCHANGED linkTo

OpenTo(n, mode, h) == OpenOld(n, mode, h) \/ OpenNew(n, mode, h)

Modes == SUBSET {"TFS_O_CREAT", "TFS_O_TRUNC", "TFS_O_APPEND"}

Open(n, mode) ==
    /\ importing = None
    /\ \/ \E h \in Handles \cup {-1} : OpenTo(n, mode, h) /\ Answer(h, <<>>)
       \/ Refuse
    /\ UNCHANGED importing

Close(h) ==
    /\ importing = None
    /\ opened[h] # None
    /\ opened' = [opened EXCEPT ![h] = None]
    /\ Answer(0, <<>>)
    /\ UNCHANGED <<fileOf, linkTo, contents, importing>>

\* The new name and the old one are equal names of one file.
Link(target, n) ==
    /\ importing = None
    /\ ~Exists(n)
    /\ fileOf[target] # None
    /\ fileOf' = [fileOf EXCEPT ![n] = fileOf[target]]
    /\ Answer(0, <<>>)
    /\ UNCHANGED <<linkTo, contents, opened, importing>>

SymLink(target, n) ==
    /\ importing = None
    /\ ~Exists(n)
    /\ Exists(target)
    /\ linkTo' = [linkTo EXCEPT ![n] = target]
    /\ Answer(0, <<>>)
    /\ UNCHANGED <<fileOf, contents, opened, importing>>

\* The file goes with its last name.
Unlink(n) ==
    /\ importing = None
    /\ fileOf[n] # None
    /\ fileOf' = [fileOf EXCEPT ![n] = None]
    /\ contents' = IF NamesOf(fileOf[n]) = {n}
                     THEN [contents EXCEPT ![fileOf[n]] = <<>>] ELSE contents
    /\ Answer(0, <<>>)
    /\ UNCHANGED <<linkTo, opened, importing>>

\* Bytes past Capacity are not stored.
Stored(pos, data) == IF pos + Len(data) > Capacity
                       THEN SubSeq(data, 1, Capacity - pos) ELSE data
Overwritten(old, pos, data) ==
    SubSeq(old, 1, pos) \o data \o SubSeq(old, pos + Len(data) + 1, Len(old))

Put(h, data) ==
    LET f == opened[h].file
        pos == opened[h].pos
        kept == Stored(pos, data)
    IN /\ contents' = [contents EXCEPT ![f] = Overwritten(@, pos, kept)]
       /\ opened' = [opened EXCEPT ![h].pos = pos + Len(kept)]

Write(h, data) ==
    /\ importing = None
    /\ opened[h] # None
    /\ Put(h, data)
    /\ Answer(Len(Stored(opened[h].pos, data)), <<>>)
    /\ UNCHANGED <<fileOf, linkTo, importing>>

Read(h, len) ==
    /\ importing = None
    /\ opened[h] # None
    /\ LET all == contents[opened[h].file]
           pos == opened[h].pos
           bytes == SubSeq(all, pos + 1, IF pos + len > Len(all)
                                           THEN Len(all) ELSE pos + len)
       IN /\ Answer(Len(bytes), bytes)
          /\ opened' = [opened EXCEPT ![h].pos = pos + Len(bytes)]
    /\ UNCHANGED <<fileOf, linkTo, contents, importing>>

\* An import empties its destination, or creates it, and appends the bytes of
\* the source to it one chunk after the other.  It succeeds once it has them all.
ImportBegin(n, length) ==
    /\ importing = None
    /\ \E h \in Handles \cup {-1} :
          /\ OpenTo(n, {"TFS_O_TRUNC", "TFS_O_CREAT"}, h)
          /\ importing' = IF h = -1 THEN None ELSE [handle |-> h, left |-> length]
          /\ Answer(IF h = -1 THEN -1 ELSE result, <<>>)

ImportChunk(data) ==
    /\ importing # None
    /\ Len(data) <= importing.left
    /\ Put(importing.handle, data)
    /\ importing' = [importing EXCEPT !.left = @ - Len(data)]
    /\ UNCHANGED <<fileOf, linkTo, result, delivered>>

ImportEnd ==
    /\ importing # None
    /\ \E r \in {0, -1} : (r = 0 => importing.left = 0) /\ Answer(r, <<>>)
    /\ opened' = [opened EXCEPT ![importing.handle] = None]
    /\ importing' = None
    /\ UNCHANGED <<fileOf, linkTo, contents>>

\* Mounting gives an empty file system, unmounting forgets everything.
Mount == importing = None /\ UNCHANGED <<fileOf, linkTo, contents, opened, importing>>
           /\ Answer(0, <<>>)
Unmount ==
    /\ importing = None
    /\ fileOf' = [n \in Names |-> None]
    /\ linkTo' = [n \in Names |-> None]
    /\ contents' = [f \in Files |-> <<>>]
    /\ opened' = [h \in Handles |-> None]
    /\ Answer(0, <<>>)
    /\ UNCHANGED importing

Next ==
    \/ Mount \/ Unmount \/ ImportEnd
    \/ importing = None /\ Refuse
    \/ \E n \in Names : \/ Unlink(n)
                        \/ \E length \in 0 .. MaxTransfer : ImportBegin(n, length)
    \/ \E n \in Names, mode \in Modes : Open(n, mode)
    \/ \E target, n \in Names : Link(target, n) \/ SymLink(target, n)
    \/ \E h \in Handles : \/ Close(h)
                          \/ \E len \in 0 .. MaxTransfer : Read(h, len)
                          \/ \E data \in Data : Write(h, data)
    \/ \E data \in Data : ImportChunk(data)

Spec == Init /\ [][Next]_avars
=============================================================================

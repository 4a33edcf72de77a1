---------------------------- MODULE ThumbnailUpload ---------------------------
(***************************************************************************)
(* Thumbnails: an administrator uploads an image, which is copied to a     *)
(* file piece by piece, and gets its URL. Uploads run at the same time;    *)
(* reading, creating and writing may fail, and the server may crash at any *)
(* piece. Putting the URL into a catalog is a later request of its own,    *)
(* which never comes back to the file.                                     *)
(*                                                                         *)
(* Lengths are counted in blocks, of which the part read to sniff the type *)
(* is one. The size a client declares need not be the length of what it    *)
(* sends. File names are drawn at random and may, in principle, collide.   *)
(*                                                                         *)
(* The definitions marked "Mutation" are mistakes the code could have made *)
(* in the definition that follows. Nothing uses them.                      *)
(***************************************************************************)
EXTENDS Integers

CONSTANTS
    Uploads,   \* uploads, each a request
    Names,     \* file names that may be drawn
    Lengths,   \* lengths of what clients send, and sizes they declare
    MaxSize,   \* MaxThumbnailSize
    Nil        \* no file, no name

\* The first 512 bytes.
Head == 1

ConstantsAssumption ==
    /\ Lengths \subseteq Nat
    /\ MaxSize \in Nat /\ MaxSize >= Head
    /\ Nil \notin Names

VARIABLES
    disk,       \* the directory thumbnails/: what each file holds
    pc,         \* where each upload stands
    up,         \* what it sends, its name and how much it has written
    crashed     \* files the server was writing when it crashed (history)

vars == <<disk, pc, up, crashed>>

-----------------------------------------------------------------------------
\* A file is the upload its content comes from, and its length.
File == [of: Uploads, length: 0..(MaxSize + 1)]

NilIsNoFile == Nil \notin File

Upload == [declared: Lengths, length: Lengths, image: BOOLEAN, name: Names \cup {Nil}]

Stages == {"new", "sniff", "open", "head", "body", "failed", "done"}

Init ==
    /\ disk = [n \in Names |-> Nil]
    /\ pc = [u \in Uploads |-> "new"]
    /\ up \in [Uploads -> [declared: Lengths, length: Lengths, image: BOOLEAN, name: {Nil}]]
    /\ crashed = {}

Goto(u, stage) == pc' = [pc EXCEPT ![u] = stage]

\* UploadThumbnail, up to the check of the declared size.
Receive(u) ==
    /\ pc[u] = "new"
    /\ Goto(u, IF up[u].declared > MaxSize THEN "failed" ELSE "sniff")
    /\ UNCHANGED <<disk, up, crashed>>

\* Reading the first block; the content tells the type.
Sniff(u) ==
    /\ pc[u] = "sniff"
    /\ \/ Goto(u, "failed")
       \/ up[u].image /\ up[u].length > 0 /\ Goto(u, "open")
    /\ UNCHANGED <<disk, up, crashed>>

\* Mutation: without O_EXCL, an existing file is truncated.
MayOpenAny(n) == TRUE

\* O_CREATE | O_EXCL
MayOpen(n) == disk[n] = Nil

Open(u) ==
    /\ pc[u] = "open"
    /\ \/ \E n \in Names :
             /\ MayOpen(n)
             /\ disk' = [disk EXCEPT ![n] = [of |-> u, length |-> 0]]
             /\ up' = [up EXCEPT ![u].name = n]
             /\ Goto(u, "head")
       \/ Goto(u, "failed") /\ UNCHANGED <<disk, up>>
    /\ UNCHANGED crashed

\* Mutation: the file is closed but not removed.
RemovedNot(n) == disk

\* cleanup
Removed(n) == [disk EXCEPT ![n] = Nil]

CleanUp(u) ==
    /\ disk' = Removed(up[u].name)
    /\ Goto(u, "failed")

Append(u) == disk' = [disk EXCEPT ![up[u].name] = [of |-> u, length |-> @.length + 1]]

WriteHead(u) ==
    /\ pc[u] = "head"
    /\ \/ Append(u) /\ Goto(u, "body")
       \/ CleanUp(u)
    /\ UNCHANGED <<up, crashed>>

\* LimitReader: what the client sends, at most one more than may be kept.
Limit == MaxSize + 1

\* Mutation: the copy is not limited.
ReadAll(u) == up[u].length

Read(u) == IF up[u].length < Limit THEN up[u].length ELSE Limit

\* A piece of io.Copy, or an error from the reader or the disk.
Copy(u) ==
    /\ pc[u] = "body"
    /\ \/ /\ disk[up[u].name].length < Read(u)
          /\ Append(u)
          /\ UNCHANGED pc
       \/ CleanUp(u)
    /\ UNCHANGED <<up, crashed>>

\* io.Copy has come to the end: the file is kept, unless it is too large.
Finish(u) ==
    /\ pc[u] = "body"
    /\ disk[up[u].name].length = Read(u)
    /\ IF disk[up[u].name].length > MaxSize THEN CleanUp(u)
       ELSE Goto(u, "done") /\ UNCHANGED disk
    /\ UNCHANGED <<up, crashed>>

Writing == {u \in Uploads : pc[u] \in {"head", "body"}}

\* The server crashes: uploads under way end, their files stay as they are.
Crash ==
    /\ \E u \in Uploads : pc[u] \notin {"new", "failed", "done"}
    /\ pc' = [u \in Uploads |-> IF pc[u] \in {"new", "failed", "done"} THEN pc[u] ELSE "failed"]
    /\ crashed' = crashed \cup {up[u].name : u \in Writing}
    /\ UNCHANGED <<disk, up>>

Step(u) == Receive(u) \/ Sniff(u) \/ Open(u) \/ WriteHead(u) \/ Copy(u) \/ Finish(u)

Next ==
    \/ \E u \in Uploads : Step(u)
    \/ Crash

Spec == Init /\ [][Next]_vars

-----------------------------------------------------------------------------
(* Properties.                                                             *)

\* Every variable has its type; no file is ever longer than the maximum and one block.
TypeOK ==
    /\ disk \in [Names -> File \cup {Nil}]
    /\ pc \in [Uploads -> Stages]
    /\ up \in [Uploads -> Upload]
    /\ crashed \subseteq Names

\* A URL that was answered names a file that holds what its client sent, the whole of it
\* and no more than the maximum; other uploads never touch it again.
AnsweredIsWhole ==
    \A u \in Uploads :
        pc[u] = "done" =>
            /\ disk[up[u].name] = [of |-> u, length |-> up[u].length]
            /\ up[u].length <= MaxSize

\* An upload that fails leaves no file behind: what is on the disk was answered, is being
\* written, or was being written when the server crashed.
FailureLeavesNothing ==
    \A n \in Names :
        disk[n] # Nil =>
            \/ n \in crashed
            \/ pc[disk[n].of] \in {"head", "body", "done"} /\ up[disk[n].of].name = n

=============================================================================

----------------------------- MODULE AtomicWrite -----------------------------
(***************************************************************************)
(* How the files under ~/.whizzard are written (_atomic.py), at the level  *)
(* of directory entries and inodes.  atomic_write_text opens a temporary   *)
(* sibling with a fixed name, fills it and renames it over the target; the *)
(* three `init` commands of cli/profiles.py, cli/harnesses.py and          *)
(* cli/preset.py write the target itself.  Processes interleave between    *)
(* the system calls, and any of them may die between two of them.          *)
(***************************************************************************)
CONSTANTS
  Files,     \* the files that are written
  Procs,     \* the processes that write them
  Inodes,    \* of one directory entry: its target, its temporary, a deleted one
  Contents,  \* per file, the texts it is given
  None,      \* no inode
  Empty,     \* what a file holds just after it was opened for writing
  Half       \* a text cut short, or two texts laid over each other

ASSUME ContentsAssumption ==
  /\ None \notin Inodes
  /\ Empty # Half
  /\ \A f \in Files : \A text \in Contents[f] : text # Empty /\ text # Half

VARIABLES
  target,  \* the inode the file's own name points to
  tmp,     \* the inode its temporary name points to
  data,    \* what the file's inodes hold
  writer,  \* the write each process is in
  met      \* files two processes had open at once, or that one wrote directly

writeVars == << target, tmp, data, writer, met >>

NotWriting ==
  [stage |-> "none", file |-> None, text |-> None, inode |-> None, direct |-> FALSE]

Opened(f, text, i, direct) ==
  [stage |-> "open", file |-> f, text |-> text, inode |-> i, direct |-> direct]

OpenWrites(f) ==
  [ stage : {"open", "filled"}, file : {f}, text : Contents[f], inode : Inodes,
    direct : BOOLEAN ]

WriterOK(p) ==
  \/ writer[p] = NotWriting
  \/ \E f \in Files : writer[p] \in OpenWrites(f)

WriteTypeOK ==
  /\ target \in [Files -> Inodes \cup {None}]
  /\ tmp \in [Files -> Inodes \cup {None}]
  /\ DOMAIN data = Files
  /\ \A f \in Files : data[f] \in [Inodes -> {Empty, Half} \cup Contents[f]]
  /\ DOMAIN writer = Procs
  /\ \A p \in Procs : WriterOK(p)
  /\ met \subseteq Files

WriteInit ==
  /\ target = [f \in Files |-> None]
  /\ tmp = [f \in Files |-> None]
  /\ data = [f \in Files |-> [i \in Inodes |-> Empty]]
  /\ writer = [p \in Procs |-> NotWriting]
  /\ met = {}

-----------------------------------------------------------------------------
Writing(p, f) == writer[p].stage # "none" /\ writer[p].file = f

\* An inode of f no name points to and no process has open.
Unused(f, i) ==
  /\ i # target[f] /\ i # tmp[f]
  /\ \A p \in Procs : Writing(p, f) => writer[p].inode # i

\* The inode that opening a name of f for writing gives: the one it has, or a new one.
OpenedAs(f, name, i) == name = i \/ (name = None /\ Unused(f, i))

Overlap(p, f) == IF \E q \in Procs \ {p} : Writing(q, f) THEN {f} ELSE {}

\* (mutant) The temporary is opened without truncating what it still holds.
OpenTempAppends(p, f, text) ==
  /\ writer[p] = NotWriting
  /\ \E i \in Inodes :
       /\ OpenedAs(f, tmp[f], i)
       /\ tmp' = [tmp EXCEPT ![f] = i]
       /\ data' = IF tmp[f] = None THEN [data EXCEPT ![f][i] = Empty] ELSE data
       /\ writer' = [writer EXCEPT ![p] = Opened(f, text, i, FALSE)]
  /\ met' = met \cup Overlap(p, f)
  /\ UNCHANGED target

\* tmp.write_text opens the temporary, truncating whatever another writer, or
\* one that died, had put there.
OpenTemp(p, f, text) ==
  /\ writer[p] = NotWriting
  /\ \E i \in Inodes :
       /\ OpenedAs(f, tmp[f], i)
       /\ tmp' = [tmp EXCEPT ![f] = i]
       /\ data' = [data EXCEPT ![f][i] = Empty]
       /\ writer' = [writer EXCEPT ![p] = Opened(f, text, i, FALSE)]
  /\ met' = met \cup Overlap(p, f)
  /\ UNCHANGED target

\* path.write_text on the target itself.
OpenTarget(p, f, text) ==
  /\ writer[p] = NotWriting
  /\ \E i \in Inodes :
       /\ OpenedAs(f, target[f], i)
       /\ target' = [target EXCEPT ![f] = i]
       /\ data' = [data EXCEPT ![f][i] = Empty]
       /\ writer' = [writer EXCEPT ![p] = Opened(f, text, i, TRUE)]
  /\ met' = met \cup {f}
  /\ UNCHANGED tmp

\* What writing from the start of a file leaves: a text that is shorter than
\* the one underneath leaves that one's tail.
Overlay(old, text) == IF old \in {Empty, text} THEN {text} ELSE {text, Half}

\* The text is written and the file closed.
Fill(p) ==
  LET w == writer[p] IN
  /\ w.stage = "open"
  /\ \E new \in Overlay(data[w.file][w.inode], w.text) :
       data' = [data EXCEPT ![w.file][w.inode] = new]
  /\ writer' = [writer EXCEPT ![p] = IF w.direct THEN NotWriting ELSE [w EXCEPT !.stage = "filled"]]
  /\ UNCHANGED << target, tmp, met >>

\* tmp.replace(path): whatever the temporary name points to by now becomes the
\* file, and the old file is gone unless somebody has it open.
Publish(p) ==
  LET f == writer[p].file
      kept == {tmp[f]} \cup {writer[q].inode : q \in {r \in Procs : Writing(r, f)}} IN
  /\ writer[p].stage = "filled"
  /\ tmp[f] # None
  /\ target' = [target EXCEPT ![f] = tmp[f]]
  /\ tmp' = [tmp EXCEPT ![f] = None]
  /\ data' = [data EXCEPT ![f] = [i \in Inodes |-> IF i \in kept THEN @[i] ELSE Empty]]
  /\ writer' = [writer EXCEPT ![p] = NotWriting]
  /\ UNCHANGED met

\* tmp.replace finds the name gone: FileNotFoundError.
PublishFails(p) ==
  /\ writer[p].stage = "filled"
  /\ tmp[writer[p].file] = None
  /\ writer' = [writer EXCEPT ![p] = NotWriting]
  /\ UNCHANGED << target, tmp, data, met >>

\* The process dies, or the disk is full: a text being written is cut anywhere.
Die(p) ==
  LET w == writer[p] IN
  /\ w # NotWriting
  /\ data' = IF w.stage = "open" THEN [data EXCEPT ![w.file][w.inode] = Half] ELSE data
  /\ writer' = [writer EXCEPT ![p] = NotWriting]
  /\ UNCHANGED << target, tmp, met >>

WriteNext ==
  \E p \in Procs :
    \/ \E f \in Files : \E text \in Contents[f] : OpenTemp(p, f, text) \/ OpenTarget(p, f, text)
    \/ Fill(p)
    \/ Publish(p)
    \/ PublishFails(p)
    \/ Die(p)

WriteSpec == WriteInit /\ [][WriteNext]_writeVars

-----------------------------------------------------------------------------
\* A reader finds the file absent, or a whole text.
IsWhole(f) == target[f] # None => data[f][target[f]] \notin {Empty, Half}

\* What _atomic.py promises, "never half", as far as it goes: wherever a crash
\* cuts the writers, a file is whole as long as no two of them had it open at
\* once and none wrote it directly.
WholeUnlessMet == \A f \in Files : f \in met \/ IsWhole(f)

\* What a reader of f finds: no text while there is no file.
Found(f) == IF target[f] = None THEN {} ELSE {data[f][target[f]]}

Replaces(p, f) ==
  /\ writer[p].stage = "filled" /\ writer[p].file = f
  /\ writer'[p] = NotWriting
  /\ Found(f)' = {writer[p].text}

OldOrNew ==
  \A f \in Files : \/ f \in met'
                   \/ Found(f)' = Found(f)
                   \/ \E p \in Procs : Replaces(p, f)

\* "Either the full old contents or the full new contents": readers of a file
\* find what they did, whatever its writer is in the middle of and wherever it
\* fails or dies, until the step in which one has all of its own text there;
\* unless two writers had the file open at once or one wrote it directly.
ReadersSeeOldOrNew == [][OldOrNew]_writeVars

-----------------------------------------------------------------------------
(* The inductive invariant behind WholeUnlessMet *)

OneWriter ==
  \A f \in Files \ met : \A p, q \in Procs : Writing(p, f) /\ Writing(q, f) => p = q

\* The one writer of a file has the temporary to itself.
OwnsTemp ==
  \A p \in Procs : writer[p].stage # "none" /\ writer[p].file \notin met =>
    LET w == writer[p] IN
    /\ ~ w.direct
    /\ tmp[w.file] = w.inode
    /\ data[w.file][w.inode] = IF w.stage = "open" THEN Empty ELSE w.text

TempIsNotTarget == \A f \in Files : tmp[f] = None \/ tmp[f] # target[f]

WriteIInv ==
  /\ WriteTypeOK
  /\ WholeUnlessMet
  /\ OneWriter
  /\ OwnsTemp
  /\ TempIsNotTarget

=============================================================================

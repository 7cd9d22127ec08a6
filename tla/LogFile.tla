------------------------------- MODULE LogFile -------------------------------
(***************************************************************************)
(* The file of a log, LogBase::write (src/base/log/log_base.cpp): text is  *)
(* appended to the current file; a file that reached its size is renamed   *)
(* to the second of the clock, in whose name a file may already be, and    *)
(* the current file is opened anew and truncated.                          *)
(***************************************************************************)
EXTENDS Naturals, Sequences

CONSTANT MaxSize  \* m_max_file_size, in texts

(* open: the file is open; cur: what it holds; old: the archives, by       *)
(* second.  History: rotations counts rotations, missed the texts that met *)
(* a file that was not open.                                               *)
NewFile ==
  [open |-> TRUE, cur |-> << >>, old |-> << >>, rotations |-> 0, missed |-> 0]

(* rename(): an archive of the same second is replaced. *)
Archived(f, second, renamed) ==
  IF renamed
    THEN [s \in DOMAIN f.old \cup {second} |-> IF s = second THEN f.cur ELSE f.old[s]]
    ELSE f.old

\* Mutant of Rotate: the archive is a copy and the file goes on growing.
RotateCopies(f, second, renamed, reopened) ==
  [f EXCEPT !.old = Archived(f, second, renamed),
            !.open = reopened,
            !.rotations = @ + 1]

(* Close, rename, open again; the current file is truncated even if the    *)
(* rename failed.                                                          *)
Rotate(f, second, renamed, reopened) ==
  [f EXCEPT !.old = Archived(f, second, renamed),
            !.cur = << >>,
            !.open = reopened,
            !.rotations = @ + 1]

(* write(): nothing reaches a file that is not open. *)
Write(f, xs, second, renamed, reopened) ==
  LET grown == [f EXCEPT !.cur = @ \o xs]
  IN  IF ~ f.open THEN [f EXCEPT !.missed = @ + Len(xs)]
      ELSE IF Len(grown.cur) < MaxSize THEN grown
      ELSE Rotate(grown, second, renamed, reopened)

=============================================================================

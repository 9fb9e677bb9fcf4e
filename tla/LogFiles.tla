------------------------------ MODULE LogFiles ------------------------------
(***************************************************************************)
(* The log file and the older ones beside it (RotatingWriter in log.go).    *)
(* File 0 is the one being written, file j the one named log.j.  A line is  *)
(* its number in the order of writing; a file without lines and one that    *)
(* does not exist are the same here, rotate moves neither.  Every call      *)
(* holds the mutex, so that a write and a rotation are one step each.       *)
(***************************************************************************)
EXTENDS Integers, Sequences

CONSTANTS
  keep,     \* how many older files are kept
  maxLines  \* maxBytes, in lines

ASSUME LogAssumption == keep \in Nat \ {0} /\ maxLines \in Nat

\* handle: "open"; "shut": closed, but still in w.file, which a Close that
\* reports an error leaves behind; "nil".
NewRotatingWriter ==
  [files |-> [j \in 0 .. keep |-> <<>>], handle |-> "open", size |-> 0]

\* LOG_ROTATION_ENABLED=0: no file at all.
NoWriter == [NewRotatingWriter EXCEPT !.handle = "nil"]

Write(w, line) ==
  IF w.handle = "open"
  THEN [w EXCEPT !.files[0] = Append(@, line), !.size = @ + 1]
  ELSE w

TooLarge(w) == w.size > maxLines

\* Mutant of Shifted: the newest first, so that it takes every older one's place.
ShiftedUp(files, stuck) ==
  [j \in 0 .. keep |-> IF j = keep THEN files[0] ELSE <<>>]

\* The files after the renames, the oldest first.  A rename to log.(j+1) takes
\* the place of what was there; one that fails is not noticed.
Shifted(files, stuck) ==
  LET moves(j) == j \in 0 .. keep - 1 /\ j \notin stuck /\ files[j] # <<>>
  IN [j \in 0 .. keep |->
        IF moves(j - 1) THEN files[j - 1] ELSE IF moves(j) THEN <<>> ELSE files[j]]

\* What may go wrong in a rotation: the close, renames, the open.
NoFault == [close |-> FALSE, stuck |-> {}, open |-> FALSE]
Faults  == [close : BOOLEAN, stuck : SUBSET (0 .. keep - 1), open : BOOLEAN]

rotate(w, fault) ==
  IF w.handle = "nil" THEN w
  ELSE IF w.handle = "shut" \/ fault.close THEN [w EXCEPT !.handle = "shut"]
  ELSE IF fault.open
       THEN [w EXCEPT !.files = Shifted(@, fault.stuck), !.handle = "nil"]
       ELSE [w EXCEPT !.files = Shifted(@, fault.stuck), !.size = 0]

\* The last step of Close, after the loop has ended.
CloseFile(w) == [w EXCEPT !.handle = "nil"]
=============================================================================

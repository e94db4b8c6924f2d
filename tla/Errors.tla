------------------------------- MODULE Errors -------------------------------
(***************************************************************************)
(* Exceptions across the boundary (errors.go, value.go, fs.go).            *)
(*                                                                         *)
(* A Go error is an *Exception (type, message, frames, data), an error     *)
(* that wraps another, one of the errors that packages compare with, or a  *)
(* plain one.  What Error() gives is a message: a tuple that shows what    *)
(* the text is made of.                                                    *)
(***************************************************************************)
EXTENDS Naturals, Sequences, FiniteSets

Empty == << >>      \* the empty message, no frames, no data

Exception(type, message, frames, data) == << "exception", type, message, frames, data >>
\* A wrapper wraps one error: a chain of them is its length and its end.
Innermost(e) == IF e[1] = "wrap" THEN e[3] ELSE e
Wrap(e) == << "wrap", IF e[1] = "wrap" THEN e[2] + 1 ELSE 1, Innermost(e) >>
Plainly(text) == << "plain", text >>
Sentinel(name) == << "sentinel", name >>

\* The header, a line for each frame, and the line of the exception.
renderTraceback(frames, type, message) ==
  (IF frames = Empty THEN << >> ELSE << << "Traceback" >> >>)
  \o [i \in DOMAIN frames |-> << "File", frames[i] >>]
  \o << << type, message >> >>

\* The one line of an exception that has no traceback is the line of Error().
Text(e) ==
  LET x == Innermost(e) IN
  (IF e[1] = "wrap" THEN [i \in 1..e[2] |-> << "wrapped" >>] ELSE << >>)
  \o CASE x[1] = "exception" /\ x[4] # Empty -> renderTraceback(x[4], x[2], x[3])
       [] x[1] = "exception" /\ x[4] = Empty -> << << x[2], x[3] >> >>
       [] x[1] \in {"plain", "sentinel"} -> << << x[2] >> >>

\* errors.As for an *Exception, errors.Is.
As(e) == { x \in {Innermost(e)} : x[1] = "exception" }
Is(e, name) == Innermost(e) = Sentinel(name)

(***************************************************************************)
(* Into the sandbox and out of it                                          *)
(***************************************************************************)

\* Mutant: the message is the whole text.
raisedByText(e) ==
  IF e[1] = "exception" THEN << "raised", e[2], Text(e), Empty, Empty >>
                        ELSE << "raised", "RuntimeError", Text(e), Empty, Empty >>

\* The type is asserted, so that an exception in a wrapper is not seen; frames
\* and data stay behind.
raisedFromError(e) ==
  IF e[1] = "exception" THEN << "raised", e[2], e[3], Empty, Empty >>
                        ELSE << "raised", "RuntimeError", Text(e), Empty, Empty >>

exceptionFromProto(r) ==
  IF r = Empty THEN Exception("RuntimeError", << << "empty" >> >>, Empty, Empty)
               ELSE Exception(r[2], r[3], r[4], r[5])

\* Code lets it pass: the frames it came through.
Uncaught(r, frames) == [r EXCEPT ![4] = frames]

\* Code keeps the exception and returns it: a value has neither frames nor data.
Caught(r) == << "exception", r[2], IF r[3] = Empty THEN << >> ELSE << r[3] >> >>

(***************************************************************************)
(* Errors of a filesystem                                                  *)
(***************************************************************************)

\* What errors.Is takes an errno for; the texts of the others are looked at.
Errnos == [ ENOENT |-> "FileNotFoundError", EEXIST |-> "FileExistsError",
            ENOTEMPTY |-> "FileExistsError", EACCES |-> "PermissionError",
            EISDIR |-> "IsADirectoryError", ENOTDIR |-> "NotADirectoryError",
            errNotEmpty |-> "OSError", EOF |-> "OSError" ]

\* An exception as it is, even in a wrapper; a decline; else the OSError.
fsError(e) ==
  LET named == { x \in {Innermost(e)} : x[1] = "sentinel" /\ x[2] \in DOMAIN Errnos }
  IN CASE As(e) # {} -> CHOOSE x \in As(e) : TRUE
       [] As(e) = {} /\ Is(e, "ErrNotHandled") -> e
       [] As(e) = {} /\ ~Is(e, "ErrNotHandled") /\ named = {} ->
            Exception("OSError", Text(e), Empty, Empty)
       [] OTHER -> Exception(Errnos[(CHOOSE x \in named : TRUE)[2]], << << "path" >> >>, Empty, Empty)
=============================================================================

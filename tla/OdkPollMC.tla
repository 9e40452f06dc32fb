----------------------------- MODULE OdkPollMC -----------------------------
(* Instances of OdkPoll for TLC.  Submissions are numbers, because instance *)
(* ids are ordered; poll tasks are interchangeable.                         *)
EXTENDS OdkPoll, TLC

Symmetry == Permutations(Polls)

\* A poll reads top * pages submissions at most.
ByDate(top, pages) ==
    [mode |-> "timestamp", supported |-> TRUE, strict |-> TRUE,
     top |-> top, pages |-> pages]
ByUpdate(top, pages) ==
    [mode |-> "updated_at", supported |-> TRUE, strict |-> TRUE,
     top |-> top, pages |-> pages]
Unsupported(strict, top, pages) ==
    [mode |-> "timestamp", supported |-> FALSE, strict |-> strict,
     top |-> top, pages |-> pages]

\* Polls that must come back for the third submission, and polls that find all
\* of them one page after the other.
ShortPolls == {ByDate(1, 2), ByDate(1, 3)}

\* The default mode with short polls, updated_at with the whole form on one
\* page, and both policies for a server without the filter.
AllModes == {ByDate(1, 2), ByUpdate(3, 1),
             Unsupported(TRUE, 1, 2), Unsupported(FALSE, 1, 2)}

\* A full scan that stops before the third submission.
CappedScan == {Unsupported(FALSE, 1, 2)}

\* One submission per page, in the order of their last edit.
PagedUpdates == {ByUpdate(1, 3)}

=============================================================================

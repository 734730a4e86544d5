---------------------------- MODULE StorageHelper ----------------------------
(***************************************************************************)
(* What the helpers that call a storage library share: an operation is a   *)
(* lambda that a thread of the helper's executor runs to its end, and      *)
(* retry() repeats a storage call that failed for a passing reason.        *)
(*                                                                         *)
(* Errors are kept by class: EAGAIN stands for every member of the retry   *)
(* sets, ENOENT for every error outside them; ERANGE, EBUSY and the errors *)
(* the helpers make up themselves keep their names.                        *)
(***************************************************************************)
EXTENDS Naturals

CONSTANTS
    Workers,            \* threads of the executor
    IO_RETRY_COUNT      \* retries of one storage call

ASSUME StorageHelperAssumption == IO_RETRY_COUNT \in Nat

RetryErrors == {"EAGAIN"}
LibraryErrors == {"EAGAIN", "ENOENT", "ERANGE"}

\* What a call that has no special outcome returns.
Results == {"ok", "EAGAIN", "ENOENT"}

\* Faulty variant: one retry too many.
FinalRetriesOnce(tries, good) == good \/ tries > IO_RETRY_COUNT

\* retry: the result of an attempt made after some retries is returned.
Final(tries, good) == good \/ tries = IO_RETRY_COUNT

\* A thread between operations; ret is what its last operation answered.
Answered(ret) == [op |-> "idle", ret |-> ret]

=============================================================================

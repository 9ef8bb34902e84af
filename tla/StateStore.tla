------------------------------ MODULE StateStore -----------------------------
(***************************************************************************)
(* StateManager of controller.py: the JSON file that records the desired   *)
(* spec of the last cycle, which the Reconciler reads as the set of users  *)
(* it owns.  The file is either absent, a spec, or Torn: what open('w')    *)
(* followed by an interrupted json.dump leaves behind, which json.load     *)
(* rejects.  Whether the file survives a restart of the process depends on *)
(* where Config.STATE_FILE points: /tmp by default, which a restarted      *)
(* container does not keep.                                                *)
(***************************************************************************)
EXTENDS Naturals

CONSTANTS
    NoFile,            \* the state file does not exist
    Torn,              \* the file was truncated and not (fully) rewritten
    STATE_PERSISTENT,  \* STATE_FILE lies on storage that survives a restart
    MaxIOErrors        \* bound on failing writes of the state file

VARIABLES
    stateFile,   \* NoFile, Torn, or the spec last written
    io_errors    \* IOErrors of save_state so far

EmptySpec == [n \in {} |-> {}]

\* load_state: an absent file, or one that json.load rejects, is read as
\* "no previous state" (the error is only logged).
LoadState(f) == IF f \in {NoFile, Torn} THEN EmptySpec ELSE f

\* save_state: open(state_file, 'w') truncates the file before json.dump
\* writes it.  An IOError is logged and swallowed: raised by open, it leaves
\* the old file; raised while dumping, it leaves a truncated one.
SaveState(users) ==
    \/ /\ stateFile' = users
       /\ UNCHANGED io_errors
    \/ /\ io_errors < MaxIOErrors
       /\ io_errors' = io_errors + 1
       /\ stateFile' \in {stateFile, Torn}

\* The file after the process restarts: STATE_FILE defaults to /tmp, which
\* the container's fresh filesystem does not keep.
AfterRestart ==
    stateFile' = IF STATE_PERSISTENT THEN stateFile ELSE NoFile
=============================================================================

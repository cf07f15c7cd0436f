------------------------------- MODULE KVStore -------------------------------
(***************************************************************************)
(* The replicated state machine of fsm/kv.go: a map from keys to values    *)
(* under SET and DELETE.  A command is one decoded fsm.Command.            *)
(***************************************************************************)
EXTENDS Sequences, SequencesExt

CONSTANTS
    Key,
    Value,
    Absent      \* what Get reports for a key that is not there

ASSUME AbsentAssumption == Absent \notin Value

SetCommand == [op : {"SET"}, key : Key, value : Value]

DeleteCommand == [op : {"DELETE"}, key : Key]

KVData == [Key -> Value \cup {Absent}]

NewKV == [k \in Key |-> Absent]

\* Mutant: DELETE leaves the key with the empty string.
applyDeleteAsEmpty(data, cmd) ==
    CASE cmd.op = "SET"    -> [data EXCEPT ![cmd.key] = cmd.value]
      [] cmd.op = "DELETE" -> [data EXCEPT ![cmd.key] = ""]
      [] OTHER             -> data

\* An operation that is neither leaves the map as it is: the error is logged.
Apply(data, cmd) ==
    CASE cmd.op = "SET"    -> [data EXCEPT ![cmd.key] = cmd.value]
      [] cmd.op = "DELETE" -> [data EXCEPT ![cmd.key] = Absent]
      [] OTHER             -> data

ApplyAll(data, cmds) == FoldLeft(Apply, data, cmds)
=============================================================================

------------------------- MODULE ControllerActions -------------------------
(***************************************************************************)
(* The environment controller of a sandbox: one command frame at a time is *)
(* executed on the sandbox's disk and then recorded in the action journal, *)
(* from which a later frame rolls it back.  The gateway may send a frame   *)
(* again, and the process may die between any two of these steps.          *)
(*                                                                         *)
(* The disk is a file in the mutation root, a decoy directory with a file  *)
(* in it, and one decoy service of the marker-file adapter.                *)
(***************************************************************************)
EXTENDS Naturals

CONSTANTS
    MaxActions,    \* bound: action ids, numbered in the order they are first used
    MaxFrames,     \* bound: frames handled
    MaxDeaths      \* bound: deaths of the controller

VARIABLES
    disk,        \* [file, time, dir, service, programdata]
    action_journal, \* journal_entries: [status, rollback]
    command,     \* the command of each id the gateway has sent
    frame,       \* the frame between two steps: its outcome not yet recorded
    saved,       \* history: the disk before and after the last success of an id
    frames, deaths

ActionIds == 1..MaxActions

controllerVars == <<disk, action_journal, command, frame, saved, frames, deaths>>

Paths == {"f", "d/f"}
Outside == "outside"  \* a path that resolves outside the mutation roots

\* A file is 0 (absent) or its content; the service is "OFF" or how often its
\* profile is wrapped in a record of its own.
EmptyDisk == [file |-> [p \in Paths |-> 0], time |-> [p \in Paths |-> 0], dir |-> FALSE,
              service |-> "OFF", programdata |-> {}]

Commands ==
    [type : {"PLACE_ARTIFACT"}, path : Paths \cup {Outside}]
        \cup [type : {"MOVE_ARTIFACT"}, path : Paths, destination : Paths]
        \cup [type : {"CHANGE_VISIBLE_METADATA"}, path : Paths, prior_state : {0, 1}]
        \cup [type : {"CREATE_DECOY_DIRECTORY", "DISPLAY_MESSAGE", "ENABLE_DECOY_SERVICE",
                      "DISABLE_DECOY_SERVICE", "REQUEST_SNAPSHOT", "CONCLUDE_SESSION",
                      "CLEAN_SHUTDOWN", "SOFT_RESET", "FULL_REBUILD"}]

Marker(type) == CASE type = "REQUEST_SNAPSHOT" -> "snapshot"
                  [] type = "CONCLUDE_SESSION" -> "session_concluded"
                  [] type = "CLEAN_SHUTDOWN" -> "shutdown_requested"

Markers == {"REQUEST_SNAPSHOT", "CONCLUDE_SESSION", "CLEAN_SHUTDOWN"}

\* Writing a file creates its parent directories.
with_file(d, p, content, t) ==
    [file |-> [d.file EXCEPT ![p] = content], time |-> [d.time EXCEPT ![p] = t],
     dir |-> d.dir \/ p = "d/f", service |-> d.service, programdata |-> d.programdata]

without_file(d, p) ==
    [file |-> [d.file EXCEPT ![p] = 0], time |-> [d.time EXCEPT ![p] = 0],
     dir |-> d.dir, service |-> d.service, programdata |-> d.programdata]

moved(d, source, destination) ==
    IF source = destination THEN d
    ELSE with_file(without_file(d, source), destination, d.file[source], d.time[source])

\* The status of a handler that raises, else SUCCESS.
handler_status(d, c) ==
    CASE c.type = "PLACE_ARTIFACT" /\ c.path = Outside -> "REJECTED"
      [] c.type \in {"MOVE_ARTIFACT", "CHANGE_VISIBLE_METADATA"} /\ d.file[c.path] = 0 -> "FAILED"
      [] OTHER -> "SUCCESS"

\* What a handler leaves on the disk.
effect(d, c) ==
    CASE c.type = "PLACE_ARTIFACT" -> with_file(d, c.path, 1, 0)
      [] c.type = "MOVE_ARTIFACT" -> moved(d, c.path, c.destination)
      [] c.type = "CHANGE_VISIBLE_METADATA" -> [d EXCEPT !.time = [@ EXCEPT ![c.path] = 1]]
      [] c.type = "CREATE_DECOY_DIRECTORY" -> [d EXCEPT !.dir = TRUE]
      [] c.type = "ENABLE_DECOY_SERVICE" -> [d EXCEPT !.service = "PROFILE"]
      [] c.type = "DISABLE_DECOY_SERVICE" -> [d EXCEPT !.service = "OFF"]
      [] c.type \in Markers -> [d EXCEPT !.programdata = @ \cup {Marker(c.type)}]
      [] c.type = "SOFT_RESET" -> [EmptyDisk EXCEPT !.programdata = d.programdata]
      [] c.type = "FULL_REBUILD" ->
           [EmptyDisk EXCEPT !.programdata = d.programdata \ {"session_concluded"}]
      [] c.type = "DISPLAY_MESSAGE" -> d

\* Mutant: the definition of a move repeats it.
move_back_forward(c) == [kind |-> "move_file", path |-> c.path, destination |-> c.destination]

move_back(c) == [kind |-> "move_file", path |-> c.destination, destination |-> c.path]

\* What a handler returns for the journal.
rollback_definition(d, c) ==
    CASE c.type = "PLACE_ARTIFACT" -> [kind |-> "delete_file", path |-> c.path]
      [] c.type \in Markers -> [kind |-> "delete_file", path |-> Outside]
      [] c.type = "MOVE_ARTIFACT" -> move_back(c)
      [] c.type = "CREATE_DECOY_DIRECTORY" -> [kind |-> "delete_directory"]
      [] c.type = "CHANGE_VISIBLE_METADATA" ->
           [kind |-> "restore_metadata", path |-> c.path, prior_state |-> c.prior_state]
      [] c.type = "ENABLE_DECOY_SERVICE" -> [kind |-> "disable_decoy_service"]
      [] c.type = "DISABLE_DECOY_SERVICE" ->
           [kind |-> "enable_decoy_service", prior_state |-> d.service]
      [] OTHER -> [kind |-> "noop"]

\* _apply_rollback_definition; the caller has met the restricted path.  The
\* prior state of a service is enabled as if it were a profile.
apply_rollback_definition(d, r) ==
    CASE r.kind = "delete_file" -> without_file(d, r.path)
      [] r.kind = "delete_directory" -> [without_file(d, "d/f") EXCEPT !.dir = FALSE]
      [] r.kind = "move_file" ->
           IF d.file[r.path] = 0 THEN d ELSE moved(d, r.path, r.destination)
      [] r.kind = "restore_metadata" ->
           IF d.file[r.path] = 0 THEN d
           ELSE [d EXCEPT !.time = [@ EXCEPT ![r.path] = r.prior_state]]
      [] r.kind = "enable_decoy_service" ->
           [d EXCEPT !.service = IF r.prior_state = "OFF" THEN "PROFILE" ELSE "WRAPPED"]
      [] r.kind = "disable_decoy_service" -> [d EXCEPT !.service = "OFF"]
      [] r.kind = "noop" -> d

NoFrame == [id |-> 0]
NoAction == [status |-> "NONE"]
Unsent == [type |-> "NONE"]

\* A frame that comes again carries the command it carried before.
sends(id, c) ==
    /\ command[id] \in {Unsent, c}
    /\ \A i \in 1..(id - 1) : command[i] # Unsent
    /\ command' = [command EXCEPT ![id] = c]

frame_arrives == frame = NoFrame /\ frames < MaxFrames /\ frames' = frames + 1

\* execute_action up to its record: the handler has run.
execute_action(id, c) ==
    LET s == handler_status(disk, c)
        after == IF s = "SUCCESS" THEN effect(disk, c) ELSE disk
    IN  /\ frame_arrives
        /\ sends(id, c)
        /\ disk' = after
        /\ saved' = IF s = "SUCCESS"
                    THEN [saved EXCEPT ![id] = [before |-> disk, after |-> after]] ELSE saved
        /\ frame' = [id |-> id, status |-> s, mark |-> 0,
                     rollback |-> IF s = "SUCCESS" THEN rollback_definition(disk, c)
                                  ELSE [kind |-> "NONE"]]
        /\ UNCHANGED <<action_journal, deaths>>

\* _execute_rollback_action: only a SUCCESS entry is rolled back.  A target
\* that is refused changes nothing, the journal included.
execute_rollback_action(id, target) ==
    LET r == action_journal[target].rollback
        c == [type |-> "ROLLBACK_ACTION", target |-> target]
        fails == r.kind = "delete_file" /\ r.path = Outside
    IN  /\ frame_arrives
        /\ sends(id, c)
        /\ action_journal[target].status = "SUCCESS"
        /\ IF fails
           THEN /\ frame' = [id |-> id, status |-> "FAILED", mark |-> 0,
                             rollback |-> [kind |-> "NONE"]]
                /\ UNCHANGED disk
           ELSE /\ frame' = [id |-> id, status |-> "SUCCESS", mark |-> target,
                             rollback |-> [kind |-> "noop"]]
                /\ disk' = apply_rollback_definition(disk, r)
        /\ UNCHANGED <<action_journal, saved, deaths>>

mark_status(id) == [action_journal[id] EXCEPT !.status = "ROLLED_BACK"]

marks ==
    /\ frame # NoFrame /\ frame.mark # 0
    /\ action_journal' = [action_journal EXCEPT ![frame.mark] = mark_status(frame.mark)]
    /\ frame' = [frame EXCEPT !.mark = 0]
    /\ UNCHANGED <<disk, command, saved, frames, deaths>>

\* INSERT OR REPLACE, and the result frame is sent.
record ==
    /\ frame # NoFrame /\ frame.mark = 0
    /\ action_journal' = [action_journal EXCEPT ![frame.id] =
          [status |-> frame.status, rollback |-> frame.rollback]]
    /\ frame' = NoFrame
    /\ UNCHANGED <<disk, command, saved, frames, deaths>>

controller_dies ==
    /\ frame # NoFrame /\ deaths < MaxDeaths
    /\ deaths' = deaths + 1
    /\ frame' = NoFrame
    /\ UNCHANGED <<disk, action_journal, command, saved, frames>>

ControllerInit ==
    /\ disk = EmptyDisk
    /\ action_journal = [id \in ActionIds |-> NoAction]
    /\ command = [id \in ActionIds |-> Unsent]
    /\ frame = NoFrame
    /\ saved = [id \in ActionIds |-> [before |-> EmptyDisk, after |-> EmptyDisk]]
    /\ frames = 0 /\ deaths = 0

ControllerNext ==
    \/ \E id \in ActionIds, c \in Commands : execute_action(id, c)
    \/ \E id, target \in ActionIds : execute_rollback_action(id, target)
    \/ marks \/ record \/ controller_dies

ControllerSpec == ControllerInit /\ [][ControllerNext]_controllerVars

----------------------------------------------------------------------------

\* An action that found nothing in its place.  Files over files, a directory
\* made on the way, a service that was disabled, a stated prior state that is
\* not the true one, messages and resets are not restored by the code.
reversible(c, before) ==
    CASE c.type = "PLACE_ARTIFACT" -> before.file[c.path] = 0 /\ (c.path = "d/f" => before.dir)
      [] c.type = "MOVE_ARTIFACT" ->
           c.destination = c.path \/ (before.file[c.destination] = 0
                                        /\ (c.destination = "d/f" => before.dir))
      [] c.type = "CREATE_DECOY_DIRECTORY" -> ~before.dir
      [] c.type = "CHANGE_VISIBLE_METADATA" -> c.prior_state = before.time[c.path]
      [] c.type = "ENABLE_DECOY_SERVICE" -> before.service = "OFF"
      [] OTHER -> FALSE

\* Rolling back an action that found nothing in its place, on a disk that has
\* not changed since, restores the disk to what it was before the action
\* (the rollback definitions and _apply_rollback_definition).
UndoRestores ==
    [][\A id, target \in ActionIds :
          (/\ frame # frame' /\ execute_rollback_action(id, target)
           /\ command[target].type # "ROLLBACK_ACTION"
           /\ disk = saved[target].after
           /\ reversible(command[target], saved[target].before))
             => disk' = saved[target].before]_controllerVars

=============================================================================

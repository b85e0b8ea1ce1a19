------------------------ MODULE CheckpointScheduler ------------------------
(***************************************************************************)
(* The memory scheduler that saves itself to a file after every call       *)
(* (src/scheduler/checkpoint/memory.rs, file.rs), a crash of its process   *)
(* and the restart from the file. A call changes the state under its lock  *)
(* and then, without it, takes a checkpoint, writes it to the temporary    *)
(* path and renames that. Clients that share the scheduler (the engine, an *)
(* operator) may be in different calls at once.                            *)
(*                                                                         *)
(* Task ids are unique here; a new process counts from 1 again, which      *)
(* RedisScheduler is about.                                                *)
(***************************************************************************)
EXTENDS MemoryState, FiniteSets

CONSTANTS
    Ids,        \* task ids
    Payloads,   \* payloads of tasks, [priority, depth, ready_at]
    Clients,    \* who calls the scheduler
    FileFails,  \* the file system may fail
    Horizon,    \* bound on the clock
    MaxLease    \* bound on the number of claims

ASSUME CheckpointAssumption ==
    /\ Payloads \subseteq [priority : Int, depth : Nat, ready_at : 0 .. Horizon]
    /\ IsFiniteSet(Clients)
    /\ FileFails \in BOOLEAN
    /\ Horizon \in Nat
    /\ MaxLease \in Nat

VARIABLES
    state,      \* Mutex<State>
    up,         \* the process is running
    now,        \* the clock
    granted,    \* number of leases granted
    held,       \* pairs <<task id, lease>> the clients work under
    call,       \* the call each client is in
    path,       \* the file at the checkpoint path
    temp,       \* the file at the temporary path
    disk,       \* contents of the files
    acked,      \* tasks whose enqueue was answered Ok, not yet completed (history)
    unsaved     \* a save has failed since the last that did not (history)

memoryVars == <<state, granted>>
diskVars == <<path, temp, disk>>
clientVars == <<held, call>>
historyVars == <<acked, unsaved>>
vars == <<memoryVars, up, now, clientVars, diskVars, historyVars>>

(***************************************************************************)
(* A file holds the checkpoints it has pieces of: none when it was just    *)
(* created or truncated, one when it is whole.                             *)
(***************************************************************************)
NoFile == 0

Files == 1 .. Cardinality(Clients) + 2

Idle == [at |-> "idle"]

Init ==
    /\ state = NewState
    /\ up = TRUE
    /\ now = 0
    /\ granted = 0
    /\ held = {}
    /\ call = [c \in Clients |-> Idle]
    /\ path = NoFile
    /\ temp = NoFile
    /\ disk = [f \in Files |-> <<>>]
    /\ acked = {}
    /\ unsaved = FALSE

-----------------------------------------------------------------------------
Tracked == Waiting(state) \cup Inflight(state)

Task(id, payload) ==
    [id |-> id, priority |-> payload.priority, depth |-> payload.depth,
     ready_at |-> payload.ready_at]

\* A call has changed the state. It ends with the claim it makes and the tasks it
\* adds once the checkpoint is saved.
Call(c, new, claim, ids) ==
    /\ up
    /\ call[c] = Idle
    /\ state' = new
    /\ call' = [call EXCEPT ![c] = [at |-> "saving", claim |-> claim, ids |-> ids]]
    /\ UNCHANGED <<up, now, diskVars, unsaved>>

Enqueue(c, id, payload) ==
    /\ id \notin Tracked
    /\ Call(c, PushTask(state, Task(id, payload), now), {}, {id})
    /\ UNCHANGED <<granted, held, acked>>

Claimable == ~state.paused /\ PromoteDelayed(state, now).ready # <<>>

\* The claim is the caller's only when the call returns.
TakeReady(c) ==
    /\ Claimable
    /\ granted < MaxLease
    /\ granted' = granted + 1
    /\ LET task == Head(PromoteDelayed(state, now).ready)
       IN  Call(c, Take(state, granted', now), {<<task.id, granted'>>}, {})
    /\ UNCHANGED <<held, acked>>

\* There is nothing to take, or nothing to close: the checkpoint is saved all the same.
TakeNothing(c) ==
    /\ ~Claimable
    /\ Call(c, state, {}, {})
    /\ UNCHANGED <<granted, held, acked>>

Close(c) ==
    /\ Call(c, state, {}, {})
    /\ UNCHANGED <<granted, held, acked>>

\* complete, complete_and_enqueue with a follow-up, or the task itself again.
Complete(c, id, lease) ==
    /\ <<id, lease>> \in held
    /\ LeaseHolds(state, id, lease)
    /\ \/ Call(c, CompleteAndEnqueue(state, id, <<>>, now), {}, {})
       \/ \E next \in Ids \ (Tracked \ {id}), payload \in Payloads :
             Call(c, CompleteAndEnqueue(state, id, <<Task(next, payload)>>, now), {}, {next})
    /\ held' = held \ {<<id, lease>>}
    /\ acked' = acked \ {id}
    /\ UNCHANGED granted

\* Mutant of RequeueTask: the state is not saved.
RequeueUnsaved(c, id, lease) ==
    /\ up /\ call[c] = Idle
    /\ <<id, lease>> \in held
    /\ LeaseHolds(state, id, lease)
    /\ state' = Requeue(state, id, now)
    /\ held' = held \ {<<id, lease>>}
    /\ UNCHANGED <<granted, acked, up, now, call, diskVars, unsaved>>

RequeueTask(c, id, lease) ==
    /\ <<id, lease>> \in held
    /\ LeaseHolds(state, id, lease)
    /\ Call(c, Requeue(state, id, now), {}, {})
    /\ held' = held \ {<<id, lease>>}
    /\ UNCHANGED <<granted, acked>>

\* A call under a lease that is not in force is refused before anything is saved.
Refused(c, id, lease) ==
    /\ up
    /\ call[c] = Idle
    /\ <<id, lease>> \in held
    /\ ~LeaseHolds(state, id, lease)
    /\ held' = held \ {<<id, lease>>}
    /\ UNCHANGED <<memoryVars, up, now, call, diskVars, historyVars>>

\* release_inflight, release_scope, pause_scope and resume_scope
Operate(c) ==
    /\ \/ Call(c, ReleaseInflight(state, now), {}, {})
       \/ Call(c, ReleaseScope(state, now), {}, {})
       \/ \E paused \in BOOLEAN : Call(c, [state EXCEPT !.paused = paused], {}, {})
    /\ UNCHANGED <<granted, held, acked>>

PurgeScope(c) ==
    /\ Call(c, Purged(state), {}, {})
    /\ acked' = {}
    /\ UNCHANGED <<granted, held>>

-----------------------------------------------------------------------------
\* File::save, one step for each call of the file system.

\* The state is read again: other calls may have changed it since.
TakeCheckpoint(c) ==
    /\ call[c].at = "saving"
    /\ call' = [call EXCEPT ![c] = [at |-> "opening", claim |-> @.claim, ids |-> @.ids,
                                   saved |-> CheckpointOf(state)]]
    /\ UNCHANGED <<memoryVars, up, now, held, diskVars, historyVars>>

InUse == {path, temp} \cup {call[c].file : c \in {d \in Clients : call[d].at = "writing"}}

\* Mutant of OpenTemporary: the checkpoint itself is opened and truncated.
OpenInPlace(c) ==
    /\ call[c].at = "opening"
    /\ temp' = CHOOSE f \in Files : IF path # NoFile THEN f = path ELSE f \notin InUse
    /\ disk' = [disk EXCEPT ![temp'] = <<>>]
    /\ call' = [call EXCEPT ![c] = [at |-> "writing", claim |-> @.claim, ids |-> @.ids,
                                   saved |-> @.saved, file |-> temp']]
    /\ UNCHANGED <<memoryVars, up, now, held, path, historyVars>>

\* The temporary path is created, or truncated if it is there.
OpenTemporary(c) ==
    /\ call[c].at = "opening"
    /\ temp' = IF temp # NoFile THEN temp ELSE CHOOSE f \in Files : f \notin InUse
    /\ disk' = [disk EXCEPT ![temp'] = <<>>]
    /\ call' = [call EXCEPT ![c] = [at |-> "writing", claim |-> @.claim, ids |-> @.ids,
                                   saved |-> @.saved, file |-> temp']]
    /\ UNCHANGED <<memoryVars, up, now, held, path, historyVars>>

\* If another client has written the file since, a shorter checkpoint leaves the end
\* of the other.
Write(c) ==
    /\ call[c].at = "writing"
    /\ LET file == call[c].file
           whole == <<call[c].saved>>
           mixed == IF disk[file] \in {<<>>, whole} THEN {}
                    ELSE {<<call[c].saved, disk[file][1]>>}
       IN  \E content \in {whole} \cup mixed : disk' = [disk EXCEPT ![file] = content]
    /\ call' = [call EXCEPT ![c] = [at |-> "renaming", claim |-> @.claim, ids |-> @.ids]]
    /\ UNCHANGED <<memoryVars, up, now, held, path, temp, historyVars>>

\* The temporary file becomes the checkpoint and the call returns Ok.
Rename(c) ==
    /\ call[c].at = "renaming"
    /\ temp # NoFile
    /\ path' = temp
    /\ temp' = NoFile
    /\ held' = held \cup call[c].claim
    /\ acked' = acked \cup (call[c].ids \cap Tracked)
    /\ unsaved' = FALSE
    /\ call' = [call EXCEPT ![c] = Idle]
    /\ disk' = [f \in Files |-> IF f \in InUse \ {path} THEN disk[f] ELSE <<>>]
    /\ UNCHANGED <<memoryVars, up, now>>

\* The file system fails, or another client has renamed the temporary file: the call
\* returns an error, and what it has done stays done.
SaveFails(c) ==
    /\ call[c].at \in {"opening", "writing", "renaming"}
    /\ \/ FileFails
       \/ call[c].at = "renaming" /\ temp = NoFile
    /\ unsaved' = TRUE
    /\ call' = [call EXCEPT ![c] = Idle]
    /\ UNCHANGED <<memoryVars, up, now, held, diskVars, acked>>

-----------------------------------------------------------------------------
Crash ==
    /\ up
    /\ up' = FALSE
    /\ state' = NewState
    /\ held' = {}
    /\ call' = [c \in Clients |-> Idle]
    /\ UNCHANGED <<granted, now, diskVars, historyVars>>

Readable(f) == Len(disk[f]) = 1

Saved == IF path = NoFile THEN CheckpointOf(NewState) ELSE disk[path][1]

\* Memory::load: without a file the scheduler starts empty; a file that cannot be
\* decoded is an error.
Load ==
    /\ ~up
    /\ path # NoFile => Readable(path)
    /\ up' = TRUE
    /\ state' = FromCheckpoint(Saved)
    /\ unsaved' = FALSE
    /\ UNCHANGED <<granted, now, clientVars, diskVars, acked>>

Tick ==
    /\ now < Horizon
    /\ now' = now + 1
    /\ UNCHANGED <<memoryVars, up, clientVars, diskVars, historyVars>>

ClientStep(c) ==
    \/ \E id \in Ids, payload \in Payloads : Enqueue(c, id, payload)
    \/ TakeReady(c) \/ TakeNothing(c) \/ Close(c) \/ Operate(c) \/ PurgeScope(c)
    \/ \E id \in Ids, lease \in 1 .. granted :
          Complete(c, id, lease) \/ RequeueTask(c, id, lease) \/ Refused(c, id, lease)
    \/ TakeCheckpoint(c) \/ OpenTemporary(c) \/ Write(c) \/ Rename(c) \/ SaveFails(c)

Next == (\E c \in Clients : ClientStep(c)) \/ Crash \/ Load \/ Tick

Spec == Init /\ [][Next]_vars

-----------------------------------------------------------------------------
Tasks == {Task(id, payload) : id \in Ids, payload \in Payloads}

IsTaskSeq(tasks) == \A i \in DOMAIN tasks : tasks[i] \in Tasks

IsCheckpoint(c) ==
    /\ IsTaskSeq(c.ready)
    /\ IsTaskSeq(c.delayed)
    /\ IsTaskSeq(c.inflight)

\* The variables have the types of what they stand for; only a task that has
\* something to wait for is delayed.
TypeOK ==
    /\ IsCheckpoint(CheckpointOf(state))
    /\ \A i \in DOMAIN state.delayed : state.delayed[i].ready_at > 0
    /\ \A i \in DOMAIN state.inflight : state.inflight[i].lease \in 0 .. granted
    /\ state.paused \in BOOLEAN /\ up \in BOOLEAN /\ unsaved \in BOOLEAN
    /\ now \in 0 .. Horizon
    /\ granted \in 0 .. MaxLease
    /\ held \subseteq Ids \X (1 .. granted)
    /\ \A c \in Clients :
          call[c].at \in {"idle", "saving", "opening", "writing", "renaming"}
    /\ path \in Files \cup {NoFile} /\ temp \in Files \cup {NoFile}
    /\ \A f \in Files : \A i \in DOMAIN disk[f] : IsCheckpoint(disk[f][i])
    /\ acked \subseteq Ids

\* Between calls the file has the state as it is, if the last save succeeded: saves do
\* not overtake each other, and no call forgets its own.
SavedWhenIdle ==
    up /\ ~unsaved /\ (\A c \in Clients : call[c] = Idle) => Saved = CheckpointOf(state)

\* A crash at any moment leaves a checkpoint that can be read.
CheckpointIsReadable == path # NoFile => Readable(path)

\* A task whose enqueue was answered Ok is in the file until it is completed, whatever
\* calls, failures and crashes follow: a restart does not lose it.
AcceptedIsSaved ==
    acked \subseteq IdsOf(Saved.ready) \cup IdsOf(Saved.delayed) \cup IdsOf(Saved.inflight)

\* A task has one entry in the three buckets, also in those a restart finds.
OneEntryPerTask ==
    LET once(c) == LET tasks == c.ready \o c.delayed \o c.inflight
                   IN  \A i, j \in DOMAIN tasks : tasks[i].id = tasks[j].id => i = j
    IN  once(CheckpointOf(state)) /\ once(Saved)

\* ready is in the order of claims, and a task passes one that was ready before it
\* only if it is of a better rank.
ReadyInOrder ==
    [][LET queue == state'.ready IN
       \A i, j \in DOMAIN queue :
          i < j => /\ ~Before(queue[j], queue[i])
                   /\ \/ queue[i].id \in IdsOf(state.ready)
                      \/ queue[j].id \notin IdsOf(state.ready)
                      \/ Before(queue[i], queue[j])
                      \/ ~up]_vars

\* What the contract calls running and handed; a lease of 0 is nobody's.
Running ==
    [id \in Inflight(state) |->
        (CHOOSE entry \in ToSet(state.inflight) : entry.task.id = id).lease]

Handed == held \cup UNION {call[c].claim : c \in {d \in Clients : call[d] # Idle}}

TaskPool ==
    INSTANCE TaskPool WITH waiting <- Waiting(state), running <- Running, handed <- Handed

\* Each call is one step the contract of the scheduler allows. A crash goes back to
\* what was saved.
CallsKeepTheContract ==
    [][up /\ up' => [TaskPool!Next]_(TaskPool!vars)]_vars

=============================================================================

----------------------------- MODULE FileStore -----------------------------
(***************************************************************************)
(* store::File (src/store/file.rs): the batches that the runs of an engine *)
(* write, one after the other under the mutex of the store, to files that  *)
(* are full after RotateItems records or RotateBytes bytes. Every call of  *)
(* the file system may fail, and a run may be dropped at each of them: the *)
(* call it waits for then goes on without it and without the mutex. The    *)
(* engine opens the store before its first run writes, and closes it after *)
(* its last.                                                               *)
(***************************************************************************)
EXTENDS Integers, SequencesExt, FiniteSetsExt

CONSTANTS
    Clients,        \* the runs of an engine that write
    Sizes,          \* the sizes of records
    MaxLen,         \* bound on the length of a batch
    RotateItems,    \* rotate_items; 0 turns it off
    RotateBytes,    \* rotate_bytes; 0 turns it off
    MaxBatches,     \* bound on the batches of a client
    MaxFailures     \* bound on the calls that fail or are dropped

ASSUME FileAssumption ==
    /\ Sizes \subseteq Nat \ {0}
    /\ MaxLen \in Nat \ {0}
    /\ RotateItems \in Nat /\ RotateBytes \in Nat
    /\ MaxBatches \in Nat /\ MaxFailures \in Nat

None == "none"

ASSUME NoneAssumption == None \notin Clients

VARIABLES
    state,          \* FileState: the file in use, its counters
    files,          \* files[i]: the records of the file with number i
    lock,           \* the client that holds the mutex
    job,            \* job[c]: the call of a client
    late,           \* the appends of dropped runs that the file system has not done yet
    resets,         \* the files that rotations of dropped runs will yet make, or empty
    written,        \* the records of the batches that were answered Ok, in that order
    emptied,        \* the batches of which a rotation of an earlier crawl emptied a part
    begun,          \* begun[c]: the batches of a client so far
    failures

vars == <<state, files, lock, job, late, resets, written, emptied, begun, failures>>

RotationEnabled == RotateItems > 0 \/ RotateBytes > 0

(***************************************************************************)
(* A record as it is in a file: the batch and its place there, its size,   *)
(* if it is whole, and if the append that wrote it was answered, so that   *)
(* the counters of the state know of it.                                   *)
(***************************************************************************)
Record(c, n, k, size) ==
    [client |-> c, batch |-> n, place |-> k, size |-> size, whole |-> TRUE, counted |-> TRUE]

Total(numbers) ==
    LET upTo[k \in 0 .. Len(numbers)] == IF k = 0 THEN 0 ELSE upTo[k - 1] + numbers[k]
    IN  upTo[Len(numbers)]

Bytes(records) == Total([k \in DOMAIN records |-> records[k].size])

\* file is the number of current_path, index current_index, which a failed rotation has
\* moved on alone.
NewState(opened) ==
    LET first == IF RotationEnabled THEN 1 ELSE 0 IN
    [opened |-> opened, file |-> first, index |-> first, items |-> 0, bytes |-> 0]

\* initialize_state: the files of an earlier crawl are gone.
Fresh == [i \in {NewState(TRUE).file} |-> <<>>]

Idle == [at |-> "idle", records |-> <<>>, left |-> <<>>, buffer |-> <<>>]

Init ==
    /\ state = NewState(TRUE)
    /\ files = Fresh
    /\ lock = None
    /\ job = [c \in Clients |-> Idle]
    /\ late = {}
    /\ resets = {}
    /\ written = <<>>
    /\ emptied = {}
    /\ begun = [c \in Clients |-> 0]
    /\ failures = 0

At(c, at) == job[c].at = at

\* batch_write, and write with a batch of one.
BatchWrite(c) ==
    /\ At(c, "idle")
    /\ state.opened
    /\ begun[c] < MaxBatches
    /\ begun' = [begun EXCEPT ![c] = @ + 1]
    /\ \E len \in 1 .. MaxLen, sizes \in [1 .. MaxLen -> Sizes] :
          LET records == [k \in 1 .. len |-> Record(c, begun'[c], k, sizes[k])] IN
          job' = [job EXCEPT ![c] = [at |-> "waiting", records |-> records, left |-> records,
                                     buffer |-> <<>>]]
    /\ UNCHANGED <<state, files, lock, late, resets, written, emptied, failures>>

\* ensure_opened finds the store open.
Lock(c) ==
    /\ At(c, "waiting")
    /\ lock = None
    /\ lock' = c
    /\ job' = [job EXCEPT ![c].at = "loop"]
    /\ UNCHANGED <<state, files, late, resets, written, emptied, begun, failures>>

-----------------------------------------------------------------------------
\* Mutant of ShouldRotate: the records in the buffer are not counted.
ShouldRotateOnWritten(items, bytes, buffer, record) ==
    /\ items + bytes > 0
    /\ \/ RotateItems > 0 /\ items + 1 > RotateItems
       \/ RotateBytes > 0 /\ bytes + record.size > RotateBytes

ShouldRotate(items, bytes, buffer, record) ==
    /\ items + Len(buffer) + bytes + Bytes(buffer) > 0
    /\ \/ RotateItems > 0 /\ items + Len(buffer) + 1 > RotateItems
       \/ RotateBytes > 0 /\ bytes + Bytes(buffer) + record.size > RotateBytes

\* One round of the loop of append_items, or its end.
Next1(c) ==
    /\ At(c, "loop")
    /\ LET left == job[c].left
           flush == \/ left = <<>>
                    \/ ShouldRotate(state.items, state.bytes, job[c].buffer, Head(left))
       IN  IF flush THEN job' = [job EXCEPT ![c].at = "flush"]
           ELSE job' = [job EXCEPT ![c].buffer = Append(@, Head(left)), ![c].left = Tail(left)]
    /\ UNCHANGED <<state, files, lock, late, resets, written, emptied, begun, failures>>

Release(c) == lock' = None /\ job' = [job EXCEPT ![c] = Idle]

In(contents, i) == IF i \in DOMAIN contents THEN contents[i] ELSE <<>>

\* append_to_path, which makes a file that is not there.
AppendTo(file, records) ==
    [i \in DOMAIN files \cup {file} |->
        In(files, i) \o (IF i = file THEN records ELSE <<>>)]

\* Mutant of Flush: the buffer keeps what it has written.
FlushKeepsBuffer(c) ==
    /\ At(c, "flush")
    /\ files' = AppendTo(state.file, job[c].buffer)
    /\ state' = [state EXCEPT !.items = @ + Len(job[c].buffer),
                              !.bytes = @ + Bytes(job[c].buffer)]
    /\ IF job[c].left = <<>>
       THEN Release(c) /\ written' = written \o job[c].records
       ELSE /\ job' = [job EXCEPT ![c].at = "rotate"]
            /\ UNCHANGED <<lock, written>>
    /\ UNCHANGED <<late, resets, emptied, begun, failures>>

\* flush_buffer, before a rotation or at the end of the batch.
Flush(c) ==
    /\ At(c, "flush")
    /\ files' = AppendTo(state.file, job[c].buffer)
    /\ state' = [state EXCEPT !.items = @ + Len(job[c].buffer),
                              !.bytes = @ + Bytes(job[c].buffer)]
    /\ IF job[c].left = <<>>
       THEN Release(c) /\ written' = written \o job[c].records
       ELSE /\ job' = [job EXCEPT ![c].at = "rotate", ![c].buffer = <<>>]
            /\ UNCHANGED <<lock, written>>
    /\ UNCHANGED <<late, resets, emptied, begun, failures>>

Rotate(c) ==
    /\ At(c, "rotate")
    /\ LET next == state.index + 1 IN
       /\ state' = [state EXCEPT !.index = next, !.file = next, !.items = 0, !.bytes = 0]
       /\ files' = [i \in DOMAIN files \cup {next} |-> IF i = next THEN <<>> ELSE files[i]]
    /\ job' = [job EXCEPT ![c].at = "loop"]
    /\ UNCHANGED <<lock, late, resets, written, emptied, begun, failures>>

-----------------------------------------------------------------------------
Fail == failures < MaxFailures /\ failures' = failures + 1

\* What an append that failed leaves: some records, the last of them perhaps in part.
Remains(buffer, n, whole) ==
    [k \in 1 .. n |-> [buffer[k] EXCEPT !.counted = FALSE, !.whole = k < n \/ whole]]

FlushFails(c) ==
    /\ At(c, "flush")
    /\ job[c].buffer # <<>>
    /\ Fail
    /\ \E n \in 0 .. Len(job[c].buffer), whole \in BOOLEAN :
          files' = AppendTo(state.file, Remains(job[c].buffer, n, whole))
    /\ Release(c)
    /\ UNCHANGED <<state, late, resets, written, emptied, begun>>

\* The run is dropped as it waits for its append.
FlushDropped(c) ==
    /\ At(c, "flush")
    /\ Fail
    /\ \E n \in 1 .. Len(job[c].buffer), whole \in BOOLEAN :
          late' = late \cup {[file |-> state.file, records |-> Remains(job[c].buffer, n, whole)]}
    /\ Release(c)
    /\ UNCHANGED <<state, files, resets, written, emptied, begun>>

Land ==
    /\ \E append \in late :
          /\ files' = AppendTo(append.file, append.records)
          /\ late' = late \ {append}
    /\ UNCHANGED <<state, lock, job, resets, written, emptied, begun, failures>>

\* The index has moved on, the file has not.
RotateFails(c) ==
    /\ At(c, "rotate")
    /\ Fail
    /\ state' = [state EXCEPT !.index = @ + 1]
    /\ Release(c)
    /\ UNCHANGED <<files, late, resets, written, emptied, begun>>

Batch(r) == <<r.client, r.batch>>

\* The run is dropped as it waits for its tokio::fs::write of the next file. The file
\* system does it all the same, perhaps not before another crawl has begun.
ResetLater(c, index) ==
    /\ At(c, "rotate")
    /\ Fail
    /\ state' = [state EXCEPT !.index = index]
    /\ resets' = resets \cup {[by |-> <<c, begun[c]>>, file |-> state.index + 1, old |-> FALSE]}
    /\ Release(c)
    /\ UNCHANGED <<files, late, written, emptied, begun>>

\* Mutant of RotateDropped: the index moves on when the file is there.
RotateDroppedKeepsIndex(c) == ResetLater(c, state.index)

RotateDropped(c) == ResetLater(c, state.index + 1)

Reset ==
    /\ \E reset \in resets :
          /\ resets' = resets \ {reset}
          /\ files' = [i \in DOMAIN files \cup {reset.file} |->
                          IF i = reset.file THEN <<>> ELSE files[i]]
          /\ emptied' = IF reset.old
                        THEN emptied \cup {Batch(r) : r \in Range(In(files, reset.file))}
                        ELSE emptied
    /\ UNCHANGED <<state, lock, job, late, written, begun, failures>>

\* The run is dropped as it waits for the mutex.
Drop(c) ==
    /\ At(c, "waiting")
    /\ Fail
    /\ job' = [job EXCEPT ![c] = Idle]
    /\ UNCHANGED <<state, files, lock, late, resets, written, emptied, begun>>

\* The engine closes the store at the end of a crawl.
Close ==
    /\ lock = None
    /\ \A c \in Clients : At(c, "idle")
    /\ state.opened
    /\ state' = NewState(FALSE)
    /\ UNCHANGED <<files, lock, job, late, resets, written, emptied, begun, failures>>

\* The next crawl opens it, and begins anew.
Open ==
    /\ ~state.opened
    /\ lock = None
    /\ \A c \in Clients : At(c, "idle")
    /\ state' = NewState(TRUE)
    /\ files' = Fresh
    /\ written' = <<>>
    /\ emptied' = {}
    /\ resets' = {[reset EXCEPT !.old = TRUE] : reset \in resets}
    /\ UNCHANGED <<lock, job, late, begun, failures>>

Next ==
    \/ \E c \in Clients :
          \/ BatchWrite(c) \/ Lock(c) \/ Next1(c) \/ Flush(c) \/ Rotate(c)
          \/ FlushFails(c) \/ FlushDropped(c) \/ RotateFails(c) \/ RotateDropped(c) \/ Drop(c)
    \/ Land \/ Reset \/ Close \/ Open

Spec == Init /\ [][Next]_vars

-----------------------------------------------------------------------------
\* The records of some batches, in a file, and in some files in the order of these.
Of(records, batches) ==
    FlattenSeq([k \in DOMAIN records |->
        IF Batch(records[k]) \in batches THEN <<records[k]>> ELSE <<>>])

Stored(contents, batches) ==
    FlattenSeq([i \in 1 .. Max(DOMAIN contents) + 1 |-> Of(In(contents, i - 1), batches)])

Answered == {Batch(written[k]) : k \in DOMAIN written}
Kept == Answered \ emptied

(***************************************************************************)
(* A batch that was answered Ok (batch_write, store/file.rs:273-275) is in *)
(* the files, every record of it whole and once, and the records of all    *)
(* such batches are there in the order of the answers, unless a rotation   *)
(* of an earlier crawl, whose run was dropped as it made its file          *)
(* (store/file.rs:174), has emptied the file since: one of the same crawl  *)
(* never does, as the index is past that file (171). A record has its line *)
(* to itself, unless it follows the part of a record that an append which  *)
(* was not answered Ok has left without its newline (297-302): then no     *)
(* reader can tell the two apart.                                          *)
(***************************************************************************)
WrittenIsStored ==
    /\ Stored(files, Kept) = Of(written, Kept)
    /\ \A i \in DOMAIN files : \A k \in DOMAIN files[i] :
          k > 1 /\ Batch(files[i][k]) \in Kept =>
              files[i][k - 1].whole \/ Batch(files[i][k - 1]) \notin Answered

\* What the answered appends have left in a file.
CountedItems(records) ==
    Total([k \in DOMAIN records |-> IF records[k].counted THEN 1 ELSE 0])

CountedBytes(records) ==
    Total([k \in DOMAIN records |-> IF records[k].counted THEN records[k].size ELSE 0])

(***************************************************************************)
(* should_rotate (store/file.rs:138-168): of the records that calls were   *)
(* answered for, no file holds more than RotateItems, nor more than        *)
(* RotateBytes bytes unless it is one record, however batches of several   *)
(* runs follow each other and wherever a rotation or an append failed.     *)
(***************************************************************************)
FilesWithinLimits ==
    \A i \in DOMAIN files :
        /\ RotateItems > 0 => CountedItems(files[i]) <= RotateItems
        /\ RotateBytes > 0 /\ CountedItems(files[i]) > 1 => CountedBytes(files[i]) <= RotateBytes

=============================================================================

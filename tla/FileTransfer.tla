---------------------------- MODULE FileTransfer ----------------------------
(***************************************************************************)
(* File transfers of okvm-files: FileSender::send_paths and its parallel   *)
(* tasks on the sending devices, FileReceiver::on_message on the device    *)
(* that receives, fed by one inbound task per session.  A session delivers *)
(* the messages of a transfer in order until it ends, when a part of what  *)
(* is under way is lost (SessionTasks).                                    *)
(*                                                                         *)
(* The content of a file is a sequence of units; a chunk holds up to       *)
(* ChunkUnits of them, so that files end within a chunk or at its end, and *)
(* BLAKE3 is the sequence it was computed over.  A path is a sequence of   *)
(* components.  Chunks arrive as they were sent: sessions authenticate     *)
(* them, the CRC check always passes.                                      *)
(***************************************************************************)
EXTENDS Integers, Sequences, FiniteSets, SequencesExt

CONSTANTS Transfers,   \* calls of send_files
          Sessions,
          SessionOf,   \* transfer -> the session it is sent over
          Offer,       \* transfer -> the paths the user offers
          Children,    \* directory -> the paths in it
          Content,     \* transfer -> file -> units on the disk of its sender
          ChunkUnits,  \* chunk_kib
          Threads,     \* FileSender::threads
          Absent,      \* no file at a path
          ChanCap,     \* bound: messages between sender and receiver
          MaxFaults    \* bound: failing calls, edited files, cut sessions, cancels

ASSUME SizesAssumption == {ChunkUnits, Threads, ChanCap} \subseteq Nat \ {0} /\ MaxFaults \in Nat
ASSUME SessionAssumption == SessionOf \in [Transfers -> Sessions]

None == "none"
Zero == "zero"
Edited == "edit"

\* The units of files: those offered, those of set_len, those of another program.
Units == {Zero, Edited} \cup
         UNION {UNION {ToSet(Content[t][f]) : f \in DOMAIN Content[t]} : t \in Transfers}

ASSUME ContentAssumption ==
  /\ DOMAIN Content = Transfers
  /\ \A t \in Transfers : \A f \in DOMAIN Content[t] : Content[t][f] \in Seq(Units)
ASSUME AbsentAssumption == Absent \notin Seq(Units)

VARIABLES source,    \* transfer -> file -> units on the disk of its sender
          snd,       \* transfer -> [phase, entries, next] of send_paths
          task,      \* transfer -> file_idx -> [st, off, hash] of send_one_file
          chan,      \* session -> messages under way, the one being handled first
          up,        \* sessions that are up
          transfers, \* the receiver's table: transfer -> file_idx -> slot
          disk,      \* destination path -> units, or Absent
          outcome,   \* transfer -> file_idx -> what the receiver logged
          refused,   \* history: transfers whose start failed or which are cancelled
          spoiled,   \* history: files with a failed write or a second writer
          faults

senderVars == <<source, snd, task>>
recvVars == <<transfers, disk, outcome, refused, spoiled>>
vars == <<senderVars, chan, up, recvVars, faults>>

Smaller(a, b) == IF a < b THEN a ELSE b

\* Components of a path that validate_rel_path refuses; "cur" it leaves out.
Forbidden == {"root", "prefix", "up", "colon"}
Valid(path) == \A i \in 1 .. Len(path) : path[i] \notin Forbidden
Clean(path) == SelectSeq(path, LAMBDA c : c # "cur")

Files == UNION {DOMAIN Content[t] : t \in Transfers}
Destinations == {Clean(f) : f \in Files}

\* walk: a directory with the path below the parent of the offer, then what is in
\* it; a file with the path it is read from.
WalkFrom(base) ==
  LET walk[p \in Files \cup DOMAIN Children] ==
        IF p \in DOMAIN Children
        THEN <<[path |-> SubSeq(p, Len(base) + 1, Len(p)), dir |-> TRUE]>>
             \o FlattenSeq([i \in 1 .. Len(Children[p]) |-> walk[Children[p][i]]])
        ELSE <<[path |-> p, dir |-> FALSE]>>
  IN  walk

Walked(t) == FlattenSeq([i \in 1 .. Len(Offer[t]) |->
               LET p == Offer[t][i] IN WalkFrom(SubSeq(p, 1, Len(p) - 1))[p]])

\* What is offered exists: a walk is finite, and every file it finds has a content.
ASSUME WalkAssumption ==
  \A t \in Transfers :
    /\ Walked(t) \in Seq([path : Seq(STRING), dir : BOOLEAN])
    /\ \A i \in DOMAIN Walked(t) : ~Walked(t)[i].dir => Walked(t)[i].path \in DOMAIN Content[t]

\* What send_paths announces, with the sizes of this moment.
Entries(t) ==
  [i \in DOMAIN Walked(t) |->
     LET w == Walked(t)[i]
     IN  [path |-> w.path, dir |-> w.dir, size |-> IF w.dir THEN 0 ELSE Len(source[t][w.path])]]

Idx(t) == {i \in DOMAIN snd[t].entries : ~snd[t].entries[i].dir}

\* Mutant: a task that fails keeps its permit.
RunningOrFailed(t) == {i \in DOMAIN task[t] : task[t][i].st \in {"run", "last", "failed"}}

\* The tasks that hold a permit.
Running(t) == {i \in DOMAIN task[t] : task[t][i].st \in {"run", "last"}}

\* A send waits for room in the channel.
Push(s, m) == /\ s \in up /\ Len(chan[s]) < ChanCap
              /\ chan' = [chan EXCEPT ![s] = Append(@, m)]

\* What send_paths announces of a file or directory, and the messages of the channel.
FileEntry == [path : Seq(STRING), dir : BOOLEAN, size : Nat]
FileMessage == [kind : {"start"}, t : Transfers, files : Seq(FileEntry)]
               \cup [kind : {"chunk"}, t : Transfers, i : Nat, off : Nat, data : Seq(Units)]
               \cup [kind : {"complete"}, t : Transfers, i : Nat, hash : Seq(Units)]
               \cup [kind : {"cancel"}, t : Transfers]

\* The receiver's state of a file; closed from when complete has taken it to the verdict.
FileSlot == [dest : Destinations, hash : Seq(Units), expected : Nat, received : Nat,
             open : BOOLEAN]

Init ==
  /\ source = Content
  /\ snd = [t \in Transfers |-> [phase |-> "idle", entries |-> <<>>, next |-> 1]]
  /\ task = [t \in Transfers |-> <<>>]
  /\ chan = [s \in Sessions |-> <<>>]
  /\ up = Sessions
  /\ transfers = [t \in {} |-> None]
  /\ disk = [p \in Destinations |-> Absent]
  /\ outcome = [t \in Transfers |-> <<>>]
  /\ refused = {}
  /\ spoiled = {}
  /\ faults = 0

Fault == /\ faults < MaxFaults
         /\ faults' = faults + 1

-----------------------------------------------------------------------------
(* The sender.                                                             *)

SetPhase(t, ph) == snd' = [snd EXCEPT ![t].phase = ph]

\* The command send_files, with a session to the device; the files are enumerated.
SendFiles(t) ==
  LET es == Entries(t)
  IN  /\ snd[t].phase = "idle"
      /\ SessionOf[t] \in up
      /\ snd' = [snd EXCEPT ![t].phase = IF es = <<>> THEN "failed" ELSE "start",
                            ![t].entries = es]
      /\ task' = [task EXCEPT ![t] = [i \in DOMAIN es |-> [st |-> None, off |-> 0, hash |-> <<>>]]]
      /\ outcome' = [outcome EXCEPT ![t] = [i \in DOMAIN es |-> None]]
      /\ UNCHANGED <<source, chan, up, transfers, disk, refused, spoiled, faults>>

\* Mutant: the tasks are spawned before the start is queued.
SendStartLater(t) ==
  \/ /\ snd[t].phase = "start" /\ SetPhase(t, "spawn")
     /\ UNCHANGED <<source, task, chan, up, recvVars, faults>>
  \/ /\ snd[t].phase = "wait"
     /\ Push(SessionOf[t], [kind |-> "start", t |-> t, files |-> snd[t].entries])
     /\ UNCHANGED <<source, snd, task, up, recvVars, faults>>

SendStart(t) ==
  /\ snd[t].phase = "start"
  /\ Push(SessionOf[t], [kind |-> "start", t |-> t, files |-> snd[t].entries])
  /\ SetPhase(t, "spawn")
  /\ UNCHANGED <<source, task, up, recvVars, faults>>

\* send_paths fails: a path that cannot be read, or no session for the start.
SendFails(t) ==
  /\ \/ snd[t].phase = "idle" /\ Fault
     \/ snd[t].phase = "start" /\ SessionOf[t] \notin up /\ UNCHANGED faults
  /\ SetPhase(t, "failed")
  /\ UNCHANGED <<source, task, chan, up, recvVars>>

\* The next file gets a task as soon as there is a permit; a directory gets none.
Spawn(t) ==
  LET i == snd[t].next
  IN  /\ snd[t].phase = "spawn"
      /\ IF i > Len(snd[t].entries)
         THEN SetPhase(t, "wait") /\ UNCHANGED task
         ELSE /\ snd' = [snd EXCEPT ![t].next = i + 1]
              /\ IF snd[t].entries[i].dir THEN UNCHANGED task
                 ELSE /\ Cardinality(Running(t)) < Threads
                      /\ task' = [task EXCEPT ![t][i].st = "run"]
      /\ UNCHANGED <<source, chan, up, recvVars, faults>>

\* Mutant: send_paths returns once the last file has its task.
FinishEarly(t) ==
  /\ snd[t].phase = "wait"
  /\ SetPhase(t, "done")
  /\ UNCHANGED <<source, task, chan, up, recvVars, faults>>

\* send_paths has all the permits back: it reports 100 % and its caller success.
Finish(t) ==
  /\ snd[t].phase = "wait"
  /\ Running(t) = {}
  /\ SetPhase(t, "done")
  /\ UNCHANGED <<source, task, chan, up, recvVars, faults>>

\* What the next read of task i of t returns.
ReadAt(t, i) ==
  LET f == source[t][snd[t].entries[i].path]
      o == task[t][i].off
  IN  SubSeq(f, o + 1, Smaller(Len(f), o + ChunkUnits))

IsLast(t, i, n) == n < ChunkUnits \/ task[t][i].off + n >= snd[t].entries[i].size

SendChunk(t, i) ==
  LET data == ReadAt(t, i)
      n == Len(data)
  IN  /\ task[t][i].st = "run"
      /\ n > 0
      /\ Push(SessionOf[t], [kind |-> "chunk", t |-> t, i |-> i, off |-> task[t][i].off,
                             data |-> data])
      /\ task' = [task EXCEPT ![t][i] = [st |-> IF IsLast(t, i, n) THEN "last" ELSE "run",
                                         off |-> @.off + n,
                                         hash |-> @.hash \o data]]
      /\ UNCHANGED <<source, snd, up, recvVars, faults>>

\* After the last chunk, or at the end of the file (at once for an empty one).
SendComplete(t, i) ==
  /\ task[t][i].st = "last" \/ (task[t][i].st = "run" /\ ReadAt(t, i) = <<>>)
  /\ Push(SessionOf[t], [kind |-> "complete", t |-> t, i |-> i, hash |-> task[t][i].hash])
  /\ task' = [task EXCEPT ![t][i].st = "sent"]
  /\ UNCHANGED <<source, snd, up, recvVars, faults>>

\* Opening or reading fails, or the session has gone: the task only logs it.
TaskFails(t, i) ==
  /\ i \in Running(t)
  /\ IF SessionOf[t] \in up THEN Fault ELSE UNCHANGED faults
  /\ task' = [task EXCEPT ![t][i].st = "failed"]
  /\ UNCHANGED <<source, snd, chan, up, recvVars>>

-----------------------------------------------------------------------------
(* What happens meanwhile.                                                 *)

\* The table without the files that complete has taken for a transfer of the session.
Unjudged(s) ==
  [t \in DOMAIN transfers |->
     IF SessionOf[t] # s THEN transfers[t]
     ELSE [i \in {j \in DOMAIN transfers[t] : transfers[t][j].open} |-> transfers[t][i]]]

\* Another program appends to a file that is offered, truncates or rewrites it.
Edit(t, p) ==
  /\ Fault
  /\ \/ source' = [source EXCEPT ![t][p] = Append(@, Edited)]
     \/ source[t][p] # <<>> /\ source' = [source EXCEPT ![t][p] = Front(@)]
     \/ source[t][p] # <<>> /\ source' = [source EXCEPT ![t][p] = [k \in DOMAIN @ |-> Edited]]
  /\ UNCHANGED <<snd, task, chan, up, recvVars>>

\* A session ends: the receiver still gets a part of what is under way.  When its task
\* is aborted it gets nothing more, and a file it was about to judge has no verdict.
CutSession(s) ==
  /\ s \in up
  /\ Fault
  /\ up' = up \ {s}
  /\ \E k \in 0 .. Len(chan[s]) :
       /\ chan' = [chan EXCEPT ![s] = SubSeq(@, 1, k)]
       /\ transfers' = IF k = 0 THEN Unjudged(s) ELSE transfers
  /\ UNCHANGED <<senderVars, disk, outcome, refused, spoiled>>

\* The sending device cancels: the protocol has the message, this program never
\* sends it.
SendCancel(t) ==
  /\ snd[t].phase \in {"spawn", "wait"}
  /\ Fault
  /\ Push(SessionOf[t], [kind |-> "cancel", t |-> t])
  /\ UNCHANGED <<senderVars, up, recvVars>>

-----------------------------------------------------------------------------
(* The receiver.  The messages of a session are handled one at a time, and *)
(* a transfer is only met in its session; the files may be shared.  What a *)
(* task does with one file between two awaits is one step; the await of    *)
(* complete, after which a file may be removed, ends one.                  *)

Take(s) == chan' = [chan EXCEPT ![s] = Tail(@)]
HasSlot(t, i) == t \in DOMAIN transfers /\ i \in DOMAIN transfers[t]
Log(t, i, what) == outcome' = [outcome EXCEPT ![t][i] = what]

\* Files with a slot on the path, open or about to be judged.
Writers(path) == UNION {{<<t, i>> : i \in {j \in DOMAIN transfers[t] : transfers[t][j].dest = path}} :
                          t \in DOMAIN transfers}

\* The paths of the first k entries are accepted.
Accepts(m, k) == \A i \in 1 .. k : Valid(m.files[i].path)

\* start: the entries one by one up to the first that is refused or fails; the
\* files before it are created, or emptied, all the same.
OnStart(m, k) ==
  LET wanted == {i \in 1 .. k : ~m.files[i].dir}
      dest(i) == Clean(m.files[i].path)
      opened == {dest(i) : i \in wanted}
      shared == {i \in wanted : Writers(dest(i)) # {} \/ \E j \in wanted : j # i /\ dest(j) = dest(i)}
  IN  /\ \E last \in [opened -> wanted] :
           /\ \A p \in opened : /\ dest(last[p]) = p
                               /\ \A j \in wanted : dest(j) = p => j <= last[p]
           /\ disk' = [p \in DOMAIN disk |-> IF p \in opened
                                             THEN [u \in 1 .. m.files[last[p]].size |-> Zero]
                                             ELSE disk[p]]
      /\ spoiled' = spoiled \cup {<<m.t, i>> : i \in shared}
                            \cup UNION {Writers(p) : p \in opened}
      /\ IF k = Len(m.files)
         THEN /\ transfers' = [t \in DOMAIN transfers \cup {m.t} |->
                                 IF t # m.t THEN transfers[t]
                                 ELSE [i \in wanted |-> [dest |-> dest(i), hash |-> <<>>,
                                         expected |-> m.files[i].size, received |-> 0, open |-> TRUE]]]
              /\ UNCHANGED refused
         ELSE refused' = refused \cup {m.t} /\ UNCHANGED transfers
      /\ UNCHANGED outcome

\* Mutant: the file is opened for appending, the offset is not used.
Appended(old, off, data) == IF old = Absent THEN Absent ELSE old \o data

\* The units of a file after data was written at an offset.
Written(old, off, data) ==
  IF old = Absent THEN Absent
  ELSE [u \in 1 .. (IF off + Len(data) > Len(old) THEN off + Len(data) ELSE Len(old)) |->
          IF u > off /\ u <= off + Len(data) THEN data[u - off]
          ELSE IF u <= Len(old) THEN old[u] ELSE Zero]

\* write_chunk: counted and hashed first, then written, which may fail.
OnChunk(m, written) ==
  LET s == transfers[m.t][m.i]
  IN  /\ IF ~HasSlot(m.t, m.i) THEN UNCHANGED <<transfers, disk, spoiled>>
         ELSE /\ transfers' = [transfers EXCEPT ![m.t][m.i] =
                                [s EXCEPT !.hash = @ \o m.data, !.received = @ + Len(m.data)]]
              /\ disk' = IF written THEN [disk EXCEPT ![s.dest] = Written(@, m.off, m.data)]
                         ELSE disk
              /\ spoiled' = IF written THEN spoiled ELSE spoiled \cup {<<m.t, m.i>>}
      /\ UNCHANGED <<outcome, refused>>

\* The verdict of complete, of the slot it has taken and the hash in the message.
Verdict(s, m) == IF s.received < s.expected THEN "incomplete"
                 ELSE IF s.hash # m.hash THEN "mismatch" ELSE "verified"

\* complete takes the slot under the table's lock, then waits for the file.
CloseFile(s) ==
  /\ chan[s] # <<>>
  /\ LET m == Head(chan[s])
     IN  /\ m.kind = "complete" /\ HasSlot(m.t, m.i) /\ transfers[m.t][m.i].open
         /\ transfers' = [transfers EXCEPT ![m.t][m.i].open = FALSE]
  /\ UNCHANGED <<senderVars, chan, up, disk, outcome, refused, spoiled, faults>>

\* It flushes, which may fail and leaves no verdict, then compares size and hash: a file
\* that does not match is removed, whoever writes to it by now.
OnComplete(m, flushed) ==
  LET s == transfers[m.t][m.i]
      what == IF flushed THEN Verdict(s, m) ELSE "unflushed"
  IN  IF ~HasSlot(m.t, m.i) THEN Log(m.t, m.i, "unknown") /\ UNCHANGED <<transfers, disk, refused, spoiled>>
      ELSE /\ ~s.open
           /\ transfers' = [transfers EXCEPT ![m.t] = [j \in DOMAIN @ \ {m.i} |-> @[j]]]
           /\ Log(m.t, m.i, what)
           /\ disk' = IF what = "mismatch" THEN [disk EXCEPT ![s.dest] = Absent] ELSE disk
           /\ UNCHANGED <<refused, spoiled>>

OnCancel(m) ==
  /\ transfers' = [t \in DOMAIN transfers \ {m.t} |-> transfers[t]]
  /\ refused' = refused \cup {m.t}
  /\ UNCHANGED <<disk, outcome, spoiled>>

OnMessage(s) ==
  /\ chan[s] # <<>>
  /\ Take(s)
  /\ LET m == Head(chan[s])
     IN  \/ /\ m.kind = "start"
            /\ \E k \in 0 .. Len(m.files) :   \* to the end, or the first path refused
                 /\ Accepts(m, k) /\ (k < Len(m.files) => ~Accepts(m, k + 1))
                 /\ OnStart(m, k)
            /\ UNCHANGED faults
         \/ /\ m.kind = "start" /\ Fault
            /\ \E k \in 0 .. Len(m.files) - 1 : \* file k + 1 cannot be created
                 Accepts(m, k + 1) /\ OnStart(m, k)
         \/ m.kind = "chunk" /\ OnChunk(m, TRUE) /\ UNCHANGED faults
         \/ m.kind = "chunk" /\ HasSlot(m.t, m.i) /\ Fault /\ OnChunk(m, FALSE)
         \/ m.kind = "complete" /\ OnComplete(m, TRUE) /\ UNCHANGED faults
         \/ m.kind = "complete" /\ HasSlot(m.t, m.i) /\ Fault /\ OnComplete(m, FALSE)
         \/ m.kind = "cancel" /\ OnCancel(m) /\ UNCHANGED faults
  /\ UNCHANGED <<senderVars, up>>

-----------------------------------------------------------------------------
Next ==
  \/ \E t \in Transfers :
       \/ SendFiles(t) \/ SendStart(t) \/ SendFails(t) \/ Spawn(t) \/ Finish(t) \/ SendCancel(t)
       \/ \E i \in Idx(t) : SendChunk(t, i) \/ SendComplete(t, i) \/ TaskFails(t, i)
       \/ \E p \in DOMAIN source[t] : Edit(t, p)
  \/ \E s \in Sessions : CloseFile(s) \/ OnMessage(s) \/ CutSession(s)

\* What runs by itself: send_paths and its tasks, the inbound task of a session.
SenderStep(t) ==
  \/ SendStart(t) \/ Spawn(t) \/ Finish(t)
  \/ SessionOf[t] \notin up /\ SendFails(t)
  \/ \E i \in Idx(t) : \/ SendChunk(t, i) \/ SendComplete(t, i)
                       \/ SessionOf[t] \notin up /\ TaskFails(t, i)

Spec == /\ Init /\ [][Next]_vars
        /\ \A t \in Transfers : WF_vars(SenderStep(t))
        /\ \A s \in Sessions : WF_vars(CloseFile(s) \/ OnMessage(s))

-----------------------------------------------------------------------------
TypeOK ==
  /\ \A t \in Transfers :
       /\ snd[t].phase \in {"idle", "start", "spawn", "wait", "done", "failed"}
       /\ \A i \in DOMAIN task[t] : task[t][i].st \in {None, "run", "last", "sent", "failed"}
       /\ \A i \in DOMAIN outcome[t] :
            outcome[t][i] \in {None, "unknown", "unflushed", "incomplete", "mismatch", "verified"}
  /\ \A s \in Sessions : chan[s] \in Seq(FileMessage) /\ Len(chan[s]) <= ChanCap
  /\ disk \in [Destinations -> Seq(Units) \cup {Absent}]
  /\ DOMAIN transfers \subseteq Transfers
  /\ \A t \in DOMAIN transfers : \A i \in DOMAIN transfers[t] : transfers[t][i] \in FileSlot
  /\ refused \subseteq Transfers
  /\ faults \in 0 .. MaxFaults

\* send_paths starts the parallel tasks after the start, each sends its chunks and
\* then its TransferComplete: no message meets a receiver that does not know its file,
\* unless the start was refused or the transfer cancelled (sender.rs send_paths and
\* send_one_file, receiver.rs write_chunk "file_idx inconnu").
MessagesFindTheirSlot ==
  \A s \in Sessions : \A k \in 1 .. Len(chan[s]) :
    LET m == chan[s][k]
        before(kind) == \E j \in 1 .. k - 1 : chan[s][j].t = m.t /\ chan[s][j].kind = kind
    IN  m.kind \in {"chunk", "complete"} =>
          /\ m.t \in refused \/ before("start") \/ HasSlot(m.t, m.i)
          /\ \A j \in 1 .. k - 1 : chan[s][j].t = m.t /\ chan[s][j].kind = "complete"
                                      => chan[s][j].i # m.i

\* The session's channel keeps its capacity, the receiver's slots their shape, and the
\* messages of a transfer come in the order send_paths promises.
Inv == TypeOK /\ MessagesFindTheirSlot

\* A file the receiver logs as verified holds on its disk what the sender's task read
\* and hashed, at the right offsets, however the files and transfers are interleaved
\* and edited, unless a write to it failed or another transfer opened it before the
\* verdict (receiver.rs write_chunk and complete).
VerifiedOnDisk ==
  [][\A t \in Transfers : \A i \in DOMAIN outcome[t] :
       outcome[t][i] = None /\ outcome'[t][i] = "verified" /\ <<t, i>> \notin spoiled
         => disk[Clean(snd[t].entries[i].path)] = task[t][i].hash]_vars

\* When send_paths returns success, every file it did not give up has been judged by
\* the receiver or its TransferComplete is under way, as long as the session is up:
\* all permits are back only when all the tasks have ended (sender.rs send_paths).
DoneIsAccounted ==
  \A t \in Transfers : snd[t].phase = "done" /\ SessionOf[t] \in up =>
    \A i \in Idx(t) :
      \/ task[t][i].st = "failed"
      \/ outcome[t][i] # None
      \/ \E m \in ToSet(chan[SessionOf[t]]) : m.kind = "complete" /\ m.t = t /\ m.i = i

\* A transfer that was accepted for sending ends: it fails, or every file is given up
\* or judged by the receiver, or the session is gone; with fewer permits than files
\* and a full channel the tasks do not wait for each other for ever (sender.rs
\* send_paths, state.rs inbound_files_task).
TransferEnds ==
  \A t \in Transfers : snd[t].phase = "start" ~>
    \/ snd[t].phase = "failed"
    \/ /\ snd[t].phase = "done"
       /\ \A i \in Idx(t) : task[t][i].st = "failed" \/ outcome[t][i] # None
    \/ SessionOf[t] \notin up /\ Running(t) = {}

\* send_files takes absolute paths ("chemins absolus") and sends them: the files
\* arrive.  The receiver refuses the absolute path that the sender leaves in rel_path.
OfferedArrives ==
  \A t \in Transfers : snd[t].phase = "start" ~>
    \/ snd[t].phase = "failed" \/ faults > 0
    \/ \A i \in Idx(t) : outcome[t][i] = "verified"

\* "Verification BLAKE3 par fichier complet": a verified file holds what was sent.
\* The hash is of what was received, a failed write does not show.
VerifiedIsWritten ==
  [][\A t \in Transfers : \A i \in DOMAIN outcome[t] :
       outcome[t][i] = None /\ outcome'[t][i] = "verified"
         => disk[Clean(snd[t].entries[i].path)] = task[t][i].hash]_vars

=============================================================================

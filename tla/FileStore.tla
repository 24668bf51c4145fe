----------------------------- MODULE FileStore -----------------------------
(***************************************************************************)
(* FileStore (src/src/engine/store_file.rs): the durable MessageStore, an  *)
(* append-only journal of one line per change, replayed and rewritten when *)
(* it is opened, compacted when dead records outweigh the live ones.       *)
(*                                                                         *)
(* One writer.  A call is a write and a sync with a crash possible at any  *)
(* instant; what was written and not synced is cut anywhere by a crash.    *)
(* Messages are numbered in the order they are pushed.  Of a QueuedCall    *)
(* only its number and its attempts are kept.  `live' is frozen while the  *)
(* process is down: what it held when it stopped, for the properties.      *)
(***************************************************************************)
EXTENDS Integers, Sequences, FiniteSets, SequencesExt

CONSTANTS
  CompactRatio, CompactFloor,  \* COMPACT_RATIO, COMPACT_FLOOR
  MaxMessages,     \* bound: messages pushed in a behaviour
  MaxAttempts,     \* bound: attempts recorded for a message
  MaxCrashes,      \* bound: crashes in a behaviour
  MaxFailures,     \* bound: operations of the file system that fail
  WriteFailures,   \* how much of a line a failing write leaves: Nothing, Torn, Unended
  SyncMayFail      \* whether sync_data may fail

ASSUME StoreAssumption ==
  /\ CompactRatio \in Nat /\ CompactFloor \in Nat
  /\ MaxMessages \in Nat /\ MaxAttempts \in Nat /\ MaxCrashes \in Nat /\ MaxFailures \in Nat
  /\ WriteFailures \subseteq {"Nothing", "Torn", "Unended"} /\ SyncMayFail \in BOOLEAN

Messages == 1..MaxMessages

(* A Record and a line of the file.  Garbage does not parse; a line without  *)
(* its newline is one the next write goes on with.                            *)
Push(seq, entry) == [op |-> "Push", seq |-> seq, msg |-> entry.msg, attempts |-> entry.attempts]
Ack(seq) == [op |-> "Ack", seq |-> seq, msg |-> 0, attempts |-> 0]
Attempts(seq, n) == [op |-> "Attempts", seq |-> seq, msg |-> 0, attempts |-> n]
Garbage == [op |-> "Garbage", seq |-> 0, msg |-> 0, attempts |-> 0]
Line(record) == [record |-> record, ended |-> TRUE]

VARIABLES
  open,                     \* the process is up and holds the store
  live, next_seq, written,  \* struct FileStore
  lines,                    \* the file at `path'
  synced,                   \* how many of its lines are on the device
  doing,                    \* the call in progress, after its write
  next_msg, doubtful,       \* history: pushes begun; calls cut short or failed
  recorded,                 \* history: the attempts that set_attempts returned Ok for
  crashes, failures

vars == <<open, live, next_seq, written, lines, synced, doing, next_msg, doubtful,
          recorded, crashes, failures>>
history == <<next_msg, doubtful, recorded, crashes>>

Nothing == [op |-> "None"]
Empty == [s \in {} |-> 0]

-----------------------------------------------------------------------------
(* Reading. *)

(* The records up to the first line that does not parse. *)
records(file) ==
  LET bad == SelectInSeq(file, LAMBDA l : l.record = Garbage)
      good == IF bad = 0 THEN file ELSE SubSeq(file, 1, bad - 1)
  IN [i \in DOMAIN good |-> good[i].record]

(* "sequence number was queued twice": open refuses the journal. *)
queued_twice(file) ==
  LET rs == records(file)
  IN \E i, j \in DOMAIN rs :
       i # j /\ rs[i].op = "Push" /\ rs[j].op = "Push" /\ rs[i].seq = rs[j].seq

(* One turn of replay's loop. *)
replay_record(entries, r) ==
  CASE r.op = "Push" ->
         [s \in DOMAIN entries \cup {r.seq} |->
            IF s = r.seq THEN [msg |-> r.msg, attempts |-> r.attempts] ELSE entries[s]]
    [] r.op = "Ack" -> [s \in DOMAIN entries \ {r.seq} |-> entries[s]]
    [] OTHER -> IF r.seq \in DOMAIN entries
                THEN [entries EXCEPT ![r.seq].attempts = r.attempts] ELSE entries
replay(file) ==
  LET rs == records(file)
      F[i \in 0 .. Len(rs)] == IF i = 0 THEN Empty ELSE replay_record(F[i - 1], rs[i])
  IN F[Len(rs)]

replay_next_seq_lowest(file) ==  \* mutant: the first number that is free
  Min({s \in 0..MaxMessages : s \notin DOMAIN replay(file)})
replay_next_seq(file) ==
  LET rs == records(file)
  IN Max({0} \cup {rs[i].seq + 1 : i \in DOMAIN rs})

-----------------------------------------------------------------------------
(* Writing. *)

(* The keys of a BTreeMap, in the order it is walked. *)
Sorted(S) ==
  CHOOSE q \in [1 .. Cardinality(S) -> S] : \A i, j \in DOMAIN q : i < j => q[i] < q[j]

image_reset(entries) ==  \* mutant: the attempts start again
  LET seqs == Sorted(DOMAIN entries)
  IN [i \in DOMAIN seqs |-> Line(Push(seqs[i], [entries[seqs[i]] EXCEPT !.attempts = 0]))]
(* What rewrite writes: the live entries, by their sequence numbers. *)
image(entries) ==
  LET seqs == Sorted(DOMAIN entries)
  IN [i \in DOMAIN seqs |-> Line(Push(seqs[i], entries[seqs[i]]))]

(* The file after a write of all of a record, or of a part of it.  What goes *)
(* on with a line that was not ended spoils it.                               *)
Wrote(file, r, part) ==
  LET glued == file # <<>> /\ ~Last(file).ended
      line == [record |-> IF glued \/ part = "Torn" THEN Garbage ELSE r,
               ended |-> part = "Whole"]
  IN IF part = "Nothing" THEN file
     ELSE IF glued THEN Append(Front(file), line) ELSE Append(file, line)

MayFail == failures < MaxFailures
Fails == MayFail /\ failures' = failures + 1

(* write_record: the call goes on to sync_data, or returns the error. *)
write_record(r, call) ==
  \/ /\ lines' = Wrote(lines, r, "Whole") /\ doing' = call
     /\ UNCHANGED failures
  \/ /\ Fails /\ \E part \in WriteFailures : lines' = Wrote(lines, r, part)
     /\ doing' = Nothing

push ==
  /\ open /\ doing = Nothing /\ next_msg <= MaxMessages
  /\ LET entry == [msg |-> next_msg, attempts |-> 0]
     IN write_record(Push(next_seq, entry), [op |-> "Push", seq |-> next_seq, entry |-> entry])
  /\ next_msg' = next_msg + 1 /\ doubtful' = doubtful \cup {next_msg}
  /\ UNCHANGED <<open, live, next_seq, written, synced, recorded, crashes>>

(* The entry leaves `live' before anything is written. *)
ack(seq) ==
  /\ open /\ doing = Nothing
  /\ live' = [s \in DOMAIN live \ {seq} |-> live[s]]
  /\ write_record(Ack(seq), [op |-> "Ack", seq |-> seq, entry |-> live[seq]])
  /\ doubtful' = doubtful \cup {live[seq].msg}
  /\ UNCHANGED <<open, next_seq, written, synced, next_msg, recorded, crashes>>

set_attempts(seq, n) ==
  /\ open /\ doing = Nothing
  /\ live' = [live EXCEPT ![seq].attempts = n]
  /\ write_record(Attempts(seq, n), [op |-> "Attempts", seq |-> seq, entry |-> live'[seq]])
  /\ UNCHANGED <<open, next_seq, written, synced, history>>

worthwhile_unless_empty(w) ==  \* mutant: an empty queue is never compacted
  w >= CompactFloor /\ live # Empty /\ w >= Cardinality(DOMAIN live) * CompactRatio
(* compact_if_worthwhile's condition. *)
worthwhile(w) == w >= CompactFloor /\ w >= Cardinality(DOMAIN live) * CompactRatio

append_unsynced == written' = written + 1 /\ UNCHANGED synced  \* mutant: no sync_data
(* The end of append. *)
append == written' = written + 1 /\ synced' = Len(lines)

(* sync_data has returned Ok, and with it the call, unless it compacts.  In  *)
(* `recorded' a message that is pushed starts at 0.                           *)
Pushed ==
  /\ open /\ doing.op = "Push" /\ append
  /\ next_seq' = next_seq + 1
  /\ live' = [s \in DOMAIN live \cup {doing.seq} |->
                IF s = doing.seq THEN doing.entry ELSE live[s]]
  /\ doubtful' = doubtful \ {doing.entry.msg}
  /\ doing' = Nothing
  /\ UNCHANGED <<open, lines, next_msg, recorded, crashes, failures>>

Acked ==
  /\ open /\ doing.op = "Ack" /\ append
  /\ doubtful' = doubtful \ {doing.entry.msg}
  /\ doing' = IF worthwhile(written + 1) THEN [op |-> "Rewrite"] ELSE Nothing
  /\ UNCHANGED <<open, live, next_seq, lines, next_msg, recorded, crashes, failures>>

AttemptsSet ==
  /\ open /\ doing.op = "Attempts" /\ append
  /\ recorded' = [recorded EXCEPT ![doing.entry.msg] = doing.entry.attempts]
  /\ doing' = IF worthwhile(written + 1) THEN [op |-> "Rewrite"] ELSE Nothing
  /\ UNCHANGED <<open, live, next_seq, lines, next_msg, doubtful, crashes, failures>>

(* sync_data fails: the line is in the file, the call returns the error. *)
SyncFails ==
  /\ open /\ SyncMayFail /\ doing.op \in {"Push", "Ack", "Attempts"} /\ Fails
  /\ doing' = Nothing
  /\ UNCHANGED <<open, live, next_seq, written, lines, synced, history>>

compact ==
  /\ open /\ doing = Nothing
  /\ doing' = [op |-> "Rewrite"]
  /\ UNCHANGED <<open, live, next_seq, written, lines, synced, history, failures>>

(* The new file is complete and synced before it takes the old one's place. *)
swap(entries) ==
  /\ lines' = image(entries) /\ synced' = Cardinality(DOMAIN entries)
  /\ written' = Cardinality(DOMAIN entries)

rewrite ==
  /\ open /\ doing.op = "Rewrite" /\ doing' = Nothing
  /\ \/ swap(live) /\ UNCHANGED failures
     \/ Fails /\ UNCHANGED <<lines, synced, written>>
  /\ UNCHANGED <<open, live, next_seq, history>>

-----------------------------------------------------------------------------
(* Crash and open. *)

(* What a crash may leave of the file: all that is synced, and the rest cut  *)
(* after a line, inside one or just before its newline.                       *)
AfterCrash ==
  IF ~open THEN {lines}
  ELSE UNION {{SubSeq(lines, 1, k)} \cup
              IF k = Len(lines) THEN {}
              ELSE {Append(SubSeq(lines, 1, k), [record |-> r, ended |-> FALSE]) :
                      r \in {Garbage, lines[k + 1].record}}
              : k \in synced..Len(lines)}

Crash ==
  /\ open /\ crashes < MaxCrashes
  /\ open' = FALSE /\ doing' = Nothing /\ crashes' = crashes + 1
  /\ lines' \in AfterCrash /\ synced' = Len(lines')
  /\ UNCHANGED <<live, next_seq, written, next_msg, doubtful, recorded, failures>>

(* FileStore::open; it may fail before its rename or after it. *)
Open ==
  /\ ~open /\ ~queued_twice(lines)
  /\ \/ /\ open' = TRUE /\ live' = replay(lines) /\ next_seq' = replay_next_seq(lines)
        /\ swap(replay(lines)) /\ doubtful' = {}
        /\ UNCHANGED failures
     \/ /\ Fails /\ UNCHANGED <<open, live, next_seq, doubtful>>
        /\ UNCHANGED <<lines, synced, written>> \/ swap(replay(lines))
  /\ UNCHANGED <<doing, next_msg, recorded, crashes>>

(* "two processes have the same journal open". *)
Refused == ~open /\ queued_twice(lines) /\ UNCHANGED vars

Init ==
  /\ open = TRUE /\ live = Empty /\ next_seq = 0 /\ written = 0
  /\ lines = <<>> /\ synced = 0 /\ doing = Nothing
  /\ next_msg = 1 /\ doubtful = {} /\ recorded = [m \in Messages |-> 0]
  /\ crashes = 0 /\ failures = 0

Next ==
  \/ push
  \/ \E s \in DOMAIN live :
       ack(s) \/ (live[s].attempts < MaxAttempts /\ set_attempts(s, live[s].attempts + 1))
  \/ Pushed \/ Acked \/ AttemptsSet \/ SyncFails
  \/ compact \/ rewrite
  \/ Crash \/ Open \/ Refused

Spec == Init /\ [][Next]_vars

-----------------------------------------------------------------------------
(* Properties. *)

(* The type invariant. *)
TypeOK ==
  /\ open \in BOOLEAN /\ next_seq \in 0..MaxMessages /\ written \in Nat
  /\ DOMAIN live \subseteq 0..MaxMessages
  /\ \A s \in DOMAIN live : live[s] \in [msg : Messages, attempts : 0..MaxAttempts]
  /\ synced \in 0..Len(lines)
  /\ doubtful \subseteq Messages /\ recorded \in [Messages -> 0..MaxAttempts]

Kept == {live[s].msg : s \in DOMAIN live}

Store == INSTANCE MessageStore WITH kept <- Kept
(* The journal keeps what trait MessageStore promises: nothing queued is lost *)
(* and nothing acknowledged comes back, wherever a crash falls.               *)
ImplementsStore == Store!Spec

(* set_attempts: whatever a crash leaves, an attempt that was recorded is     *)
(* not forgotten, so a retry budget is not started again.                     *)
AttemptsKept ==
  \A file \in AfterCrash :
    LET back == replay(file)
    IN \A s \in DOMAIN back :
         back[s].msg \in Kept => back[s].attempts >= recorded[back[s].msg]

(* pending is "oldest first": sequence numbers follow the order of the        *)
(* pushes, over compactions that forget the numbers given before.             *)
OldestFirst ==
  \A s, t \in DOMAIN live : s < t => live[s].msg < live[t].msg

(* "a duplicate on replay proves two processes have had the journal open":    *)
(* one writer's journal is never refused, whatever a crash leaves of it.      *)
OneWriterOpens == \A file \in AfterCrash : ~queued_twice(file)

(* The journal does not grow without bound: when no call is in progress and   *)
(* nothing failed, it is no longer than the floor and the live entries        *)
(* allow.                                                                     *)
JournalBounded ==
  open /\ doing = Nothing /\ failures = 0
    => Len(lines) <= CompactFloor + CompactRatio * Cardinality(DOMAIN live)
=============================================================================

----------------------------- MODULE CaptureLog -----------------------------
(***************************************************************************)
(* The capturing logger of internal/whatsapp/capturelog.go: goroutines     *)
(* that log number an entry, push it to a ring in memory and offer it to a *)
(* channel; a consumer stores what it receives in the collection frames.   *)
(***************************************************************************)
EXTENDS Integers, Sequences, FiniteSetsExt, Functions

CONSTANTS
  Writers,      (* Goroutines that log.                                     *)
  Levels,       (* The levels they log at.                                  *)
  RingSize,     (* ringBufSize.                                             *)
  SinkSize,     (* Capacity of captureSink.                                 *)
  MaxEntries,   (* Bound of the model: entries.                             *)
  MaxRestarts   (* Bound of the model: restarts.                            *)

VARIABLES
  captureSeq,   (* The last number given.                                   *)
  slots, head, count,  (* The ring: its array, the next slot, how many.     *)
  sink,         (* captureSink.                                             *)
  frames,       (* What is stored, by this run of the program.              *)
  writer,       (* What each goroutine is doing.                            *)
  consumer,     (* The entry the consumer holds, or none.                   *)
  dropped,      (* History: entries the sink had no room for.               *)
  restarts      (* Restarts so far.                                         *)

vars == <<captureSeq, slots, head, count, sink, frames, writer, consumer, dropped, restarts>>

Nothing == [seq |-> 0]
Quiet   == [step |-> "quiet"]

Init ==
  /\ captureSeq = 0
  /\ slots = [i \in 0 .. RingSize - 1 |-> Nothing] /\ head = 0 /\ count = 0
  /\ sink = <<>> /\ frames = <<>>
  /\ writer = [w \in Writers |-> Quiet]
  /\ consumer = Nothing
  /\ dropped = {}
  /\ restarts = 0

(***************************************************************************)
(* Writing: emit.                                                          *)
(***************************************************************************)

(* The number is taken before the lock of the ring.                        *)
Number(w) ==
  /\ writer[w] = Quiet /\ captureSeq < MaxEntries
  /\ captureSeq' = captureSeq + 1
  /\ \E level \in Levels :
       writer' = [writer EXCEPT ![w] =
         [step |-> "push", entry |-> [seq |-> captureSeq', by |-> w, level |-> level]]]
  /\ UNCHANGED <<slots, head, count, sink, frames, consumer, dropped, restarts>>

(* Push, with the lock held.  DEBUG entries go no further.                 *)
Push(w) ==
  /\ writer[w].step = "push"
  /\ slots' = [slots EXCEPT ![head] = writer[w].entry]
  /\ head' = (head + 1) % RingSize
  /\ count' = Min({count + 1, RingSize})
  /\ writer' = [writer EXCEPT ![w] =
       IF @.entry.level = "DEBUG" THEN Quiet ELSE [@ EXCEPT !.step = "offer"]]
  /\ UNCHANGED <<captureSeq, sink, frames, consumer, dropped, restarts>>

(* The channel takes the entry, or it is dropped: a logger never waits.    *)
Offer(w) ==
  /\ writer[w].step = "offer"
  /\ IF Len(sink) < SinkSize
     THEN sink' = Append(sink, writer[w].entry) /\ UNCHANGED dropped
     ELSE dropped' = dropped \cup {writer[w].entry} /\ UNCHANGED sink
  /\ writer' = [writer EXCEPT ![w] = Quiet]
  /\ UNCHANGED <<captureSeq, slots, head, count, frames, consumer, restarts>>

(***************************************************************************)
(* Storing: StartLogConsumer and persistLogEntry.                          *)
(***************************************************************************)

Receive ==
  /\ consumer = Nothing /\ sink # <<>>
  /\ consumer' = Head(sink) /\ sink' = Tail(sink)
  /\ UNCHANGED <<captureSeq, slots, head, count, frames, writer, dropped, restarts>>

(* Mutant: an entry that could not be saved is tried again later.          *)
PersistOrRequeue ==
  /\ consumer # Nothing
  /\ \/ frames' = Append(frames, consumer) /\ UNCHANGED sink
     \/ Len(sink) < SinkSize /\ sink' = Append(sink, consumer) /\ UNCHANGED frames
  /\ consumer' = Nothing
  /\ UNCHANGED <<captureSeq, slots, head, count, writer, dropped, restarts>>

(* Without a database, or when saving fails, the entry is passed over.     *)
Persist ==
  /\ consumer # Nothing
  /\ \/ frames' = Append(frames, consumer) /\ UNCHANGED dropped
     \/ dropped' = dropped \cup {consumer} /\ UNCHANGED frames
  /\ consumer' = Nothing
  /\ UNCHANGED <<captureSeq, slots, head, count, sink, writer, restarts>>

(* Stored frames stay, and the numbers begin again: what the model keeps   *)
(* are those of the run.                                                   *)
Restart ==
  /\ restarts < MaxRestarts /\ captureSeq > 0
  /\ captureSeq' = 0
  /\ slots' = [i \in 0 .. RingSize - 1 |-> Nothing] /\ head' = 0 /\ count' = 0
  /\ sink' = <<>> /\ frames' = <<>>
  /\ writer' = [w \in Writers |-> Quiet]
  /\ consumer' = Nothing /\ dropped' = {}
  /\ restarts' = restarts + 1

(***************************************************************************)
(* Reading.                                                                *)
(***************************************************************************)

(* Mutant: the oldest entry is taken to be in the first slot.              *)
SnapshotFromStart == [i \in 1 .. count |-> slots[i - 1]]

(* snapshot, without filters.                                              *)
Snapshot ==
  LET start == (head - count + RingSize) % RingSize
  IN [i \in 1 .. count |-> slots[(start + i - 1) % RingSize]]

Next == \/ \E w \in Writers : Number(w) \/ Push(w) \/ Offer(w)
        \/ Receive \/ Persist \/ Restart

Spec == Init /\ [][Next]_vars

(***************************************************************************)
(* Properties.                                                             *)
(***************************************************************************)

Entries == [seq : 1 .. MaxEntries, by : Writers, level : Levels]

TypeOK ==
  /\ captureSeq \in 0 .. MaxEntries /\ restarts \in 0 .. MaxRestarts
  /\ slots \in [0 .. RingSize - 1 -> Entries \cup {Nothing}]
  /\ head \in 0 .. RingSize - 1 /\ count \in 0 .. RingSize
  /\ writer \in [Writers -> {Quiet} \cup [step : {"push", "offer"}, entry : Entries]]
  /\ sink \in Seq(Entries) /\ Len(sink) <= SinkSize
  /\ frames \in Seq(Entries) /\ dropped \subseteq Entries
  /\ consumer \in Entries \cup {Nothing}

(* A reader is shown the newest entries, whatever the ring has overwritten *)
(* and however the writers' steps mix: the ring is a RecentLog.            *)
Recent == INSTANCE RecentLog WITH Entry <- Entries, Size <- RingSize, recent <- Snapshot

ShowsTheNewest == Recent!Spec

(* Numbers are not the order of the ring, nor the order of the ring that   *)
(* of the frames.  But the entries of one goroutine are in its order, in   *)
(* both, and an entry above DEBUG is stored, on its way, or was dropped:   *)
(* none is stored twice.                                                   *)
Ascending(s) == \A i, j \in DOMAIN s : i < j /\ s[i].by = s[j].by => s[i].seq < s[j].seq

Held   == IF consumer = Nothing THEN <<>> ELSE <<consumer>>
Stream == frames \o Held \o sink
Ahead  == {w \in Writers : writer[w].step \in {"push", "offer"}}

WritersOrder ==
  /\ Ascending(Snapshot) /\ Ascending(Stream)
  /\ Range(Stream) \cap dropped = {}
  /\ \A e \in Range(Snapshot) : e.level # "DEBUG" =>
       e \in Range(Stream) \cup dropped \cup {writer[w].entry : w \in Ahead}

(* What makes it so: a goroutine's entry is its own, and newer than all it *)
(* pushed and offered before.                                              *)
Newer(entry, entries) == \A e \in entries : e.by = entry.by => e.seq < entry.seq

OrderInv ==
  /\ \A e \in Range(Snapshot) \cup Range(Stream) \cup dropped : e.seq <= captureSeq
  /\ \A w \in Ahead :
       /\ writer[w].entry.by = w /\ writer[w].entry.seq <= captureSeq
       /\ Newer(writer[w].entry, Range(Stream) \cup dropped)
       /\ writer[w].step = "push" => Newer(writer[w].entry, Range(Snapshot))
=============================================================================

------------------------------ MODULE LiveLogs ------------------------------
(***************************************************************************)
(* The log of a run, from what its activity says to what a person sees:    *)
(* the buffer and the rows (services/runs/runLogs.ts), the project's room  *)
(* (services/runs/hub.ts, ws/index.ts), and one page that shows the log of *)
(* the run selected on it (web: useAriaSocket.ts, agent-runs.tsx).         *)
(*                                                                         *)
(* A run's activity says numbered pieces.  A piece of streamed text goes   *)
(* into the run's bucket, one that ends a line takes the bucket with it,   *)
(* any other is a row of its own.  A row is written in a transaction under *)
(* an advisory lock and told to the room some time after its commit.  The  *)
(* page asks for the last rows once, for earlier ones on demand, and merges*)
(* what comes by the rows' sequence numbers; the content of a row is never *)
(* changed, so a row is the run's and its number.                          *)
(***************************************************************************)
EXTENDS Naturals, Sequences, FiniteSets, FiniteSetsExt, SequencesExt

CONSTANTS LogRun,
          NoRun,
          LineCap,      \* rows of a run after which only status and errors are written
          PageSize,     \* rows of a page of the log
          MaxShown,     \* rows that the page keeps when it adds earlier ones
          Says,         \* bound of the model: how many pieces each run says
          MaxLooks,     \* bound of the model: what the person does
          MaxSlips      \* bound of the model: failures and lost connections

ASSUME LiveLogsAssumption ==
  /\ NoRun \notin LogRun
  /\ {LineCap, PageSize, MaxShown} \subseteq Nat \ {0}
  /\ Says \in [LogRun -> Nat]
  /\ {MaxLooks, MaxSlips} \subseteq Nat

VARIABLES
  said,       \* how many pieces each run's activity has said
  bucket,     \* the pieces in the run's buffer
  writes,     \* the calls of write() under way
  lines,      \* the committed rows of agent_run_logs, seq their index
  dropped,    \* history: pieces refused by the cap or lost by a failure
  room,       \* the page's socket: "off", "joining" or "joined" the project's room
  wire,       \* the rows sent to it and not arrived
  selected,   \* the run whose log the page shows
  tail,       \* its request for the last rows, and how many there were
  earlier,    \* the requests for earlier rows under way
  shown,      \* the rows on the page, by sequence number: whose they are
  hole,       \* history: the page was not told of a row, or has cut one off
  mixed,      \* history: an earlier page came after the selection had changed
  looks,      \* history: what the person did
  slips       \* history: failures

logVars == <<said, bucket, writes, lines, dropped, room, wire, selected, tail,
             earlier, shown, hole, mixed, looks, slips>>
serverVars == <<said, bucket, lines, dropped>>
pageVars == <<selected, tail, earlier, shown, mixed, looks>>

\* "status" stands for the kinds that the cap admits, status and error.
Kind == {"text", "status"}
Write(r, kind, text) == [run |-> r, kind |-> kind, text |-> text, at |-> "new", seq |-> 0]

Nowhere == [s \in {} |-> NoRun]
NoTail == [at |-> "none", upTo |-> 0]

LogsInit ==
  /\ said = [r \in LogRun |-> 0]
  /\ bucket = [r \in LogRun |-> <<>>]
  /\ writes = {}
  /\ lines = [r \in LogRun |-> <<>>]
  /\ dropped = [r \in LogRun |-> {}]
  /\ room = "off" /\ wire = <<>>
  /\ selected = NoRun /\ tail = NoTail /\ earlier = {} /\ shown = Nowhere
  /\ hole = FALSE /\ mixed = FALSE
  /\ looks = 0 /\ slips = 0

-----------------------------------------------------------------------------
\* append: streamed text waits in the bucket, a line takes the bucket along, and
\* anything else is written by itself.
KeptBucket(r) == UNCHANGED bucket
EmptiedBucket(r) == bucket' = [bucket EXCEPT ![r] = <<>>]
Say(r) ==
  /\ said[r] < Says[r]
  /\ said' = [said EXCEPT ![r] = @ + 1]
  /\ LET piece == said[r] + 1
     IN  \/ bucket' = [bucket EXCEPT ![r] = Append(@, piece)] /\ UNCHANGED writes
         \/ /\ writes' = writes \cup {Write(r, "text", Append(bucket[r], piece))}
            /\ EmptiedBucket(r)
         \/ /\ \E kind \in Kind : writes' = writes \cup {Write(r, kind, <<piece>>)}
            /\ UNCHANGED bucket
  /\ UNCHANGED <<lines, dropped, room, wire, hole, slips, pageVars>>

\* flush: two seconds after the first piece, or when the run's execution ends.
Flush(r) ==
  /\ bucket[r] # <<>>
  /\ writes' = writes \cup {Write(r, "text", bucket[r])}
  /\ EmptiedBucket(r)
  /\ UNCHANGED <<said, lines, dropped, room, wire, hole, slips, pageVars>>

-----------------------------------------------------------------------------
\* write: BEGIN, the advisory lock logs:<run>, and the INSERT, which finds the
\* next number and may insert nothing, ...
LockIgnored(r) == TRUE
LockFree(r) == \A w \in writes : w.run = r => w.at # "inserted"
Admitted(w) == Len(lines[w.run]) < LineCap \/ w.kind = "status"
Becomes(w, new) == writes' = (writes \ {w}) \cup {new}
InsertLine(w) ==
  /\ w.at = "new" /\ LockFree(w.run)
  /\ Becomes(w, [w EXCEPT !.at = "inserted", !.seq = IF Admitted(w) THEN Len(lines[w.run]) + 1 ELSE 0])
  /\ UNCHANGED <<serverVars, room, wire, hole, slips, pageVars>>

Drop(w) == dropped' = [dropped EXCEPT ![w.run] = @ \cup ToSet(w.text)]

\* ... and COMMIT.  Under the lock the number is free: that a taken one is tried
\* again, three times in all, is left out.
CommitLine(w) ==
  /\ w.at = "inserted"
  /\ IF w.seq = 0
     THEN writes' = writes \ {w} /\ Drop(w) /\ UNCHANGED lines
     ELSE /\ lines' = [lines EXCEPT ![w.run] = Append(@, [kind |-> w.kind, text |-> w.text])]
          /\ Becomes(w, [w EXCEPT !.at = "committed"])
          /\ UNCHANGED dropped
  /\ UNCHANGED <<said, bucket, room, wire, hole, slips, pageVars>>

\* The page will not learn of this row from its request for the last rows.
NotInTail(r) == r = selected /\ tail.at \in {"served", "done"}

\* emitProject, after another query: to whoever is in the room by then.
EmitLine(w) ==
  /\ w.at = "committed"
  /\ writes' = writes \ {w}
  /\ IF room = "joined" THEN wire' = Append(wire, [run |-> w.run, seq |-> w.seq]) /\ UNCHANGED hole
     ELSE hole' = (hole \/ NotInTail(w.run)) /\ UNCHANGED wire
  /\ UNCHANGED <<serverVars, room, slips, pageVars>>

\* A write throws before its commit; its caller does not wait for it.
WriteFails(w) ==
  /\ w.at # "committed"
  /\ slips < MaxSlips /\ slips' = slips + 1
  /\ writes' = writes \ {w}
  /\ Drop(w)
  /\ UNCHANGED <<said, bucket, lines, room, wire, hole, pageVars>>

-----------------------------------------------------------------------------
\* The page joins the room as soon as it is connected, and again when it is
\* connected again: the server asks for the project before it lets it in.
Connect ==
  /\ room = "off"
  /\ room' = "joining"
  /\ UNCHANGED <<serverVars, writes, wire, hole, slips, pageVars>>
Join ==
  /\ room = "joining"
  /\ room' = "joined"
  /\ UNCHANGED <<serverVars, writes, wire, hole, slips, pageVars>>
\* A lost connection takes with it what was on its way.
Disconnect ==
  /\ room # "off"
  /\ slips < MaxSlips /\ slips' = slips + 1
  /\ room' = "off" /\ wire' = <<>>
  /\ hole' = (hole \/ \E i \in DOMAIN wire : NotInTail(wire[i].run))
  /\ UNCHANGED <<serverVars, writes, pageVars>>

Page(last) == {s \in 1 .. last : s + PageSize > last}
\* mergeLines: what the socket brought in the meantime stays.
Replaced(seqs) == seqs
Merged(seqs) == DOMAIN shown \cup seqs

\* run:log: a row of the run selected is merged, any other is ignored.
Arrive ==
  /\ wire # <<>>
  /\ wire' = Tail(wire)
  /\ LET line == Head(wire)
     IN  shown' = IF line.run = selected
                  THEN [s \in Merged({line.seq}) |-> IF s = line.seq THEN line.run ELSE shown[s]]
                  ELSE shown
  /\ UNCHANGED <<serverVars, writes, room, hole, slips, selected, tail, earlier, mixed, looks>>

Look == looks < MaxLooks /\ looks' = looks + 1

\* The page is emptied and asks for the last rows of the run; the request for
\* those of the run before is forgotten, requests for earlier rows are not: late
\* is kept by the model, to tell them.
Select(r) ==
  /\ Look /\ r # selected
  /\ selected' = r
  /\ tail' = IF r = NoRun THEN NoTail ELSE [at |-> "asked", upTo |-> 0]
  /\ shown' = Nowhere
  /\ hole' = FALSE /\ mixed' = FALSE
  /\ earlier' = {[e EXCEPT !.late = TRUE] : e \in earlier}
  /\ UNCHANGED <<serverVars, writes, room, wire, slips>>
\* list with tail.
ServeTail ==
  /\ tail.at = "asked"
  /\ tail' = [at |-> "served", upTo |-> Len(lines[selected])]
  /\ UNCHANGED <<serverVars, writes, room, wire, hole, slips, selected, earlier, shown, mixed, looks>>
TailComes ==
  /\ tail.at = "served"
  /\ tail' = [tail EXCEPT !.at = "done"]
  /\ shown' = [s \in Merged(Page(tail.upTo)) |-> IF s \in Page(tail.upTo) THEN selected ELSE shown[s]]
  /\ UNCHANGED <<serverVars, writes, room, wire, hole, slips, selected, earlier, mixed, looks>>

\* onLoadEarlier, while the first row shown is not the first there is.
AskEarlier ==
  /\ Look
  /\ selected # NoRun /\ DOMAIN shown # {} /\ Cardinality(DOMAIN shown) < MaxShown
  /\ Min(DOMAIN shown) > 1
  /\ earlier' = earlier \cup {[run |-> selected, before |-> Min(DOMAIN shown), late |-> FALSE]}
  /\ UNCHANGED <<serverVars, writes, room, wire, hole, slips, selected, tail, shown, mixed>>
\* list with beforeSeq, whose rows were there when it was asked for.  Whatever is
\* selected by now takes the rows, and the last of them all are cut off.
Kept(seqs) == {s \in seqs : Cardinality({u \in seqs : u < s}) < MaxShown}
EarlierComes(e) ==
  /\ e \in earlier
  /\ earlier' = earlier \ {e}
  /\ LET merged == Merged(Page(e.before - 1))
     IN  /\ shown' = [s \in Kept(merged) |-> IF s \in DOMAIN shown THEN shown[s] ELSE e.run]
         /\ hole' = (hole \/ Kept(merged) # merged)
  /\ mixed' = (mixed \/ e.late)
  /\ UNCHANGED <<serverVars, writes, room, wire, slips, selected, tail, looks>>

LogsNext ==
  \/ \E r \in LogRun : Say(r) \/ Flush(r)
  \/ \E w \in writes : InsertLine(w) \/ CommitLine(w) \/ EmitLine(w) \/ WriteFails(w)
  \/ Connect \/ Join \/ Disconnect \/ Arrive
  \/ \E r \in LogRun \cup {NoRun} : Select(r)
  \/ ServeTail \/ TailComes \/ AskEarlier
  \/ \E e \in earlier : EarlierComes(e)

LogsSpec == LogsInit /\ [][LogsNext]_logVars

-----------------------------------------------------------------------------
\* Types; and the number that a write has found is still free when it commits.
LogsTypeOK ==
  /\ \A r \in LogRun : said[r] \in 0 .. Says[r]
  /\ \A r \in LogRun : ToSet(bucket[r]) \cup dropped[r] \subseteq 1 .. said[r]
  /\ \A w \in writes : /\ w.run \in LogRun /\ w.kind \in Kind
                       /\ w.at \in {"new", "inserted", "committed"}
                       /\ w.at = "inserted" => w.seq \in {0, Len(lines[w.run]) + 1}
  /\ room \in {"off", "joining", "joined"} /\ (room # "joined" => wire = <<>>)
  /\ selected \in LogRun \cup {NoRun}
  /\ tail.at \in {"none", "asked", "served", "done"} /\ (tail.at = "none" <=> selected = NoRun)
  /\ DOMAIN shown \subseteq Nat
  /\ hole \in BOOLEAN /\ mixed \in BOOLEAN
  /\ looks \in 0 .. MaxLooks /\ slips \in 0 .. MaxSlips

\* Every piece that a run has said is in one place, once: in the bucket, in a
\* write under way, in a row, or dropped; and past the cap there are only rows
\* that it admits.  The timer and a line that ends may take the bucket at once.
PlacesOf(r, piece) ==
  {<<"write", w>> : w \in {v \in writes : v.run = r /\ v.at # "committed" /\ piece \in ToSet(v.text)}}
  \cup {<<"row", i>> : i \in {j \in DOMAIN lines[r] : piece \in ToSet(lines[r][j].text)}}
  \cup {<<"bucket", i>> : i \in {j \in DOMAIN bucket[r] : bucket[r][j] = piece}}
  \cup {<<"dropped", piece>> : d \in dropped[r] \cap {piece}}
EveryPieceOnce ==
  \A r \in LogRun :
    /\ \A piece \in 1 .. said[r] : Cardinality(PlacesOf(r, piece)) = 1
    /\ \A i \in DOMAIN lines[r] : i > LineCap => lines[r][i].kind = "status"

\* The page shows rows of the run selected only; and of the last page of its log
\* it shows every row, and every row since, in whatever order they come, except
\* those about to be told: unless it was out of the room when a row was told, has
\* cut rows off, or an earlier page came after the selection had changed.
PageFaithful ==
  selected # NoRun /\ ~mixed =>
    /\ \A s \in DOMAIN shown : shown[s] = selected /\ s <= Len(lines[selected])
    /\ ~hole /\ tail.at = "done" =>
         \A s \in Page(tail.upTo) \cup tail.upTo + 1 .. Len(lines[selected]) :
           \/ s \in DOMAIN shown
           \/ \E i \in DOMAIN wire : wire[i] = [run |-> selected, seq |-> s]
           \/ \E w \in writes : w.run = selected /\ w.seq = s /\ w.at = "committed"
=============================================================================

----------------------------- MODULE WalRestore -----------------------------
(***************************************************************************)
(* restore_command on a standby: pg_agentc asks the agent for one file,    *)
(* the agent goes through its peers (localserver.rs: restore_wal), screens *)
(* history files against pg_control (timeline.rs, pgstandby.rs) and writes *)
(* the file in place (walstore.rs); a peer serves its archive              *)
(* (peerserver.rs: fetch_wal).                                             *)
(*                                                                         *)
(* PostgreSQL restores every segment to one destination and every history  *)
(* file to another.  It may stop while a call runs: the hook client it     *)
(* leaves behind keeps the call alive.  A file is two blocks, each written *)
(* for the file it is a part of.  Two timelines exist: the upstream        *)
(* continues timeline 1 and Rival has been promoted onto timeline 2, which *)
(* forks off at `fork` and which its archive_command is still copying.     *)
(***************************************************************************)
EXTENDS Integers, Sequences, SequencesExt

CONSTANTS Upstream, Rival, \* the peers
          Order,           \* the order of the pool, a sequence of the peers
          Call,            \* slots for calls in progress
          MaxLsn,          \* bound: WAL on each timeline, in segments
          MaxFaults        \* bound: faults and stops

ASSUME WalAssumption ==
  /\ MaxLsn \in Nat \ {0} /\ MaxFaults \in Nat
  /\ Upstream # Rival
  /\ Order \in Seq({Upstream, Rival}) /\ ToSet(Order) = {Upstream, Rival}

VARIABLES fork,     \* where timeline 2 leaves timeline 1
          ends,     \* what each timeline has reached, in the archives
          archiving,\* the rival's archive_command is copying one more segment
          pg,       \* the standby's PostgreSQL
          call,     \* the calls of restore_wal in progress
          tmp,      \* the temporary file of each
          late,     \* renames that are still to happen after a time-out
          dest,     \* what is at the destinations
          down,     \* peers that do not answer
          cooldown, \* wal_peer_cooldown
          blind,    \* history: a history file went through unscreened
          faults

disk == <<tmp, late, dest>>
vars == <<fork, ends, archiving, pg, call, disk, down, cooldown, blind, faults>>

Peer == {Upstream, Rival}
Segment(tl, lsn) == [tl |-> tl, lsn |-> lsn]
History(tl) == Segment(tl, 0)
None == Segment(0, 0)    \* no file
Zeroed == Segment(0, 1)  \* a block that was allocated and never reached the disk
IsHistory(file) == file.lsn = 0

(* What is on disk under one name: two blocks, whether fsync was called,   *)
(* and (history) whether the peer's own copy ended there.                  *)
NoContent == [first |-> None, rest |-> None, synced |-> FALSE, short |-> FALSE]
Holds(content, file) == content.first = file /\ content.rest = file

(* RECOVERYHISTORY and RECOVERYXLOG.                                       *)
Target(file) == IF IsHistory(file) THEN "history" ELSE "segment"

(* parse_history: timeline 1 ended at the fork, in the history of 2.       *)
Switches(tl) == IF tl = 2 THEN {[tli |-> 1, switchpoint |-> fork]} ELSE {}

NoCall == [on |-> FALSE, file |-> History(2), at |-> 1, step |-> "pick",
           pos |-> 0, orphan |-> FALSE]

(* archive_dir of a peer, as open_archive finds it.                        *)
Archived(p, file) ==
  IF p = Upstream THEN file.tl = 1 /\ file.lsn \in 1 .. ends[1]
  ELSE \/ file.tl = 1 /\ file.lsn \in 1 .. fork
       \/ file.tl = 2 /\ (IsHistory(file) \/ file.lsn \in fork + 1 .. ends[2])
       \/ archiving /\ file = Segment(2, ends[2] + 1)

(* `cp` has not written all of it yet.                                     *)
Partial(p, file) == p = Rival /\ archiving /\ file = Segment(2, ends[2] + 1)

Init ==
  /\ fork \in 0 .. MaxLsn - 1
  /\ ends = [tl \in {1, 2} |-> IF tl = 1 THEN MaxLsn ELSE fork]
  /\ \E ckpt \in 0 .. MaxLsn, min \in 0 .. MaxLsn :
       /\ ckpt <= min
       /\ pg = [state |-> "down", tl |-> 1, ckpt |-> ckpt, min |-> min,
                want |-> History(2)]
  /\ archiving = FALSE
  /\ call = [c \in Call |-> NoCall]
  /\ tmp = [c \in Call |-> NoContent] /\ late = {}
  /\ dest = [t \in {"history", "segment"} |-> NoContent]
  /\ down = {} /\ cooldown = {}
  /\ blind = FALSE /\ faults = 0

Fault == faults < MaxFaults /\ faults' = faults + 1
-----------------------------------------------------------------------------
(* PostgreSQL.                                                             *)

Asks(file) ==
  /\ \A c \in Call : call[c].on => call[c].orphan
  /\ \E c \in Call :
       /\ ~call[c].on
       /\ call' = [call EXCEPT ![c] = [NoCall EXCEPT !.on = TRUE, !.file = file]]
  /\ pg' = [pg EXCEPT !.state = IF @ = "running" THEN "waiting" ELSE "starting",
                      !.want = file]
  /\ dest' = [dest EXCEPT ![Target(file)] = NoContent]   \* what was there is removed
  /\ UNCHANGED <<tmp, late>>

(* A start looks for the newest timeline.  Afterwards a segment is asked   *)
(* for whenever the next one is not at hand.                               *)
PgStarts ==
  /\ pg.state \in {"down", "fatal"} /\ Asks(History(2))
  /\ UNCHANGED <<fork, ends, archiving, down, cooldown, blind, faults>>

PgWantsSegment ==
  /\ pg.state = "running" /\ pg.min < MaxLsn
  /\ Asks(Segment(IF pg.min >= fork THEN pg.tl ELSE 1, pg.min + 1))
  /\ UNCHANGED <<fork, ends, archiving, down, cooldown, blind, faults>>

(* What a start checks against its target: the latest checkpoint and the   *)
(* minimum recovery point must lie in the target's history.                *)
Startable(tl) == tl = 2 /\ pg.tl = 1 => pg.ckpt <= fork /\ pg.min <= fork

(* The hook's exit code; a file that is not the one asked for, or not all  *)
(* of it, is not used.                                                     *)
PgGoesOn(ok) ==
  IF pg.state = "starting"
  THEN LET target == IF ok /\ Holds(dest["history"], pg.want) THEN 2 ELSE pg.tl IN
       pg' = IF Startable(target) THEN [pg EXCEPT !.state = "running", !.tl = target]
             ELSE [pg EXCEPT !.state = "fatal"]
  ELSE pg' = [pg EXCEPT !.state = "running",
                        !.min = IF ok /\ Holds(dest["segment"], pg.want) THEN @ + 1
                                ELSE @]

Restartpoint ==
  /\ pg.state = "running" /\ pg.ckpt < pg.min
  /\ pg' = [pg EXCEPT !.ckpt = pg.min]
  /\ UNCHANGED <<fork, ends, archiving, call, disk, down, cooldown, blind, faults>>

(* PostgreSQL is stopped; its hook client lives on.                        *)
PgStops ==
  /\ pg.state # "down" /\ Fault
  /\ pg' = [pg EXCEPT !.state = "down"]
  /\ call' = [c \in Call |-> [call[c] EXCEPT !.orphan = call[c].on]]
  /\ UNCHANGED <<fork, ends, archiving, disk, down, cooldown, blind>>

(* archive_command is a plain `cp`: the name is there before the content.  *)
RivalArchives ==
  /\ IF archiving THEN ends' = [ends EXCEPT ![2] = @ + 1]
     ELSE ends[2] < MaxLsn /\ UNCHANGED ends
  /\ archiving' = ~archiving
  /\ UNCHANGED <<fork, pg, call, disk, down, cooldown, blind, faults>>

PeerGoes(p) ==
  /\ p \notin down /\ Fault
  /\ down' = down \cup {p}
  /\ UNCHANGED <<fork, ends, archiving, pg, call, disk, cooldown, blind>>

PeerComes(p) ==
  /\ p \in down
  /\ down' = down \ {p}
  /\ UNCHANGED <<fork, ends, archiving, pg, call, disk, cooldown, blind, faults>>

CooldownEnds(p) ==
  /\ p \in cooldown
  /\ cooldown' = cooldown \ {p}
  /\ UNCHANGED <<fork, ends, archiving, pg, call, disk, down, blind, faults>>
-----------------------------------------------------------------------------
(* restore_wal.                                                            *)

(* pg_agentc: the answer becomes an exit code.  Nobody hears an orphan's.  *)
Answers(c, ok) ==
  /\ call' = [call EXCEPT ![c] = NoCall]
  /\ IF call[c].orphan THEN UNCHANGED pg ELSE PgGoesOn(ok)

(* Mutant: a peer that fails ends the call.                                *)
GiveUp(c) == [call[c] EXCEPT !.at = Len(Order) + 1, !.step = "pick", !.pos = 0]

(* FetchOutcome::TryNext.                                                  *)
TryNext(c) == [call[c] EXCEPT !.at = @ + 1, !.step = "pick", !.pos = 0]

(* Every peer was tried: NotFound.                                         *)
NotFound(c) ==
  /\ call[c].on /\ call[c].at > Len(Order)
  /\ Answers(c, FALSE)
  /\ UNCHANGED <<fork, ends, archiving, disk, down, cooldown, blind, faults>>

Current(c) == Order[call[c].at]
AtPeer(c, step) == call[c].on /\ call[c].at <= Len(Order) /\ call[c].step = step

(* A peer under cooldown is passed over.                                   *)
Skip(c) ==
  /\ AtPeer(c, "pick") /\ Current(c) \in cooldown
  /\ call' = [call EXCEPT ![c] = TryNext(c)]
  /\ UNCHANGED <<fork, ends, archiving, pg, disk, down, cooldown, blind, faults>>

(* No channel: the next peer, without a cooldown.  A call that fails on    *)
(* the channel puts the peer under cooldown.                               *)
Unanswered(c) ==
  /\ AtPeer(c, "pick") /\ Current(c) \in down \ cooldown
  /\ cooldown' \in {cooldown, cooldown \cup {Current(c)}}
  /\ call' = [call EXCEPT ![c] = TryNext(c)]
  /\ UNCHANGED <<fork, ends, archiving, pg, disk, down, blind, faults>>

(* fetch_wal at the peer: not in its archive.                              *)
NotThere(c) ==
  /\ AtPeer(c, "pick") /\ Current(c) \notin down \cup cooldown
  /\ ~Archived(Current(c), call[c].file)
  /\ call' = [call EXCEPT ![c] = TryNext(c)]
  /\ UNCHANGED <<fork, ends, archiving, pg, disk, down, cooldown, blind, faults>>

(* A stream opens: a history file is screened, a segment is copied.        *)
Opened(c) ==
  /\ AtPeer(c, "pick") /\ Current(c) \notin down \cup cooldown
  /\ Archived(Current(c), call[c].file)
  /\ call' = [call EXCEPT ![c].step = IF IsHistory(call[c].file) THEN "screen"
                                      ELSE "copy"]
  /\ UNCHANGED <<fork, ends, archiving, pg, disk, down, cooldown, blind, faults>>

(* Mutant: a timeline that knows ours is followed wherever it left it.     *)
MentionsUs(point, requested) ==
  \/ requested <= point.tl
  \/ \E e \in Switches(requested) : e.tli = point.tl

(* reachable, for a known control point.                                   *)
Reachable(point, requested) ==
  \/ requested <= point.tl
  \/ \E e \in Switches(requested) :
       e.tli = point.tl /\ e.switchpoint >= point.ckpt

(* screen_history_file: refused, or read to the end and passed on.  When   *)
(* pg_control cannot be read the file is passed on unscreened.             *)
Screen(c) ==
  /\ AtPeer(c, "screen")
  /\ Current(c) \notin down
  /\ \/ /\ call' = [call EXCEPT ![c] =
                      IF Reachable(pg, call[c].file.tl)
                      THEN [@ EXCEPT !.step = "copy"] ELSE TryNext(c)]
        /\ UNCHANGED <<blind, faults>>
     \/ /\ Fault /\ blind' = TRUE
        /\ call' = [call EXCEPT ![c].step = "copy"]
  /\ UNCHANGED <<fork, ends, archiving, pg, disk, down, cooldown>>

(* Reading the history file fails, or it is larger than the cap.           *)
ScreenFails(c) ==
  /\ AtPeer(c, "screen")
  /\ \/ Current(c) \in down /\ UNCHANGED faults
     \/ Fault
  /\ call' = [call EXCEPT ![c] = TryNext(c)]
  /\ UNCHANGED <<fork, ends, archiving, pg, disk, down, cooldown, blind>>

-----------------------------------------------------------------------------
(* write_restore.                                                          *)

(* Mutant: the name of the temporary file depends on the destination only. *)
FixedName(c) ==
  CHOOSE d \in Call : Target(call[d].file) = Target(call[c].file)

(* Whose temporary file a call writes: its own (random_hex_suffix and      *)
(* create_new).                                                            *)
TmpOf(c) == c

Writing(c) == call[c].step \in {"copy", "sync", "rename"}

(* resolve_dest_path: Fatal, no further peer is asked.                     *)
DestRefused(c) ==
  /\ AtPeer(c, "copy") /\ call[c].pos = 0 /\ Fault
  /\ Answers(c, FALSE)
  /\ UNCHANGED <<fork, ends, archiving, disk, down, cooldown, blind>>

(* copy_buf, block after block.  A history file is in memory.              *)
CopyBlock(c) ==
  LET file == call[c].file
      n == call[c].pos + 1
  IN  /\ AtPeer(c, "copy")
      /\ Current(c) \notin down \/ IsHistory(file)
      /\ n = 2 => ~Partial(Current(c), file)
      /\ tmp' = [tmp EXCEPT ![TmpOf(c)] =
                   IF n = 1 THEN [NoContent EXCEPT !.first = file]
                   ELSE [@ EXCEPT !.rest = file, !.synced = FALSE]]
      /\ call' = [call EXCEPT ![c].pos = n,
                              ![c].step = IF n = 2 THEN "sync" ELSE @]
      /\ UNCHANGED <<fork, ends, archiving, pg, late, dest, down, cooldown, blind, faults>>

(* The peer reads to the end of what its archive has so far, and that ends *)
(* the stream without an error (fetch_wal).                                *)
CopyEndsShort(c) ==
  /\ AtPeer(c, "copy")
  /\ Current(c) \notin down /\ Partial(Current(c), call[c].file)
  /\ tmp' = [tmp EXCEPT ![TmpOf(c)].short = TRUE]
  /\ call' = [call EXCEPT ![c].step = "sync"]
  /\ UNCHANGED <<fork, ends, archiving, pg, late, dest, down, cooldown, blind, faults>>

(* Mutant: the content only reaches the kernel (`flush`).                  *)
FlushOnly(c) ==
  /\ AtPeer(c, "sync")
  /\ call' = [call EXCEPT ![c].step = "rename"]
  /\ UNCHANGED <<fork, ends, archiving, pg, disk, down, cooldown, blind, faults>>

SyncAll(c) ==
  /\ AtPeer(c, "sync")
  /\ tmp' = [tmp EXCEPT ![TmpOf(c)].synced = TRUE]
  /\ call' = [call EXCEPT ![c].step = "rename"]
  /\ UNCHANGED <<fork, ends, archiving, pg, late, dest, down, cooldown, blind, faults>>

Rename(c) ==
  /\ AtPeer(c, "rename")
  /\ dest' = [dest EXCEPT ![Target(call[c].file)] = tmp[TmpOf(c)]]
  /\ tmp' = [tmp EXCEPT ![TmpOf(c)] = NoContent]
  /\ call' = [call EXCEPT ![c].step = "fetched"]
  /\ UNCHANGED <<fork, ends, archiving, pg, late, down, cooldown, blind, faults>>

(* The stream breaks, or a local write, sync or rename fails: the          *)
(* temporary file is removed and the next peer is tried.                   *)
WriteFails(c) ==
  /\ call[c].on /\ call[c].at <= Len(Order) /\ Writing(c)
  /\ \/ /\ call[c].step = "copy" /\ ~IsHistory(call[c].file)
        /\ Current(c) \in down /\ UNCHANGED faults
     \/ Fault
  /\ tmp' = [tmp EXCEPT ![TmpOf(c)] = NoContent]
  /\ call' = [call EXCEPT ![c] = TryNext(c)]
  /\ UNCHANGED <<fork, ends, archiving, pg, late, dest, down, cooldown, blind>>

(* RESTORE_WAL_PER_PEER_TIMEOUT: the attempt is dropped wherever it is.    *)
(* The temporary file stays behind under its name; a rename that was       *)
(* handed to the file system happens all the same.                         *)
TimesOut(c) ==
  /\ call[c].on /\ call[c].at <= Len(Order)
  /\ Writing(c) \/ call[c].step = "screen"
  /\ \/ /\ call[c].step = "screen" \/ (call[c].step = "copy" /\ ~IsHistory(call[c].file))
        /\ Current(c) \in down /\ UNCHANGED faults
     \/ Fault
  /\ late' = IF call[c].step # "rename" THEN late
             ELSE late \cup {[to |-> Target(call[c].file), content |-> tmp[TmpOf(c)]]}
  /\ tmp' = [tmp EXCEPT ![TmpOf(c)] = NoContent]
  /\ cooldown' = cooldown \cup {Current(c)}
  /\ call' = [call EXCEPT ![c] = TryNext(c)]
  /\ UNCHANGED <<fork, ends, archiving, pg, dest, down, blind>>

LateRename ==
  \E x \in late :
    /\ dest' = [dest EXCEPT ![x.to] = x.content]
    /\ late' = late \ {x}
    /\ UNCHANGED <<fork, ends, archiving, pg, call, tmp, down, cooldown, blind, faults>>

Fetched(c) ==
  /\ AtPeer(c, "fetched")
  /\ Answers(c, TRUE)
  /\ UNCHANGED <<fork, ends, archiving, disk, down, cooldown, blind, faults>>

-----------------------------------------------------------------------------
NoAgent ==
  /\ call' = [c \in Call |-> NoCall] /\ cooldown' = {}
  /\ tmp' = [c \in Call |-> NoContent] /\ late' = {}

(* The agent dies: the hooks fail.                                         *)
AgentDies ==
  /\ \E c \in Call : call[c].on
  /\ Fault
  /\ NoAgent
  /\ IF \E c \in Call : call[c].on /\ ~call[c].orphan THEN PgGoesOn(FALSE)
     ELSE UNCHANGED pg
  /\ UNCHANGED <<fork, ends, archiving, dest, down, blind>>

(* What the host's crash leaves of a file: nothing that was not synced.    *)
Durable(content) ==
  IF content.synced \/ content = NoContent THEN content
  ELSE [content EXCEPT !.first = Zeroed, !.rest = Zeroed]

(* The host dies.  The directory was not synced either: a rename may be    *)
(* lost.                                                                   *)
HostDies ==
  /\ Fault
  /\ NoAgent
  /\ pg' = [pg EXCEPT !.state = "down"]
  /\ \E kept \in SUBSET DOMAIN dest :
       dest' = [t \in DOMAIN dest |-> IF t \in kept THEN Durable(dest[t]) ELSE NoContent]
  /\ UNCHANGED <<fork, ends, archiving, down, blind>>

Serve(c) ==
  \/ NotFound(c) \/ Skip(c) \/ Unanswered(c) \/ NotThere(c) \/ Opened(c)
  \/ Screen(c) \/ ScreenFails(c) \/ DestRefused(c) \/ CopyBlock(c)
  \/ CopyEndsShort(c) \/ SyncAll(c) \/ Rename(c) \/ WriteFails(c) \/ TimesOut(c)
  \/ Fetched(c)

Next ==
  \/ PgStarts \/ PgWantsSegment \/ Restartpoint \/ PgStops \/ RivalArchives
  \/ AgentDies \/ HostDies \/ LateRename
  \/ \E c \in Call : Serve(c)
  \/ \E p \in Peer : PeerGoes(p) \/ PeerComes(p) \/ CooldownEnds(p)

(* The agent runs, PostgreSQL asks again and again and systemd starts it,  *)
(* cooldowns end.  Peers owe nothing.                                      *)
Fairness ==
  /\ \A c \in Call : WF_vars(Serve(c))
  /\ WF_vars(PgStarts) /\ WF_vars(PgWantsSegment)
  /\ \A p \in Peer : SF_vars(CooldownEnds(p))

Spec == Init /\ [][Next]_vars
FairSpec == Spec /\ Fairness
-----------------------------------------------------------------------------
Files == [tl : {1, 2}, lsn : 0 .. MaxLsn]

PgType == [state : {"down", "starting", "running", "waiting", "fatal"},
           tl : {1, 2}, ckpt : 0 .. MaxLsn, min : 0 .. MaxLsn, want : Files]
CallType == [on : BOOLEAN, file : Files, at : 1 .. Len(Order) + 1,
             step : {"pick", "screen", "copy", "sync", "rename", "fetched"},
             pos : 0 .. 2, orphan : BOOLEAN]
Block == Files \cup {None, Zeroed}
Content == [first : Block, rest : Block, synced : BOOLEAN, short : BOOLEAN]

(* Types; one call at most is PostgreSQL's own, and only while it waits.   *)
TypeOK ==
  /\ fork \in 0 .. MaxLsn - 1 /\ ends \in [{1, 2} -> 0 .. MaxLsn]
  /\ archiving \in BOOLEAN /\ (archiving => ends[2] < MaxLsn)
  /\ pg \in PgType /\ pg.ckpt <= pg.min
  /\ call \in [Call -> CallType]
  /\ tmp \in [Call -> Content]
  /\ late \subseteq [to : {"history", "segment"}, content : Content]
  /\ dest \in [{"history", "segment"} -> Content]
  /\ down \subseteq Peer /\ cooldown \subseteq Peer
  /\ blind \in BOOLEAN /\ faults \in 0 .. MaxFaults
  /\ (pg.state \in {"starting", "waiting"}) <=>
       (\E c \in Call : call[c].on /\ ~call[c].orphan)

(* A segment the peer had not all of when it was fetched: what there is    *)
(* comes first.                                                            *)
FirstPart(content, file) ==
  content.short /\ content.first \in {file, None} /\ content.rest = None

Proper(content, file) == Holds(content, file) \/ FirstPart(content, file)

(* What stands at a destination is one file of the kind that belongs       *)
(* there, all of it, whatever streams break, attempts time out, calls are  *)
(* left behind and renames come late, and so it is after a crash of the    *)
(* agent or of the host: no two calls write into one file, and nothing is  *)
(* renamed before it was copied and synced (`write_restore`).  The         *)
(* exception is the peer's: its archive is not written that way, and of a  *)
(* segment that its archive_command is still copying it serves the first   *)
(* part.                                                                   *)
WholeOrNothing ==
  /\ TypeOK
  /\ \A t \in DOMAIN dest :
       \/ dest[t] = NoContent
       \/ \E file \in Files : Target(file) = t /\ Proper(dest[t], file)

(* The standby refuses to start for a restored history file only where the *)
(* screening looks at less than PostgreSQL does: its checkpoint is before  *)
(* the fork and its minimum recovery point after it.  (Or its pg_control   *)
(* could not be read.)                                                     *)
FatalOnlyInWindow ==
  pg.state = "fatal" => (pg.ckpt <= fork /\ fork < pg.min) \/ blind

(* "a `Yes` here means PostgreSQL will accept the file" (timeline.rs):     *)
(* a standby whose pg_control was read does not die of a restored file.    *)
YesMeansAccepted == pg.state = "fatal" => blind

(* A standby whose upstream can be reached for good gets all its WAL,      *)
(* whatever the other peers do, unless it took the other timeline or       *)
(* keeps failing on it.                                                    *)
CatchesUp ==
  <>[](Upstream \notin down) =>
    <>(pg.min = MaxLsn \/ pg.tl = 2 \/ pg.state = "fatal")
=============================================================================

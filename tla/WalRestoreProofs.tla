-------------------------- MODULE WalRestoreProofs --------------------------
(***************************************************************************)
(* Proofs about WalRestore: what stands at a destination of                *)
(* restore_command is always one whole file, across crashes of the agent   *)
(* and of the host, and a standby that refuses to start refuses for the    *)
(* one reason that the screening of history files leaves open.  Both hold  *)
(* for every pool order, number of calls, length of WAL and number of      *)
(* faults.                                                                 *)
(***************************************************************************)
EXTENDS WalRestore, TLAPS

(* PostgreSQL's own call: a hook client that it still waits for.           *)
Own(c) == call[c].on /\ ~call[c].orphan

(* Only a call in progress is left behind, there is at most one that       *)
(* PostgreSQL waits for, and it fetches the file PostgreSQL wants.         *)
OwnInv ==
  /\ \A c \in Call : call[c].orphan => call[c].on
  /\ \A c, d \in Call : Own(c) /\ Own(d) => c = d
  /\ \A c \in Call : Own(c) => call[c].file = pg.want

(* A start wants the history file of the rival's timeline, and what is     *)
(* wanted afterwards is the next segment, which exists.                    *)
WantInv ==
  /\ pg.state = "starting" => pg.want = History(2)
  /\ pg.state = "waiting" => pg.min < MaxLsn /\ ~IsHistory(pg.want)

Passed == {"copy", "sync", "rename", "fetched"}

(* A history file that PostgreSQL waits for is only copied when it was     *)
(* found reachable from the control point that PostgreSQL will start from: *)
(* nothing moves that point between the screening and the start.           *)
ScreenInv ==
  \A c \in Call :
    /\ Own(c) /\ call[c].step \in Passed
    /\ IsHistory(call[c].file)
    => Reachable(pg, 2) \/ blind

(* What the temporary file of a call holds: nothing before the copy and    *)
(* after the rename, the first block, the file, and the file on disk.      *)
TmpOK(x, content) ==
  /\ ~x.on \/ x.at > Len(Order) => x.step = "pick"
  /\ x.step \in {"pick", "screen", "fetched"} => content = NoContent
  /\ x.step \in {"pick", "screen"} => x.pos = 0
  /\ x.step = "copy" /\ x.pos = 0 => content = NoContent
  /\ x.step = "copy" /\ x.pos # 0 =>
       x.pos = 1 /\ content.first = x.file /\ content.rest = None
  /\ x.step \in {"sync", "rename"} => Proper(content, x.file)
  /\ x.step = "rename" => content.synced

(* What is renamed, or still to be renamed, to a destination.              *)
Kept(t, content) ==
  content.synced /\ \E file \in Files : Target(file) = t /\ Proper(content, file)

Renames == [to : {"history", "segment"}, content : Content]

DiskInv ==
  /\ tmp \in [Call -> Content] /\ late \subseteq Renames
  /\ dest \in [{"history", "segment"} -> Content]
  /\ \A c \in Call : TmpOK(call[c], tmp[c])
  /\ \A x \in late : Kept(x.to, x.content)
  /\ \A t \in {"history", "segment"} : dest[t] = NoContent \/ Kept(t, dest[t])

IInv ==
  /\ TypeOK /\ DiskInv
  /\ OwnInv /\ WantInv /\ ScreenInv
  /\ FatalOnlyInWindow

-----------------------------------------------------------------------------
LEMMA Constants == /\ MaxLsn \in Nat \ {0} /\ MaxFaults \in Nat
                   /\ Order \in Seq(Peer) /\ Len(Order) \in Nat
                   /\ \A i \in 1 .. Len(Order) : Order[i] \in Peer
<1>1. Order \in Seq(Peer) /\ MaxLsn \in Nat \ {0} /\ MaxFaults \in Nat
  BY WalAssumption DEF Peer
<1>2. QED
  BY <1>1

(* The records that are no file, and the history file the start asks for.  *)
LEMMA FileFacts == /\ NoContent \in Content /\ ~NoContent.synced
                   /\ ~NoContent.short /\ NoContent.first = None
                   /\ NoContent.rest = None
                   /\ History(2) \in Files /\ IsHistory(History(2))
                   /\ History(2).tl = 2
                   /\ NoCall \in CallType
<1>1. History(2) \in Files
  BY Constants DEF Files, History, Segment
<1>2. NoCall \in CallType
  BY <1>1, Constants DEF NoCall, CallType
<1>3. /\ NoContent \in Content /\ ~NoContent.synced /\ ~NoContent.short
      /\ NoContent.first = None /\ NoContent.rest = None
  BY DEF NoContent, Content, Block
<1>4. QED
  BY <1>1, <1>2, <1>3 DEF History, Segment, IsHistory

LEMMA TargetFacts == \A file : Target(file) \in {"history", "segment"}
BY DEF Target

LEMMA InitIInv == Init => IInv
<1> SUFFICES ASSUME Init PROVE IInv
  OBVIOUS
<1> USE Constants, FileFacts
<1>1. PICK k \in 0 .. MaxLsn, m \in 0 .. MaxLsn :
        k <= m /\ pg = [state |-> "down", tl |-> 1, ckpt |-> k, min |-> m,
                        want |-> History(2)]
  BY DEF Init
<1>2. \A c \in Call : call[c] = NoCall /\ ~Own(c)
  BY DEF Init, NoCall, Own
<1>3. DiskInv
  BY <1>2 DEF Init, DiskInv, TmpOK, NoCall
<1>4. TypeOK
  <2>1. fork \in 0 .. MaxLsn - 1 /\ ends \in [{1, 2} -> 0 .. MaxLsn]
    BY DEF Init
  <2>2. pg \in PgType /\ pg.ckpt <= pg.min /\ pg.state = "down"
    BY <1>1 DEF PgType
  <2>3. call \in [Call -> CallType]
    BY DEF Init
  <2>5. ~(pg.state \in {"starting", "waiting"})
        /\ ~(\E c \in Call : call[c].on /\ ~call[c].orphan)
    BY <1>2, <2>2 DEF Own
  <2>6. archiving \in BOOLEAN /\ ~archiving /\ blind \in BOOLEAN
        /\ down \subseteq Peer /\ cooldown \subseteq Peer
        /\ faults \in 0 .. MaxFaults
    <3>1. archiving = FALSE /\ blind = FALSE /\ down = {} /\ cooldown = {} /\ faults = 0
      BY DEF Init
    <3>2. faults \in 0 .. MaxFaults
      BY <3>1
    <3>3. blind \in BOOLEAN /\ archiving \in BOOLEAN /\ ~archiving
      BY <3>1, Zenon
    <3>4. QED
      BY <3>1, <3>2, <3>3
  <2>7. QED
    BY <1>3, <2>1, <2>2, <2>3, <2>5, <2>6 DEF TypeOK, DiskInv, Renames
<1>5. OwnInv /\ WantInv /\ ScreenInv /\ FatalOnlyInWindow
  BY <1>1, <1>2 DEF OwnInv, WantInv, ScreenInv, FatalOnlyInWindow, NoCall
<1>6. QED
  BY <1>3, <1>4, <1>5 DEF IInv

-----------------------------------------------------------------------------
(* The files.  A step writes the temporary file of one call, renames it or *)
(* drops it, and moves that call accordingly.                              *)
LEMMA DiskOne ==
  ASSUME IInv, NEW c \in Call, NEW x \in CallType, NEW content \in Content,
         call' = [call EXCEPT ![c] = x], tmp' = [tmp EXCEPT ![c] = content],
         TmpOK(x, content), UNCHANGED <<late, dest>>
  PROVE  DiskInv'
<1>1. /\ tmp \in [Call -> Content] /\ call \in [Call -> CallType] /\ DiskInv
  BY DEF IInv, TypeOK, DiskInv
<1>2. tmp' \in [Call -> Content]
  BY <1>1
<1>3. \A d \in Call : TmpOK(call'[d], tmp'[d])
  BY <1>1 DEF DiskInv
<1>4. QED
  BY <1>1, <1>2, <1>3 DEF DiskInv

(* Nothing moves but which calls are left behind.                          *)
LEMMA DiskSame ==
  ASSUME IInv, UNCHANGED <<tmp, late, dest>>,
         \A d \in Call : /\ call'[d].step = call[d].step /\ call'[d].pos = call[d].pos
                         /\ call'[d].file = call[d].file /\ call'[d].on = call[d].on
                         /\ call'[d].at = call[d].at
  PROVE  DiskInv'
<1>1. \A d \in Call : TmpOK(call'[d], tmp[d])
  BY DEF IInv, DiskInv, TmpOK
<1>2. QED
  BY <1>1 DEF IInv, DiskInv

(* A call that has no temporary file moves on without one.                 *)
LEMMA DiskIdle ==
  ASSUME IInv, NEW c \in Call, NEW x \in CallType,
         call' = [call EXCEPT ![c] = x],
         call[c].step \in {"pick", "screen", "fetched"}
           \/ (call[c].step = "copy" /\ call[c].pos = 0),
         x.step \in {"pick", "screen", "copy"}, x.pos = 0,
         x.step = "pick" \/ (x.on /\ ~(x.at > Len(Order))),
         UNCHANGED <<tmp, late, dest>>
  PROVE  DiskInv'
<1> USE FileFacts
<1>1. tmp \in [Call -> Content] /\ tmp[c] = NoContent
  BY DEF IInv, DiskInv, TmpOK
<1>2. tmp' = [tmp EXCEPT ![c] = NoContent]
  BY <1>1
<1>3. TmpOK(x, NoContent)
  BY DEF TmpOK
<1>4. QED
  BY <1>2, <1>3, DiskOne

LEMMA ServeDisk ==
  ASSUME IInv, NEW c \in Call, Serve(c)
  PROVE  DiskInv'
<1> USE Constants, FileFacts
<1>1. TypeOK /\ DiskInv
  BY DEF IInv
<1>2. /\ call[c] \in CallType /\ call \in [Call -> CallType] /\ call[c].file \in Files
      /\ call[c].pos \in 0 .. 2 /\ call[c].at \in 1 .. Len(Order) + 1
      /\ tmp \in [Call -> Content] /\ tmp[c] \in Content
      /\ TmpOK(call[c], tmp[c])
  BY <1>1 DEF TypeOK, CallType, DiskInv
<1>3. call[c].at <= Len(Order) => ~(call[c].at > Len(Order))
  BY <1>2
<1>4. ASSUME call[c].at <= Len(Order)
      PROVE  TryNext(c) \in CallType /\ TryNext(c).step = "pick" /\ TryNext(c).pos = 0
  <2> DEFINE a == call[c].at + 1
  <2>1. a \in 1 .. Len(Order) + 1
    BY <1>2, <1>4
  <2>2. TryNext(c) = [call[c] EXCEPT !.at = a, !.step = "pick", !.pos = 0]
    BY DEF TryNext
  <2> HIDE DEF a
  <2>3. 0 \in 0 .. 2
    OBVIOUS
  <2>4. QED
    BY <1>2, <2>1, <2>2, <2>3 DEF CallType
<1>5. NoCall.step = "pick" /\ NoCall.pos = 0
  BY DEF NoCall
<1>6. CASE NotFound(c) \/ Fetched(c) \/ DestRefused(c)
  <2>1. /\ call' = [call EXCEPT ![c] = NoCall] /\ UNCHANGED <<tmp, late, dest>>
    BY <1>6 DEF NotFound, Fetched, DestRefused, Answers, disk
  <2>2. CASE ~NotFound(c)
    <3>1. call[c].step = "fetched" \/ (call[c].step = "copy" /\ call[c].pos = 0)
      BY <1>6, <2>2 DEF Fetched, DestRefused, AtPeer
    <3>2. QED
      BY <1>5, <2>1, <3>1, DiskIdle
  <2>3. CASE NotFound(c)
    <3>1. call[c].at > Len(Order)
      BY <2>3 DEF NotFound
    <3>2. call[c].step = "pick"
      BY <1>2, <3>1 DEF TmpOK
    <3>3. QED
      BY <1>5, <2>1, <3>2, DiskIdle
  <2>4. QED
    BY <2>2, <2>3
<1>7. CASE Skip(c) \/ Unanswered(c) \/ NotThere(c) \/ ScreenFails(c)
  <2>1. /\ call[c].at <= Len(Order) /\ call[c].step \in {"pick", "screen"}
        /\ call' = [call EXCEPT ![c] = TryNext(c)] /\ UNCHANGED <<tmp, late, dest>>
    BY <1>7 DEF Skip, Unanswered, NotThere, ScreenFails, AtPeer, disk
  <2>2. QED
    BY <1>4, <2>1, DiskIdle
<1>8. CASE Opened(c)
  <2> DEFINE s == IF IsHistory(call[c].file) THEN "screen" ELSE "copy"
             x == [call[c] EXCEPT !.step = s]
  <2>1. /\ call[c].step = "pick" /\ call[c].on /\ call[c].at <= Len(Order)
        /\ call' = [call EXCEPT ![c] = x] /\ UNCHANGED <<tmp, late, dest>>
    BY <1>2, <1>8 DEF Opened, AtPeer, disk
  <2>2. /\ x \in CallType /\ x.step = s /\ x.pos = 0
        /\ x.on /\ ~(x.at > Len(Order))
    BY <1>2, <1>3, <2>1 DEF CallType, TmpOK
  <2> HIDE DEF x
  <2>3. QED
    BY <2>1, <2>2, DiskIdle
<1>9. CASE Screen(c)
  <2> DEFINE x == [call[c] EXCEPT !.step = "copy"]
  <2>1. /\ call[c].at <= Len(Order) /\ call[c].step = "screen" /\ call[c].on
        /\ UNCHANGED <<tmp, late, dest>>
        /\ \/ call' = [call EXCEPT ![c] = TryNext(c)]
           \/ call' = [call EXCEPT ![c] = x]
    BY <1>2, <1>9 DEF Screen, AtPeer, disk
  <2>2. /\ x \in CallType /\ x.step = "copy" /\ x.pos = 0
        /\ x.on /\ ~(x.at > Len(Order))
    BY <1>2, <1>3, <2>1 DEF CallType, TmpOK
  <2> HIDE DEF x
  <2>3. QED
    BY <1>4, <2>1, <2>2, DiskIdle
<1>10. CASE CopyBlock(c)
  <2> DEFINE file == call[c].file
             n == call[c].pos + 1
             step == IF n = 2 THEN "sync" ELSE "copy"
             x == [call[c] EXCEPT !.pos = n, !.step = step]
             one == [NoContent EXCEPT !.first = file]
             two == [tmp[c] EXCEPT !.rest = file, !.synced = FALSE]
             content == IF n = 1 THEN one ELSE two
  <2>1. /\ call[c].step = "copy" /\ UNCHANGED <<late, dest>>
        /\ call[c].on /\ call[c].at <= Len(Order)
        /\ call' = [call EXCEPT ![c] = x] /\ tmp' = [tmp EXCEPT ![c] = content]
    BY <1>2, <1>10 DEF CopyBlock, AtPeer, TmpOf
  <2>2. call[c].pos \in {0, 1}
    BY <1>2, <2>1 DEF TmpOK
  <2>3. /\ one \in Content /\ one.first = file /\ one.rest = None
        /\ two \in Content /\ two.first = tmp[c].first /\ two.rest = file
    BY <1>2 DEF Content, Block, NoContent
  <2>4. /\ x \in CallType /\ x.pos = n /\ x.step = step /\ x.file = file
        /\ x.on /\ ~(x.at > Len(Order))
    <3>1. n \in 0 .. 2 /\ step \in {"copy", "sync"}
      BY <2>2
    <3> HIDE DEF n, step
    <3>2. QED
      BY <1>2, <1>3, <2>1, <3>1 DEF CallType
  <2>5. TmpOK(x, content) /\ content \in Content
    <3> HIDE DEF x, one, two
    <3>1. CASE call[c].pos = 0
      BY <2>3, <2>4, <3>1 DEF TmpOK
    <3>2. CASE call[c].pos = 1
      BY <1>2, <2>1, <2>3, <2>4, <3>2 DEF TmpOK, Proper, Holds
    <3>3. QED
      BY <2>2, <3>1, <3>2
  <2> HIDE DEF x, content
  <2>6. QED
    BY <2>1, <2>4, <2>5, DiskOne
<1>11. CASE CopyEndsShort(c)
  <2> DEFINE x == [call[c] EXCEPT !.step = "sync"]
             content == [tmp[c] EXCEPT !.short = TRUE]
  <2>1. /\ call[c].step = "copy" /\ UNCHANGED <<late, dest>>
        /\ call[c].on /\ call[c].at <= Len(Order)
        /\ call' = [call EXCEPT ![c] = x] /\ tmp' = [tmp EXCEPT ![c] = content]
    BY <1>2, <1>11 DEF CopyEndsShort, AtPeer, TmpOf
  <2>2. tmp[c].first \in {call[c].file, None} /\ tmp[c].rest = None
    BY <1>2, <2>1 DEF TmpOK
  <2>3. /\ content \in Content /\ content.first = tmp[c].first
        /\ content.rest = tmp[c].rest /\ content.short
    BY <1>2 DEF Content
  <2>4. /\ x \in CallType /\ x.step = "sync" /\ x.file = call[c].file
        /\ x.on /\ ~(x.at > Len(Order))
    BY <1>2, <1>3, <2>1 DEF CallType
  <2> HIDE DEF x, content
  <2>5. TmpOK(x, content)
    BY <2>2, <2>3, <2>4 DEF TmpOK, Proper, FirstPart
  <2>6. QED
    BY <2>1, <2>3, <2>4, <2>5, DiskOne
<1>12. CASE SyncAll(c)
  <2> DEFINE x == [call[c] EXCEPT !.step = "rename"]
             content == [tmp[c] EXCEPT !.synced = TRUE]
  <2>1. /\ call[c].step = "sync" /\ UNCHANGED <<late, dest>>
        /\ call[c].on /\ call[c].at <= Len(Order)
        /\ call' = [call EXCEPT ![c] = x] /\ tmp' = [tmp EXCEPT ![c] = content]
    BY <1>2, <1>12 DEF SyncAll, AtPeer, TmpOf
  <2>2. Proper(tmp[c], call[c].file)
    BY <1>2, <2>1 DEF TmpOK
  <2>3. /\ content \in Content /\ content.first = tmp[c].first
        /\ content.rest = tmp[c].rest /\ content.short = tmp[c].short
        /\ content.synced
    BY <1>2 DEF Content
  <2>4. /\ x \in CallType /\ x.step = "rename" /\ x.file = call[c].file
        /\ x.on /\ ~(x.at > Len(Order))
    BY <1>2, <1>3, <2>1 DEF CallType
  <2> HIDE DEF x, content
  <2>5. TmpOK(x, content)
    BY <2>2, <2>3, <2>4 DEF TmpOK, Proper, Holds, FirstPart
  <2>6. QED
    BY <2>1, <2>3, <2>4, <2>5, DiskOne
<1>13. ASSUME NEW x \in CallType, TmpOK(x, NoContent),
              call' = [call EXCEPT ![c] = x], tmp' = [tmp EXCEPT ![c] = NoContent],
              late' = late \/ (/\ call[c].step = "rename"
                               /\ late' = late \cup {[to |-> Target(call[c].file),
                                                      content |-> tmp[c]]}),
              dest' = dest \/ (/\ call[c].step = "rename"
                               /\ dest' = [dest EXCEPT ![Target(call[c].file)] = tmp[c]])
       PROVE  DiskInv'
  <2>1. Target(call[c].file) \in {"history", "segment"}
    BY TargetFacts
  <2>2. call[c].step = "rename" => Kept(Target(call[c].file), tmp[c])
    BY <1>2 DEF TmpOK, Kept
  <2>3. \A d \in Call : TmpOK(call'[d], tmp'[d])
    BY <1>1, <1>2, <1>13 DEF DiskInv
  <2>4. tmp' \in [Call -> Content]
    BY <1>2, <1>13
  <2>5. late' \subseteq Renames /\ \A y \in late' : Kept(y.to, y.content)
    <3> DEFINE z == [to |-> Target(call[c].file), content |-> tmp[c]]
    <3>1. z \in Renames /\ z.to = Target(call[c].file) /\ z.content = tmp[c]
      BY <1>2, <2>1 DEF Renames
    <3>2. late' = late \/ (call[c].step = "rename" /\ late' = late \cup {z})
      BY <1>13
    <3> HIDE DEF z
    <3>3. QED
      BY <1>1, <2>2, <3>1, <3>2 DEF DiskInv
  <2>6. /\ dest' \in [{"history", "segment"} -> Content]
        /\ \A t \in {"history", "segment"} : dest'[t] = NoContent \/ Kept(t, dest'[t])
    BY <1>1, <1>2, <1>13, <2>1, <2>2 DEF DiskInv
  <2>7. QED
    BY <2>3, <2>4, <2>5, <2>6 DEF DiskInv
<1>14. CASE Rename(c)
  <2> DEFINE x == [call[c] EXCEPT !.step = "fetched"]
  <2>1. /\ call[c].step = "rename" /\ UNCHANGED late
        /\ call[c].on /\ call[c].at <= Len(Order)
        /\ dest' = [dest EXCEPT ![Target(call[c].file)] = tmp[c]]
        /\ call' = [call EXCEPT ![c] = x] /\ tmp' = [tmp EXCEPT ![c] = NoContent]
    BY <1>2, <1>14 DEF Rename, AtPeer, TmpOf
  <2>2. /\ x \in CallType /\ x.step = "fetched"
        /\ x.on /\ ~(x.at > Len(Order))
    BY <1>2, <1>3, <2>1 DEF CallType
  <2> HIDE DEF x
  <2>3. TmpOK(x, NoContent)
    BY <2>2 DEF TmpOK
  <2>4. QED
    BY <1>13, <2>1, <2>2, <2>3
<1>15. CASE WriteFails(c) \/ TimesOut(c)
  <2>1. /\ call[c].at <= Len(Order) /\ UNCHANGED dest
        /\ call' = [call EXCEPT ![c] = TryNext(c)]
        /\ tmp' = [tmp EXCEPT ![c] = NoContent]
        /\ \/ late' = late
           \/ /\ call[c].step = "rename"
              /\ late' = late \cup {[to |-> Target(call[c].file), content |-> tmp[c]]}
    BY <1>15 DEF WriteFails, TimesOut, TmpOf
  <2>2. TmpOK(TryNext(c), NoContent)
    BY <1>4, <2>1 DEF TmpOK
  <2>3. QED
    BY <1>4, <1>13, <2>1, <2>2
<1>16. QED
  BY <1>6, <1>7, <1>8, <1>9, <1>10, <1>11, <1>12, <1>14, <1>15 DEF Serve

LEMMA DiskStep ==
  ASSUME IInv, [Next]_vars
  PROVE  DiskInv'
<1> USE Constants, FileFacts
<1>1. TypeOK /\ DiskInv
  BY DEF IInv
<1>2. call \in [Call -> CallType] /\ dest \in [{"history", "segment"} -> Content]
  BY <1>1 DEF TypeOK
<1>3. ASSUME NEW f \in Files, Asks(f)
      PROVE  DiskInv'
  <2> DEFINE x == [NoCall EXCEPT !.on = TRUE, !.file = f]
  <2>1. PICK c \in Call : ~call[c].on /\ call' = [call EXCEPT ![c] = x]
    BY <1>3 DEF Asks
  <2>2. x \in CallType /\ x.step = "pick" /\ x.pos = 0
    BY DEF NoCall, CallType
  <2> HIDE DEF x
  <2>3. tmp[c] = NoContent
    BY <1>1, <2>1 DEF DiskInv, TmpOK
  <2>4. TmpOK(x, NoContent)
    BY <2>2 DEF TmpOK
  <2>5. \A d \in Call : TmpOK(call'[d], tmp[d])
    BY <1>1, <1>2, <2>1, <2>3, <2>4 DEF DiskInv
  <2>6. /\ dest' = [dest EXCEPT ![Target(f)] = NoContent] /\ UNCHANGED <<tmp, late>>
    BY <1>3 DEF Asks
  <2>7. QED
    BY <1>1, <1>2, <2>5, <2>6 DEF DiskInv
<1>4. CASE PgStarts
  BY <1>3, <1>4 DEF PgStarts
<1>5. CASE PgWantsSegment
  <2> DEFINE n == pg.min + 1
             tl == IF pg.min >= fork THEN pg.tl ELSE 1
             f == Segment(tl, n)
  <2>1. n \in 0 .. MaxLsn /\ tl \in {1, 2}
    BY <1>1, <1>5 DEF PgWantsSegment, TypeOK, PgType
  <2>2. Asks(f)
    BY <1>5 DEF PgWantsSegment
  <2> HIDE DEF n, tl
  <2>3. f \in Files
    BY <2>1 DEF Files, Segment
  <2> HIDE DEF f
  <2>4. QED
    BY <1>3, <2>2, <2>3
<1>6. CASE PgStops
  <2>1. /\ call' = [c \in Call |-> [call[c] EXCEPT !.orphan = call[c].on]]
        /\ UNCHANGED <<tmp, late, dest>>
    BY <1>6 DEF PgStops, disk
  <2>2. \A d \in Call : /\ call'[d].step = call[d].step /\ call'[d].pos = call[d].pos
                        /\ call'[d].file = call[d].file /\ call'[d].on = call[d].on
                        /\ call'[d].at = call[d].at
    BY <1>2, <2>1 DEF CallType
  <2>3. QED
    BY <2>1, <2>2, DiskSame
<1>7. ASSUME \/ Restartpoint \/ RivalArchives \/ UNCHANGED vars
             \/ \E p \in Peer : PeerGoes(p) \/ PeerComes(p) \/ CooldownEnds(p)
      PROVE  DiskInv'
  <2>1. UNCHANGED <<call, tmp, late, dest>>
    BY <1>7 DEF Restartpoint, RivalArchives, PeerGoes, PeerComes, CooldownEnds, vars, disk
  <2>2. QED
    BY <2>1, DiskSame
<1>8. ASSUME NoAgent,
             \A t \in {"history", "segment"} : dest'[t] = NoContent \/ dest'[t] = dest[t],
             dest' \in [{"history", "segment"} -> Content]
      PROVE  DiskInv'
  <2>1. /\ \A c \in Call : call'[c] = NoCall /\ tmp'[c] = NoContent
        /\ tmp' \in [Call -> Content] /\ late' = {}
    BY <1>8 DEF NoAgent
  <2>2. TmpOK(NoCall, NoContent)
    BY DEF TmpOK, NoCall
  <2>3. QED
    BY <1>1, <1>8, <2>1, <2>2 DEF DiskInv
<1>9. CASE AgentDies
  BY <1>2, <1>8, <1>9 DEF AgentDies
<1>10. CASE HostDies
  <2>1. PICK kept \in SUBSET DOMAIN dest :
          dest' = [t \in DOMAIN dest |-> IF t \in kept THEN Durable(dest[t]) ELSE NoContent]
    BY <1>10 DEF HostDies
  <2>2. \A t \in {"history", "segment"} : Durable(dest[t]) = dest[t]
    BY <1>1 DEF DiskInv, Kept, Durable
  <2>3. NoAgent
    BY <1>10 DEF HostDies
  <2>4. DOMAIN dest = {"history", "segment"}
    BY <1>2
  <2>5. QED
    BY <1>2, <1>8, <2>1, <2>2, <2>3, <2>4
<1>11. CASE LateRename
  <2>1. PICK y \in late : /\ dest' = [dest EXCEPT ![y.to] = y.content]
                          /\ late' = late \ {y} /\ UNCHANGED <<call, tmp>>
    BY <1>11 DEF LateRename
  <2>2. y.to \in {"history", "segment"} /\ y.content \in Content /\ Kept(y.to, y.content)
    BY <1>1 DEF DiskInv, Renames
  <2>3. /\ dest' \in [{"history", "segment"} -> Content]
        /\ \A t \in {"history", "segment"} : dest'[t] = NoContent \/ Kept(t, dest'[t])
    BY <1>1, <1>2, <2>1, <2>2 DEF DiskInv
  <2>4. QED
    BY <1>1, <2>1, <2>3 DEF DiskInv
<1>12. ASSUME NEW c \in Call, Serve(c) PROVE DiskInv'
  BY <1>12, ServeDisk
<1>13. QED
  BY <1>4, <1>5, <1>6, <1>7, <1>9, <1>10, <1>11, <1>12 DEF Next

-----------------------------------------------------------------------------
(* A step of restore_wal that does not answer: one call moves on, and      *)
(* PostgreSQL does not.                                                    *)
LEMMA Progress ==
  ASSUME IInv, NEW c \in Call, NEW r \in CallType,
         call' = [call EXCEPT ![c] = r],
         r.on = call[c].on, r.orphan = call[c].orphan, r.file = call[c].file,
         Own(c) /\ r.step \in Passed /\ IsHistory(r.file)
           => Reachable(pg, 2) \/ blind',
         UNCHANGED <<fork, ends, archiving, pg>>, DiskInv',
         blind' \in BOOLEAN, blind => blind',
         down' \subseteq Peer, cooldown' \subseteq Peer,
         faults' \in 0 .. MaxFaults
  PROVE  IInv'
<1> USE Constants, FileFacts
<1>1. TypeOK /\ OwnInv /\ WantInv /\ ScreenInv /\ FatalOnlyInWindow
  BY DEF IInv
<1>2. call \in [Call -> CallType] /\ call' \in [Call -> CallType]
  BY <1>1 DEF TypeOK
<1>3. \A d \in Call : /\ call'[d].on = call[d].on
                      /\ call'[d].orphan = call[d].orphan
                      /\ call'[d].file = call[d].file
  BY <1>2
<1>4. \A d \in Call : Own(d)' <=> Own(d)
  BY <1>3 DEF Own
<1>5. TypeOK'
  <2>2. (pg.state \in {"starting", "waiting"})' <=>
          (\E d \in Call : call'[d].on /\ ~call'[d].orphan)
    BY <1>1, <1>3 DEF TypeOK
  <2>3. /\ fork' \in 0 .. MaxLsn - 1 /\ ends' \in [{1, 2} -> 0 .. MaxLsn]
        /\ pg' \in PgType /\ pg'.ckpt <= pg'.min
        /\ archiving' \in BOOLEAN /\ (archiving' => ends'[2] < MaxLsn)
    BY <1>1 DEF TypeOK
  <2>4. QED
    BY <1>2, <2>2, <2>3 DEF TypeOK, DiskInv, Renames
<1>7. OwnInv'
  BY <1>1, <1>3, <1>4 DEF OwnInv
<1>8. WantInv' /\ FatalOnlyInWindow'
  BY <1>1 DEF WantInv, FatalOnlyInWindow
<1>9. ScreenInv'
  <2>1. Reachable(pg, 2)' <=> Reachable(pg, 2)
    BY DEF Reachable, Switches
  <2>2. SUFFICES ASSUME NEW d \in Call, Own(d), IsHistory(call[d].file),
                        call'[d].step \in Passed
                 PROVE  Reachable(pg, 2) \/ blind'
    BY <1>3, <1>4, <2>1 DEF ScreenInv
  <2>3. CASE d = c
    BY <1>2, <2>2, <2>3
  <2>4. CASE d # c
    <3>1. call'[d] = call[d]
      BY <1>2, <2>4
    <3>2. QED
      BY <1>1, <2>2, <3>1 DEF ScreenInv
  <2>5. QED
    BY <2>3, <2>4
<1>10. QED
  BY <1>5, <1>7, <1>8, <1>9 DEF IInv

(* The hook's exit code reaches PostgreSQL, which then waits for no call:  *)
(* it runs, or it found a checked history file that it cannot follow.      *)
LEMMA Goes ==
  ASSUME IInv, NEW ok \in BOOLEAN, PgGoesOn(ok),
         pg.state \in {"starting", "waiting"},
         ok /\ pg.state = "starting" => Reachable(pg, 2) \/ blind,
         call' \in [Call -> CallType],
         \A d \in Call : call'[d] = NoCall \/ call'[d] = call[d],
         \A d \in Call : ~Own(d)',
         UNCHANGED <<fork, ends, archiving, dest, down, blind>>, DiskInv',
         cooldown' \subseteq Peer, faults' \in 0 .. MaxFaults
  PROVE  IInv'
<1> USE Constants, FileFacts
<1>1. TypeOK /\ OwnInv /\ WantInv /\ FatalOnlyInWindow
  BY DEF IInv
<1>2. pg \in PgType /\ fork \in 0 .. MaxLsn - 1 /\ pg.ckpt <= pg.min
  BY <1>1 DEF TypeOK
<1>3. /\ pg' \in PgType /\ pg'.ckpt <= pg'.min
      /\ pg'.state \in {"running", "fatal"}
      /\ pg'.state = "fatal" => (pg'.ckpt <= fork /\ fork < pg'.min) \/ blind
  <2>1. CASE pg.state = "starting"
    <3> DEFINE target == IF ok /\ Holds(dest["history"], pg.want) THEN 2 ELSE pg.tl
    <3>1. pg' = IF Startable(target)
                THEN [pg EXCEPT !.state = "running", !.tl = target]
                ELSE [pg EXCEPT !.state = "fatal"]
      BY <2>1 DEF PgGoesOn
    <3>2. target \in {1, 2}
      BY <1>2 DEF PgType
    <3>3. CASE Startable(target)
      BY <1>2, <3>1, <3>2, <3>3 DEF PgType
    <3>4. CASE ~Startable(target)
      <4>1. target = 2 /\ pg.tl = 1 /\ ~(pg.ckpt <= fork /\ pg.min <= fork)
        BY <3>4 DEF Startable
      <4>2. Reachable(pg, 2) => pg.ckpt <= fork
        BY <1>2, <4>1 DEF Reachable, Switches, PgType
      <4>3. ok
        BY <4>1
      <4>4. (pg.ckpt <= fork /\ fork < pg.min) \/ blind
        BY <1>2, <2>1, <4>1, <4>2, <4>3 DEF PgType
      <4>5. pg' = [pg EXCEPT !.state = "fatal"]
        BY <3>1, <3>4
      <4>6. QED
        BY <1>2, <4>4, <4>5 DEF PgType
    <3>5. QED
      BY <3>3, <3>4
  <2>2. CASE pg.state = "waiting"
    <3> DEFINE m == IF ok /\ Holds(dest["segment"], pg.want) THEN pg.min + 1
                    ELSE pg.min
    <3>1. pg' = [pg EXCEPT !.state = "running", !.min = m]
      BY <2>2 DEF PgGoesOn
    <3>2. m \in 0 .. MaxLsn /\ pg.min <= m
      BY <1>1, <1>2, <2>2 DEF WantInv, PgType
    <3> HIDE DEF m
    <3>3. pg' \in PgType
      BY <1>2, <3>1, <3>2 DEF PgType
    <3>4. pg'.state = "running" /\ pg'.ckpt = pg.ckpt /\ pg'.min = m
      BY <1>2, <3>1 DEF PgType
    <3>5. pg.ckpt \in Nat /\ pg.min \in Nat
      BY <1>2 DEF PgType
    <3>6. QED
      BY <1>2, <3>2, <3>3, <3>4, <3>5
  <2>3. QED
    BY <2>1, <2>2
<1>4. TypeOK'
  <2>2. (pg.state \in {"starting", "waiting"})' <=>
          (\E d \in Call : call'[d].on /\ ~call'[d].orphan)
    BY <1>3 DEF Own
  <2>3. QED
    BY <1>1, <1>3, <2>2 DEF TypeOK, DiskInv, Renames
<1>6. OwnInv'
  BY <1>1 DEF OwnInv, NoCall
<1>7. WantInv' /\ FatalOnlyInWindow' /\ ScreenInv'
  BY <1>3 DEF WantInv, FatalOnlyInWindow, ScreenInv
<1>8. QED
  BY <1>4, <1>6, <1>7 DEF IInv

-----------------------------------------------------------------------------
(* PostgreSQL asks for a file, for which no other call of its own is in    *)
(* progress; what was at the destination is gone.                          *)
LEMMA AsksIInv ==
  ASSUME IInv, NEW f \in Files, Asks(f),
         UNCHANGED <<fork, ends, archiving, down, cooldown, blind, faults>>, DiskInv',
         \/ pg.state \in {"down", "fatal"} /\ f = History(2)
         \/ pg.state = "running" /\ pg.min < MaxLsn /\ ~IsHistory(f)
  PROVE  IInv'
<1> USE Constants, FileFacts
<1> DEFINE r == [NoCall EXCEPT !.on = TRUE, !.file = f]
           s == IF pg.state = "running" THEN "waiting" ELSE "starting"
<1>1. TypeOK /\ OwnInv /\ WantInv /\ ScreenInv /\ FatalOnlyInWindow
  BY DEF IInv
<1>2. PICK c \in Call : ~call[c].on /\ call' = [call EXCEPT ![c] = r]
  BY DEF Asks
<1>3. /\ r \in CallType /\ r.on /\ ~r.orphan /\ r.file = f
      /\ r.step = "pick"
  BY DEF NoCall, CallType
<1> HIDE DEF r
<1>4. call \in [Call -> CallType] /\ call' \in [Call -> CallType]
  BY <1>1, <1>2, <1>3 DEF TypeOK
<1>5. call'[c] = r /\ \A d \in Call \ {c} : call'[d] = call[d]
  BY <1>2, <1>4
<1>6. pg' = [pg EXCEPT !.state = s, !.want = f]
  BY DEF Asks
<1>7. s \in {"starting", "waiting"}
  OBVIOUS
<1>8. /\ pg' \in PgType /\ pg'.state = s /\ pg'.want = f
      /\ pg'.ckpt = pg.ckpt /\ pg'.min = pg.min
  BY <1>1, <1>6, <1>7 DEF TypeOK, PgType
<1>9. \A d \in Call \ {c} : ~Own(d) /\ ~Own(d)'
  BY <1>5 DEF Asks, Own
<1>10. Own(c)'
  BY <1>3, <1>5 DEF Own
<1>11. TypeOK'
  <2>2. \E d \in Call : call'[d].on /\ ~call'[d].orphan
    BY <1>10 DEF Own
  <2>3. QED
    BY <1>1, <1>4, <1>6, <1>7, <1>8, <2>2 DEF TypeOK, DiskInv, Renames
<1>13. OwnInv'
  <2>1. \A d \in Call : call'[d].orphan => call'[d].on
    BY <1>1, <1>3, <1>5 DEF OwnInv
  <2>2. \A d \in Call : Own(d)' => d = c
    BY <1>9
  <2>3. QED
    BY <1>3, <1>5, <1>8, <2>1, <2>2 DEF OwnInv
<1>14. WantInv'
  BY <1>8 DEF WantInv
<1>15. ScreenInv'
  BY <1>3, <1>5, <1>9 DEF ScreenInv, Passed
<1>16. FatalOnlyInWindow'
  BY <1>7, <1>8 DEF FatalOnlyInWindow
<1>17. QED
  BY <1>11, <1>13, <1>14, <1>15, <1>16 DEF IInv

(* The end of a call: PostgreSQL goes on with its own, and hears nothing   *)
(* of one that was left behind.                                            *)
LEMMA AnswersIInv ==
  ASSUME IInv, NEW c \in Call, NEW ok \in BOOLEAN, call[c].on, Answers(c, ok),
         ok => call[c].step \in Passed,
         UNCHANGED <<fork, ends, archiving, dest, down, cooldown, blind>>, DiskInv',
         faults' \in 0 .. MaxFaults
  PROVE  IInv'
<1> USE Constants, FileFacts
<1>1. TypeOK /\ OwnInv /\ WantInv /\ ScreenInv /\ FatalOnlyInWindow
  BY DEF IInv
<1>2. call' = [call EXCEPT ![c] = NoCall]
  BY DEF Answers
<1>3. call \in [Call -> CallType] /\ call' \in [Call -> CallType]
  BY <1>1, <1>2 DEF TypeOK
<1>4. call'[c] = NoCall /\ \A d \in Call \ {c} : call'[d] = call[d]
  BY <1>2, <1>3
<1>5. ~Own(c)' /\ \A d \in Call \ {c} : Own(d)' <=> Own(d)
  BY <1>4 DEF Own, NoCall
<1>6. CASE ~call[c].orphan
  <2>1. Own(c) /\ PgGoesOn(ok)
    BY <1>6 DEF Answers, Own
  <2>2. \A d \in Call : ~Own(d)'
    BY <1>1, <1>5, <2>1 DEF OwnInv
  <2>3. pg.state \in {"starting", "waiting"}
    BY <1>1, <2>1 DEF TypeOK, Own
  <2>4. ok /\ pg.state = "starting" => Reachable(pg, 2) \/ blind
    BY <1>1, <2>1 DEF OwnInv, WantInv, ScreenInv
  <2>5. cooldown' \subseteq Peer /\ faults' \in 0 .. MaxFaults
    BY <1>1 DEF TypeOK
  <2>6. QED
    BY <1>3, <1>4, <2>1, <2>2, <2>3, <2>4, <2>5, Goes
<1>7. CASE call[c].orphan
  <2>1. pg' = pg
    BY <1>7 DEF Answers
  <2>2. ~Own(c)
    BY <1>7 DEF Own
  <2>3. \A d \in Call : Own(d)' <=> Own(d)
    BY <1>5, <2>2
  <2>4. TypeOK'
    <3>2. (pg.state \in {"starting", "waiting"})' <=>
            (\E d \in Call : call'[d].on /\ ~call'[d].orphan)
      BY <1>1, <2>1, <2>3 DEF TypeOK, Own
    <3>3. QED
      BY <1>1, <1>3, <2>1, <3>2 DEF TypeOK, DiskInv, Renames
  <2>6. OwnInv'
    BY <1>1, <1>4, <2>1, <2>2, <2>3 DEF OwnInv, NoCall
  <2>7. WantInv' /\ FatalOnlyInWindow'
    BY <1>1, <2>1 DEF WantInv, FatalOnlyInWindow
  <2>8. ScreenInv'
    <3>1. Reachable(pg, 2)' <=> Reachable(pg, 2)
      BY <2>1 DEF Reachable, Switches
    <3>2. QED
      BY <1>1, <1>4, <2>2, <2>3, <3>1 DEF ScreenInv
  <2>9. QED
    BY <2>4, <2>6, <2>7, <2>8 DEF IInv
<1>8. QED
  BY <1>6, <1>7

-----------------------------------------------------------------------------
(* What the agent does for one call.                                       *)
LEMMA ServeIInv ==
  ASSUME IInv, NEW c \in Call, Serve(c), DiskInv'
  PROVE  IInv'
<1> USE Constants, FileFacts
<1>1. TypeOK /\ OwnInv /\ WantInv /\ ScreenInv /\ FatalOnlyInWindow
  BY DEF IInv
<1>2. call[c] \in CallType /\ call \in [Call -> CallType]
  BY <1>1 DEF TypeOK
<1>3. /\ blind \in BOOLEAN /\ down \subseteq Peer /\ cooldown \subseteq Peer
      /\ faults \in 0 .. MaxFaults
  BY <1>1 DEF TypeOK
<1>4. /\ call[c].pos \in 0 .. 2 /\ call[c].at \in 1 .. Len(Order) + 1
  BY <1>1, <1>2 DEF TypeOK, CallType
<1>5. ASSUME call[c].at <= Len(Order)
      PROVE  /\ TryNext(c) \in CallType
             /\ TryNext(c).on = call[c].on /\ TryNext(c).file = call[c].file
             /\ TryNext(c).orphan = call[c].orphan
             /\ TryNext(c).step = "pick" /\ TryNext(c).step \notin Passed
             /\ Current(c) \in Peer
  <2> DEFINE a == call[c].at + 1
  <2>1. a \in 1 .. Len(Order) + 1 /\ Current(c) \in Peer
    BY <1>4, <1>5 DEF Current
  <2>2. TryNext(c) = [call[c] EXCEPT !.at = a, !.step = "pick", !.pos = 0]
    BY DEF TryNext
  <2> HIDE DEF a
  <2>3. 0 \in 0 .. 2
    OBVIOUS
  <2>4. TryNext(c) \in CallType
    BY <1>2, <2>1, <2>2, <2>3 DEF CallType
  <2>5. QED
    BY <1>2, <2>1, <2>2, <2>4 DEF CallType, Passed
<1>6. Fault => faults' \in 0 .. MaxFaults
  BY <1>3 DEF Fault
<1>7. CASE NotFound(c)
  BY <1>3, <1>7, AnswersIInv DEF NotFound, disk
<1>8. CASE Fetched(c)
  BY <1>3, <1>8, AnswersIInv DEF Fetched, AtPeer, disk, Passed
<1>9. CASE DestRefused(c)
  BY <1>6, <1>9, AnswersIInv DEF DestRefused, AtPeer, disk
<1>10. CASE \/ Skip(c) \/ Unanswered(c) \/ NotThere(c)
            \/ ScreenFails(c) \/ WriteFails(c) \/ TimesOut(c)
  <2>1. /\ call[c].at <= Len(Order)
        /\ call' = [call EXCEPT ![c] = TryNext(c)]
        /\ UNCHANGED <<fork, ends, archiving, pg, blind, down>>
        /\ cooldown' \in {cooldown, cooldown \cup {Current(c)}}
        /\ faults' = faults \/ Fault
    BY <1>10 DEF Skip, Unanswered, NotThere, ScreenFails, WriteFails, TimesOut, AtPeer
  <2>2. cooldown' \subseteq Peer /\ faults' \in 0 .. MaxFaults
    BY <1>3, <1>5, <1>6, <2>1
  <2>3. QED
    BY <1>3, <1>5, <2>1, <2>2, Progress
<1>11. CASE Opened(c)
  <2> DEFINE s == IF IsHistory(call[c].file) THEN "screen" ELSE "copy"
             r == [call[c] EXCEPT !.step = s]
  <2>1. /\ call' = [call EXCEPT ![c] = r]
        /\ UNCHANGED <<fork, ends, archiving, pg, down, cooldown, blind, faults>>
    BY <1>2, <1>11 DEF Opened, AtPeer
  <2>2. /\ r \in CallType
        /\ r.on = call[c].on /\ r.file = call[c].file
        /\ r.orphan = call[c].orphan /\ r.step = s
    BY <1>2 DEF CallType
  <2>3. IsHistory(r.file) => r.step \notin Passed
    BY <2>2 DEF Passed
  <2> HIDE DEF r
  <2>4. QED
    BY <1>3, <2>1, <2>2, <2>3, Progress
<1>12. CASE Screen(c)
  <2>1. call[c].at <= Len(Order) /\ call[c].step = "screen"
    BY <1>12 DEF Screen, AtPeer
  <2> DEFINE r == [call[c] EXCEPT !.step = "copy"]
  <2>2. /\ r \in CallType
        /\ r.on = call[c].on /\ r.file = call[c].file
        /\ r.orphan = call[c].orphan /\ r.step = "copy"
    BY <1>2, <2>1 DEF CallType
  <2>3. UNCHANGED <<fork, ends, archiving, pg, down, cooldown>>
    BY <1>12 DEF Screen
  <2>4. Own(c) /\ IsHistory(call[c].file) => call[c].file = History(2)
    <3> SUFFICES ASSUME Own(c), IsHistory(call[c].file)
                 PROVE  call[c].file = History(2)
      OBVIOUS
    <3>1. pg.state \in {"starting", "waiting"} /\ call[c].file = pg.want
      BY <1>1 DEF TypeOK, OwnInv, Own
    <3>2. QED
      BY <1>1, <3>1 DEF WantInv
  <2>5. CASE /\ call' = [call EXCEPT ![c] = TryNext(c)]
             /\ UNCHANGED <<blind, faults>>
    BY <1>3, <1>5, <2>1, <2>3, <2>5, Progress
  <2>6. CASE /\ Reachable(pg, call[c].file.tl)
             /\ call' = [call EXCEPT ![c] = r]
             /\ UNCHANGED <<blind, faults>>
    <3>1. Own(c) /\ IsHistory(r.file) => Reachable(pg, 2) \/ blind'
      BY <2>2, <2>4, <2>6
    <3> HIDE DEF r
    <3>2. QED
      BY <1>3, <2>2, <2>3, <2>6, <3>1, Progress
  <2>7. CASE /\ Fault /\ blind' = TRUE
             /\ call' = [call EXCEPT ![c] = r]
    <3>1. faults' \in 0 .. MaxFaults
      BY <1>6, <2>7
    <3>2. blind' /\ blind' \in BOOLEAN
      BY <2>7, Zenon
    <3> HIDE DEF r
    <3>3. QED
      BY <1>3, <2>2, <2>3, <2>7, <3>1, <3>2, Progress
  <2>8. QED
    <3>1. \/ /\ call' = [call EXCEPT ![c] = IF Reachable(pg, call[c].file.tl)
                                           THEN r ELSE TryNext(c)]
             /\ UNCHANGED <<blind, faults>>
          \/ /\ Fault /\ blind' = TRUE
             /\ call' = [call EXCEPT ![c] = r]
      BY <1>2, <1>12 DEF Screen
    <3> HIDE DEF r
    <3>2. QED
      BY <2>5, <2>6, <2>7, <3>1
<1>13. ASSUME NEW n \in 0 .. 2, NEW step \in {"copy", "sync", "rename", "fetched"},
              call[c].step \in Passed,
              call' = [call EXCEPT ![c].pos = n, ![c].step = step],
              UNCHANGED <<fork, ends, archiving, pg, down, cooldown, blind, faults>>
       PROVE  IInv'
  <2> DEFINE r == [call[c] EXCEPT !.pos = n, !.step = step]
  <2>1. call' = [call EXCEPT ![c] = r]
    BY <1>2, <1>13
  <2>2. /\ r \in CallType
        /\ r.on = call[c].on /\ r.file = call[c].file
        /\ r.orphan = call[c].orphan /\ r.step = step
    BY <1>2 DEF CallType
  <2>3. Own(c) /\ IsHistory(call[c].file) => Reachable(pg, 2) \/ blind
    BY <1>1, <1>13 DEF ScreenInv
  <2> HIDE DEF r
  <2>4. QED
    BY <1>3, <1>13, <2>1, <2>2, <2>3, Progress
<1>14. CASE CopyBlock(c)
  <2> DEFINE n == call[c].pos + 1
             step == IF n = 2 THEN "sync" ELSE "copy"
  <2>1. /\ call[c].step = "copy"
        /\ call' = [call EXCEPT ![c].pos = n, ![c].step = step]
        /\ UNCHANGED <<fork, ends, archiving, pg, down, cooldown, blind, faults>>
    BY <1>2, <1>14 DEF CopyBlock, AtPeer
  <2>2. n \in 0 .. 2
    BY <1>4, <2>1 DEF IInv, DiskInv, TmpOK
  <2>3. step \in {"copy", "sync", "rename", "fetched"} /\ call[c].step \in Passed
    BY <2>1 DEF Passed
  <2> HIDE DEF n, step
  <2>4. QED
    BY <1>13, <2>1, <2>2, <2>3
<1>15. CASE CopyEndsShort(c) \/ SyncAll(c) \/ Rename(c)
  <2>1. PICK step \in {"sync", "rename", "fetched"} :
          /\ call[c].step \in {"copy", "sync", "rename"}
          /\ call' = [call EXCEPT ![c].step = step]
          /\ UNCHANGED <<fork, ends, archiving, pg, down, cooldown, blind, faults>>
    BY <1>15 DEF CopyEndsShort, SyncAll, Rename, AtPeer
  <2>2. call' = [call EXCEPT ![c].pos = call[c].pos, ![c].step = step]
    <3>1. [call[c] EXCEPT !.step = step] =
            [call[c] EXCEPT !.pos = call[c].pos, !.step = step]
      BY <1>2 DEF CallType
    <3>2. QED
      BY <1>2, <2>1, <3>1
  <2>3. QED
    BY <1>4, <1>13, <2>1, <2>2 DEF Passed
<1>16. QED
  BY <1>7, <1>8, <1>9, <1>10, <1>11, <1>12, <1>14, <1>15 DEF Serve

-----------------------------------------------------------------------------
LEMMA NextIInv == IInv /\ [Next]_vars => IInv'
<1> USE Constants, FileFacts
<1> SUFFICES ASSUME IInv, [Next]_vars PROVE IInv'
  OBVIOUS
<1>0. DiskInv'
  BY DiskStep
<1>1. TypeOK /\ OwnInv /\ WantInv /\ ScreenInv /\ FatalOnlyInWindow
  BY DEF IInv
<1>2. /\ pg \in PgType /\ pg.ckpt <= pg.min /\ fork \in 0 .. MaxLsn - 1
      /\ call \in [Call -> CallType] /\ ends \in [{1, 2} -> 0 .. MaxLsn]
      /\ faults \in 0 .. MaxFaults
  BY <1>1 DEF TypeOK
<1>3. CASE PgStarts
  BY <1>0, <1>3, AsksIInv DEF PgStarts
<1>4. CASE PgWantsSegment
  <2> DEFINE n == pg.min + 1
             tl == IF pg.min >= fork THEN pg.tl ELSE 1
             f == Segment(tl, n)
  <2>1. n \in 0 .. MaxLsn /\ n # 0 /\ pg.min < MaxLsn
    BY <1>2, <1>4 DEF PgWantsSegment, PgType
  <2>2. tl \in {1, 2}
    BY <1>2 DEF PgType
  <2>3. Asks(f) /\ pg.state = "running"
        /\ UNCHANGED <<fork, ends, archiving, down, cooldown, blind, faults>>
    BY <1>4 DEF PgWantsSegment
  <2> HIDE DEF n, tl
  <2>4. f \in Files /\ ~IsHistory(f)
    BY <2>1, <2>2 DEF Files, Segment, IsHistory
  <2> HIDE DEF f
  <2>5. QED
    BY <1>0, <2>1, <2>3, <2>4, AsksIInv
<1>5. CASE Restartpoint
  <2>1. /\ pg.state = "running" /\ pg' = [pg EXCEPT !.ckpt = pg.min]
        /\ UNCHANGED <<fork, ends, archiving, call, down, cooldown, blind, faults>>
    BY <1>5 DEF Restartpoint
  <2>2. /\ pg' \in PgType /\ pg'.state = "running" /\ pg'.want = pg.want
        /\ pg'.ckpt = pg.min /\ pg'.min = pg.min
    BY <1>2, <2>1 DEF PgType
  <2>3. pg'.ckpt <= pg'.min
    BY <1>2, <2>2 DEF PgType
  <2>4. \A c \in Call : ~Own(c) /\ ~Own(c)'
    BY <1>1, <2>1 DEF TypeOK, Own
  <2>5. TypeOK'
    BY <1>0, <1>1, <2>1, <2>2, <2>3 DEF TypeOK, DiskInv, Renames
  <2>6. QED
    BY <1>0, <1>1, <2>1, <2>2, <2>4, <2>5
    DEF IInv, OwnInv, WantInv, ScreenInv, FatalOnlyInWindow
<1>6. CASE PgStops
  <2>1. /\ pg' = [pg EXCEPT !.state = "down"]
        /\ call' = [c \in Call |-> [call[c] EXCEPT !.orphan = call[c].on]]
        /\ UNCHANGED <<fork, ends, archiving, down, cooldown, blind>>
    BY <1>6 DEF PgStops
  <2>2. faults' \in 0 .. MaxFaults
    BY <1>2, <1>6 DEF PgStops, Fault
  <2>3. /\ pg' \in PgType /\ pg'.state = "down"
        /\ pg'.ckpt = pg.ckpt /\ pg'.min = pg.min
    BY <1>2, <2>1 DEF PgType
  <2>4. \A c \in Call :
          /\ call'[c] \in CallType
          /\ call'[c].orphan = call[c].on /\ call'[c].on = call[c].on
          /\ call'[c].step = call[c].step
    BY <1>2, <2>1 DEF CallType
  <2>5. call' \in [Call -> CallType]
    BY <2>1, <2>4
  <2>6. \A c \in Call : ~Own(c)'
    BY <2>4 DEF Own
  <2>7. TypeOK'
    <3>2. (pg.state \in {"starting", "waiting"})' <=>
            (\E c \in Call : call'[c].on /\ ~call'[c].orphan)
      BY <2>3, <2>4
    <3>3. QED
      BY <1>0, <1>1, <2>1, <2>2, <2>3, <2>5, <3>2 DEF TypeOK, DiskInv, Renames
  <2>8. WantInv' /\ FatalOnlyInWindow'
    BY <1>1, <2>1, <2>3 DEF WantInv, FatalOnlyInWindow
  <2>9. OwnInv' /\ ScreenInv'
    BY <2>4, <2>6 DEF OwnInv, ScreenInv
  <2>10. QED
    BY <1>0, <2>7, <2>8, <2>9 DEF IInv
<1>7. CASE AgentDies
  <2>1. /\ call' = [c \in Call |-> NoCall] /\ cooldown' = {}
        /\ UNCHANGED <<fork, ends, archiving, dest, down, blind>>
    BY <1>7 DEF AgentDies, NoAgent
  <2>2. faults' \in 0 .. MaxFaults
    BY <1>2, <1>7 DEF AgentDies, Fault
  <2>3. call' \in [Call -> CallType] /\ \A c \in Call : call'[c] = NoCall
    BY <2>1
  <2>4. \A c \in Call : ~Own(c)'
    BY <2>3 DEF Own, NoCall
  <2>5. CASE \E c \in Call : Own(c)
    <3>1. PgGoesOn(FALSE)
      BY <1>7, <2>5 DEF AgentDies, Own
    <3>2. pg.state \in {"starting", "waiting"}
      BY <1>1, <2>5 DEF TypeOK, Own
    <3>3. cooldown' \subseteq Peer /\ FALSE \in BOOLEAN
      BY <2>1
    <3>4. QED
      BY <1>0, <2>1, <2>2, <2>3, <2>4, <3>1, <3>2, <3>3, Goes
  <2>6. CASE ~\E c \in Call : Own(c)
    <3>1. pg' = pg
      BY <1>7, <2>6 DEF AgentDies, Own
    <3>2. TypeOK'
      <4>2. (pg.state \in {"starting", "waiting"})' <=>
              (\E c \in Call : call'[c].on /\ ~call'[c].orphan)
        BY <1>1, <2>4, <2>6, <3>1 DEF TypeOK, Own
      <4>3. QED
        BY <1>0, <1>1, <2>1, <2>2, <2>3, <3>1, <4>2 DEF TypeOK, DiskInv, Renames
    <3>3. QED
      BY <1>0, <1>1, <2>1, <2>3, <2>4, <3>1, <3>2
      DEF IInv, OwnInv, WantInv, ScreenInv, FatalOnlyInWindow, NoCall
  <2>7. QED
    BY <2>5, <2>6
<1>8. ASSUME NEW c \in Call, Serve(c) PROVE IInv'
  BY <1>0, <1>8, ServeIInv
<1>9. ASSUME \/ RivalArchives \/ LateRename \/ UNCHANGED vars
             \/ \E p \in Peer : PeerGoes(p) \/ PeerComes(p) \/ CooldownEnds(p)
      PROVE  IInv'
  <2>1. UNCHANGED <<fork, pg, call, blind>>
    BY <1>9 DEF RivalArchives, LateRename, PeerGoes, PeerComes, CooldownEnds, vars
  <2>2. faults' \in 0 .. MaxFaults
    BY <1>2, <1>9 DEF RivalArchives, LateRename, PeerGoes, PeerComes, CooldownEnds,
                      vars, Fault
  <2>3. down' \subseteq Peer /\ cooldown' \subseteq Peer
    BY <1>1, <1>9 DEF RivalArchives, LateRename, PeerGoes, PeerComes, CooldownEnds,
                      vars, TypeOK
  <2>4. /\ ends' \in [{1, 2} -> 0 .. MaxLsn]
        /\ archiving' \in BOOLEAN /\ (archiving' => ends'[2] < MaxLsn)
    <3>1. archiving \in BOOLEAN /\ (archiving => ends[2] < MaxLsn)
      BY <1>1 DEF TypeOK
    <3>2. CASE RivalArchives
      <4>1. archiving' = ~archiving /\ archiving' \in BOOLEAN
        BY <3>1, <3>2, Zenon DEF RivalArchives
      <4>2. CASE archiving
        <5>1. ends' = [ends EXCEPT ![2] = ends[2] + 1]
          BY <3>2, <4>2 DEF RivalArchives
        <5>2. ends[2] + 1 \in 0 .. MaxLsn
          BY <1>2, <3>1, <4>2
        <5>3. QED
          BY <1>2, <4>1, <4>2, <5>1, <5>2
      <4>3. CASE ~archiving
        BY <1>2, <3>2, <4>1, <4>3 DEF RivalArchives
      <4>4. QED
        BY <4>2, <4>3
    <3>3. CASE UNCHANGED <<ends, archiving>>
      BY <1>2, <3>1, <3>3
    <3>4. QED
      BY <1>9, <3>2, <3>3 DEF LateRename, PeerGoes, PeerComes, CooldownEnds, vars
  <2>5. TypeOK'
    BY <1>0, <1>1, <2>1, <2>2, <2>3, <2>4 DEF TypeOK, DiskInv, Renames
  <2>6. (Reachable(pg, 2)' <=> Reachable(pg, 2)) /\ \A c \in Call : Own(c)' <=> Own(c)
    BY <2>1 DEF Reachable, Switches, Own
  <2>7. QED
    BY <1>0, <1>1, <2>1, <2>5, <2>6
    DEF IInv, OwnInv, WantInv, ScreenInv, FatalOnlyInWindow
<1>10. CASE HostDies
  <2>1. /\ call' = [c \in Call |-> NoCall] /\ cooldown' = {}
        /\ pg' = [pg EXCEPT !.state = "down"]
        /\ UNCHANGED <<fork, ends, archiving, down, blind>>
    BY <1>10 DEF HostDies, NoAgent
  <2>2. faults' \in 0 .. MaxFaults
    BY <1>2, <1>10 DEF HostDies, Fault
  <2>3. call' \in [Call -> CallType] /\ \A c \in Call : call'[c] = NoCall
    BY <2>1
  <2>4. \A c \in Call : ~Own(c)' /\ ~call'[c].orphan
    BY <2>3 DEF Own, NoCall
  <2>5. /\ pg' \in PgType /\ pg'.state = "down"
        /\ pg'.ckpt = pg.ckpt /\ pg'.min = pg.min
    BY <1>2, <2>1 DEF PgType
  <2>6. TypeOK'
    <3>1. (pg.state \in {"starting", "waiting"})' <=>
            (\E c \in Call : call'[c].on /\ ~call'[c].orphan)
      BY <2>4, <2>5 DEF Own
    <3>2. QED
      BY <1>0, <1>1, <2>1, <2>2, <2>3, <2>5, <3>1 DEF TypeOK, DiskInv, Renames
  <2>7. QED
    BY <1>0, <2>4, <2>5, <2>6 DEF IInv, OwnInv, WantInv, ScreenInv, FatalOnlyInWindow
<1>11. QED
  BY <1>3, <1>4, <1>5, <1>6, <1>7, <1>8, <1>9, <1>10 DEF Next

LEMMA Invariant == Spec => []IInv
  BY InitIInv, NextIInv, PTL DEF Spec

(* write_restore: whatever streams break, attempts time out, renames come  *)
(* late and hook clients are left behind, and whenever the agent or the    *)
(* host dies, what stands at a destination is one file, copied to its end  *)
(* and on disk; it is a first part only of a segment that the peer's       *)
(* archive_command had not finished.  PostgreSQL waits for one call at     *)
(* most, and every variable keeps its type.                                *)
THEOREM DestinationIsWhole == Spec => []WholeOrNothing
<1>1. IInv => WholeOrNothing
  <2> SUFFICES ASSUME IInv PROVE WholeOrNothing
    OBVIOUS
  <2>1. DOMAIN dest = {"history", "segment"}
    BY DEF IInv, DiskInv
  <2>2. QED
    BY <2>1 DEF IInv, DiskInv, Kept, WholeOrNothing
<1>2. QED
  BY <1>1, Invariant, PTL

(* screen_history_file: a standby refuses to start for a restored history  *)
(* file only where its checkpoint lies before the fork and its minimum     *)
(* recovery point after it, or when its pg_control could not be read.      *)
THEOREM ScreeningIsSound == Spec => []FatalOnlyInWindow
<1>1. IInv => FatalOnlyInWindow
  BY DEF IInv
<1>2. QED
  BY <1>1, Invariant, PTL
=============================================================================
